------------------------- MODULE MessagePathProofs -------------------------
(***************************************************************************)
(* Theorems about the way of a message and about what it carries: about    *)
(* RingQueue, for every capacity and every number of workers; about        *)
(* Frames, for every set of connections, every size of the head, of a      *)
(* chunk and of the buffer, and every bound on the frames; and about       *)
(* Messages, for all values of the fields and all bytes of the wire.       *)
(***************************************************************************)
EXTENDS RingQueue, Frames, Messages, CommonLemmas, SequenceTheorems

-----------------------------------------------------------------------------
(* The queue and its workers: RingQueue.                                   *)

\* Division with remainder: a number is the quotient times the capacity and a rest below it.
LEMMA DivMod ==
  ASSUME NEW a \in Nat, NEW c \in Nat \ {0}
  PROVE  /\ a % c \in 0..c-1
         /\ a \div c \in Nat
         /\ a = (c * (a \div c)) + (a % c)
OBVIOUS

\* Two positions less than a lap apart have different slots.
LEMMA ModDistinct ==
  ASSUME NEW c \in Nat \ {0}, NEW a \in Nat, NEW b \in Nat, a < b, b < a + c
  PROVE  a % c # b % c
<1> DEFINE qa == a \div c
           qb == b \div c
<1>1. /\ a = (c * qa) + (a % c) /\ qa \in Nat
      /\ b = (c * qb) + (b % c) /\ qb \in Nat
      /\ a % c \in Nat
  BY DivMod
<1>2. SUFFICES ASSUME a % c = b % c PROVE FALSE
  OBVIOUS
<1> HIDE DEF qa, qb
<1>3. b - a = c * (qb - qa)
  BY <1>1, <1>2
<1>4. 0 < qb - qa /\ qb - qa < 1
  BY <1>1, <1>3
<1> QED
  BY <1>1, <1>4

\* A position leads to a slot of the ring.
LEMMA IndexRange ==
  ASSUME NEW p \in Nat
  PROVE  Index(p) \in 0..Capacity-1
BY CapacityAssumption, DivMod DEF Index

\* Two positions less than a lap apart lead to different slots.
LEMMA IndexDistinct ==
  ASSUME NEW p \in Nat, NEW q \in Nat, p < q, q < p + Capacity
  PROVE  Index(p) # Index(q)
BY CapacityAssumption, ModDistinct DEF Index

\* In the first lap a position is its own slot.
LEMMA IndexFirstLap ==
  ASSUME NEW p \in Nat, p < Capacity
  PROVE  Index(p) = p
<1>1. p = (Capacity * (p \div Capacity)) + (p % Capacity)
      /\ p % Capacity \in 0..Capacity-1 /\ p \div Capacity \in Nat
  BY CapacityAssumption, DivMod
<1> DEFINE q == p \div Capacity
<1> HIDE DEF q
<1>2. q < 1
  BY <1>1, CapacityAssumption DEF q
<1> QED
  BY <1>1, <1>2, CapacityAssumption DEF Index, q

-----------------------------------------------------------------------------
(* Type correctness. *)

\* The ring starts empty.
LEMMA TypeInit == Init => TypeOK
BY CapacityAssumption DEF Init, TypeOK, WorkerPC

\* Every step of push, pop and the worker keeps the types.
LEMMA TypeStep == TypeOK /\ [Next]_vars => TypeOK'
<1> SUFFICES ASSUME TypeOK, [Next]_vars PROVE TypeOK'
  OBVIOUS
<1> USE DEF TypeOK, queueVars, workerVars, At, Goto, WorkerPC
<1>1. CASE PushReserve
  BY <1>1 DEF PushReserve
<1>2. CASE PushStore
  BY <1>2, IndexRange DEF PushStore
<1>3. ASSUME NEW w \in Workers, PopRead(w) PROVE TypeOK'
  BY <1>3 DEF PopRead
<1>4. ASSUME NEW w \in Workers, PopCheck(w) PROVE TypeOK'
  BY <1>4 DEF PopCheck
<1>5. ASSUME NEW w \in Workers, PopAdvance(w) PROVE TypeOK'
  BY <1>5 DEF PopAdvance
<1>6. ASSUME NEW w \in Workers, PopTake(w) PROVE TypeOK'
  <2>1. slot[Index(wpos[w])] \in Nat
    BY IndexRange
  <2>2. [worker |-> w, pos |-> wpos[w], msg |-> slot[Index(wpos[w])]] \in Take
    BY <2>1 DEF Take
  <2> QED
    BY <1>6, <2>1, <2>2 DEF PopTake
<1>7. ASSUME NEW w \in Workers, Dispatch(w) PROVE TypeOK'
  BY <1>7 DEF Dispatch
<1>8. ASSUME NEW w \in Workers, Delete(w) PROVE TypeOK'
  BY <1>8 DEF Delete
<1>9. CASE UNCHANGED vars
  BY <1>9 DEF vars
<1> QED
  BY <1>1, <1>2, <1>3, <1>4, <1>5, <1>6, <1>7, <1>8, <1>9 DEF Next, Worker

\* Every variable keeps its type (the whole queue, ring_queue.cpp).
THEOREM TypeCorrect == Spec => []TypeOK
BY TypeInit, TypeStep, PTL DEF Spec

-----------------------------------------------------------------------------
(* The window of the ring is never disturbed. *)

ProducerOK == /\ tail <= MaxPush
              /\ pushing # 0 => pushing = tail

WindowInv == TypeOK /\ ProducerOK /\ WindowIntact

\* The window between head and tail starts empty.
LEMMA WindowInit == Init => WindowInv
BY TypeInit, BoundAssumption
   DEF Init, WindowInv, ProducerOK, WindowIntact, InWindow, Stored

\* No step of push or pop disturbs what is stored in the window.
LEMMA WindowStep == WindowInv /\ [Next]_vars => WindowInv'
<1> SUFFICES ASSUME WindowInv, [Next]_vars PROVE WindowInv'
  OBVIOUS
<1>0. TypeOK' /\ TypeOK
  BY TypeStep DEF WindowInv
<1>1. CASE PushReserve
  <2>1. Stored' = Stored /\ slot' = slot
    BY <1>0, <1>1 DEF PushReserve, Stored, TypeOK
  <2>2. ProducerOK'
    BY <1>0, <1>1, BoundAssumption DEF PushReserve, ProducerOK, TypeOK
  <2> QED
    BY <1>0, <2>1, <2>2 DEF WindowInv, WindowIntact, InWindow
<1>2. CASE PushStore
  <2>1. /\ pushing = tail /\ pushing \in Nat \ {0} /\ pushing' = 0 /\ tail' = tail
        /\ Stored = tail - 1 /\ Stored' = tail
    BY <1>0, <1>2 DEF PushStore, Stored, TypeOK, WindowInv, ProducerOK
  <2>2. ProducerOK'
    BY <2>1 DEF WindowInv, ProducerOK
  <2>3. ASSUME NEW p \in 0..MaxPush-1, p < tail, tail <= p + Capacity
        PROVE  slot'[Index(p)] = p + 1
    <3>1. p \in Nat /\ tail - 1 \in Nat
      BY <2>1, BoundAssumption
    <3>2. Index(p) \in DOMAIN slot /\ Index(tail - 1) \in DOMAIN slot
      BY <3>1, <1>0, IndexRange DEF TypeOK
    <3>3. slot' = [slot EXCEPT ![Index(tail - 1)] = tail]
      BY <1>2, <2>1 DEF PushStore
    <3>4. CASE p = tail - 1
      BY <3>2, <3>3, <3>4, <2>1
    <3>5. CASE p < tail - 1
      <4>1. slot[Index(p)] = p + 1
        BY <2>1, <2>3, <3>5, <1>0, CapacityAssumption
           DEF WindowInv, WindowIntact, InWindow, TypeOK
      <4>2. Index(p) # Index(tail - 1)
        BY <3>1, <3>5, <2>3, IndexDistinct, CapacityAssumption, <2>1
      <4> QED
        BY <4>1, <4>2, <3>2, <3>3
    <3> QED
      BY <3>1, <3>4, <3>5, <2>3, <2>1
  <2> QED
    BY <1>0, <2>1, <2>2, <2>3 DEF WindowInv, WindowIntact, InWindow
<1>3. CASE UNCHANGED queueVars \/ UNCHANGED <<tail, slot, pushing>>
  <2>1. UNCHANGED <<tail, slot, pushing>>
    BY <1>3 DEF queueVars
  <2> QED
    BY <1>0, <2>1 DEF WindowInv, ProducerOK, WindowIntact, InWindow, Stored
<1>4. ASSUME NEW w \in Workers, Worker(w)
      PROVE  UNCHANGED queueVars \/ UNCHANGED <<tail, slot, pushing>>
  BY <1>4 DEF Worker, PopRead, PopCheck, PopAdvance, PopTake, Dispatch, Delete, queueVars
<1> QED
  BY <1>1, <1>2, <1>3, <1>4 DEF Next, vars, queueVars

\* A lap of the ring is never disturbed: a stored message stays in its slot
\* until the producer has stored Capacity messages after it, whatever the
\* workers do (RingQueue::push and pop).
THEOREM WindowSafe == Spec => []WindowIntact
<1>1. Spec => []WindowInv
  BY WindowInit, WindowStep, PTL DEF Spec
<1>2. WindowInv => WindowIntact
  BY DEF WindowInv
<1> QED
  BY <1>1, <1>2, PTL

\* pop() returns the message of the position it read as long as that position
\* is in the window at its second read of the slot.
THEOREM PopInWindow == Spec => WindowedPop
<1>1. Spec => []WindowInv
  BY WindowInit, WindowStep, PTL DEF Spec
<1>2. WindowInv /\ [Next]_vars
        => [\A w \in Workers :
              PopTake(w) /\ InWindow(wpos[w]) => wmsg'[w] = wpos[w] + 1]_vars
  <2> SUFFICES ASSUME WindowInv, NEW w \in Workers, PopTake(w), InWindow(wpos[w])
               PROVE  wmsg'[w] = wpos[w] + 1
    OBVIOUS
  <2>1. wpos[w] \in Nat /\ wpos[w] < MaxPush
    BY BoundAssumption DEF WindowInv, TypeOK, InWindow, Stored, ProducerOK
  <2>2. slot[Index(wpos[w])] = wpos[w] + 1
    BY <2>1, BoundAssumption DEF WindowInv, WindowIntact
  <2> QED
    BY <2>2 DEF PopTake, WindowInv, TypeOK
<1> QED
  BY <1>1, <1>2, PTL DEF Spec, WindowedPop

-----------------------------------------------------------------------------
(* Any number of workers: each one sees the messages in order. *)

\* In the first lap a slot that is not NULL holds a stored message.
FilledIsStored ==
  tail <= Capacity => \A i \in 0..Capacity-1 : slot[i] # 0 => i < Stored

Polling(w) == wpc[w] \in {"check", "advance", "take"}

\* A worker never goes back: what it popped is behind the position it reads.
NeverBack(w) ==
  /\ wpos[w] <= head
  /\ wpc[w] = "take" => wpos[w] < head
  /\ wpc[w] \in {"advance", "take"} => slot[Index(wpos[w])] # 0
  /\ \A i \in 1..Len(takes) :
       takes[i].worker = w =>
         takes[i].pos < head /\ (Polling(w) => takes[i].pos < wpos[w])

\* In the first lap a popped message is the one of the position read.
PoppedAtPosition ==
  tail <= Capacity =>
    \A i \in 1..Len(takes) : takes[i].pos < Capacity => takes[i].msg = takes[i].pos + 1

OrderInv ==
  /\ WindowInv
  /\ FilledIsStored
  /\ \A w \in Workers : NeverBack(w)
  /\ PoppedAtPosition
  /\ \A i, j \in 1..Len(takes) :
       i < j /\ takes[i].worker = takes[j].worker => takes[i].pos < takes[j].pos

\* Nobody has taken anything at the start.
LEMMA OrderInit == Init => OrderInv
BY WindowInit, CapacityAssumption
   DEF Init, OrderInv, FilledIsStored, NeverBack, PoppedAtPosition

\* The pushes keep FilledIsStored.
LEMMA PushFilled ==
  ASSUME WindowInv, FilledIsStored, PushReserve \/ PushStore
  PROVE  FilledIsStored'
<1>0. WindowInv' /\ TypeOK /\ TypeOK'
  BY WindowStep DEF WindowInv, Next
<1>1. CASE PushReserve
  BY <1>0, <1>1, CapacityAssumption DEF PushReserve, FilledIsStored, Stored, TypeOK
<1>2. CASE PushStore
  <2>1. SUFFICES ASSUME tail <= Capacity, NEW i \in 0..Capacity-1, slot'[i] # 0
                 PROVE  i < tail
    BY <1>2 DEF PushStore, FilledIsStored, Stored
  <2>2. pushing = tail /\ tail \in Nat \ {0}
    BY <1>0, <1>2 DEF PushStore, WindowInv, ProducerOK, TypeOK
  <2>3. Index(tail - 1) = tail - 1
    BY <2>1, <2>2, IndexFirstLap, CapacityAssumption
  <2>4. i = tail - 1 \/ slot[i] # 0
    BY <1>2, <2>1, <2>2, <2>3, <1>0 DEF PushStore, TypeOK
  <2> QED
    BY <2>1, <2>2, <2>4 DEF FilledIsStored, Stored
<1> QED
  BY <1>1, <1>2

\* In the first lap a worker that found its slot filled finds its message there.
LEMMA FilledInWindow ==
  ASSUME WindowInv, FilledIsStored, tail <= Capacity,
         NEW p \in Nat, p < Capacity, slot[Index(p)] # 0
  PROVE  p < Stored /\ slot[Index(p)] = p + 1
<1>1. Index(p) = p
  BY IndexFirstLap
<1>2. p < Stored
  BY <1>1, CapacityAssumption DEF FilledIsStored
<1>3. Stored \in Int /\ Stored <= tail /\ tail <= MaxPush /\ tail \in Nat
  BY DEF Stored, WindowInv, ProducerOK, TypeOK
<1>4. InWindow(p) /\ p \in 0..MaxPush-1
  BY <1>2, <1>3, CapacityAssumption, BoundAssumption DEF InWindow
<1> QED
  BY <1>2, <1>4 DEF WindowInv, WindowIntact

\* The pushes keep the invariant.
LEMMA OrderPush ==
  ASSUME OrderInv, PushReserve \/ PushStore
  PROVE  OrderInv'
<1>0. WindowInv' /\ WindowInv /\ TypeOK /\ TypeOK' /\ FilledIsStored'
  BY WindowStep, PushFilled DEF OrderInv, WindowInv, Next
<1>1. UNCHANGED <<head, wpc, wpos, takes>> /\ tail <= tail'
  BY <1>0 DEF PushReserve, PushStore, workerVars, TypeOK
<1>2. \A i \in 0..Capacity-1 : slot[i] # 0 => slot'[i] # 0
  BY <1>0 DEF PushReserve, PushStore, TypeOK
<1>3. ASSUME NEW w \in Workers PROVE NeverBack(w)'
  <2>1. Index(wpos[w]) \in 0..Capacity-1
    BY <1>0, IndexRange DEF TypeOK
  <2> QED
    BY <1>1, <1>2, <2>1 DEF OrderInv, NeverBack, Polling
<1>4. PoppedAtPosition'
  BY <1>0, <1>1, CapacityAssumption DEF OrderInv, PoppedAtPosition, TypeOK
<1> QED
  BY <1>0, <1>1, <1>3, <1>4 DEF OrderInv

\* So do the steps of a worker.
LEMMA OrderWork ==
  ASSUME OrderInv, NEW w \in Workers, Worker(w)
  PROVE  OrderInv'
<1>0. WindowInv' /\ WindowInv /\ TypeOK /\ TypeOK'
  BY WindowStep DEF OrderInv, WindowInv, Next
<1>1. UNCHANGED <<tail, slot, pushing>>
  BY DEF Worker, PopRead, PopCheck, PopAdvance, PopTake, Dispatch, Delete, queueVars
<1>2. FilledIsStored'
  BY <1>1 DEF OrderInv, FilledIsStored, Stored
<1> USE DEF TypeOK, At, Goto, queueVars
<1>3. CASE PopTake(w)
  <2> DEFINE t == [worker |-> w, pos |-> wpos[w], msg |-> slot[Index(wpos[w])]]
  <2>1. /\ takes' = Append(takes, t)
        /\ wpc' = [wpc EXCEPT ![w] = "dispatch"] /\ wpc[w] = "take"
        /\ UNCHANGED <<head, wpos>>
    BY <1>3 DEF PopTake
  <2>2. /\ Len(takes) \in Nat /\ Len(takes') = Len(takes) + 1
        /\ \A i \in 1..Len(takes) : takes'[i] = takes[i]
        /\ takes'[Len(takes) + 1] = t
    BY <1>0, <2>1
  <2> HIDE DEF t
  <2>3. t.worker = w /\ t.pos = wpos[w] /\ t.msg = slot[Index(wpos[w])]
    BY DEF t
  <2>4. \A i \in 1..Len(takes') : i \in 1..Len(takes) \/ i = Len(takes) + 1
    BY <2>2
  <2>5. \A v \in Workers : NeverBack(v)
    BY DEF OrderInv
  <2>6. ASSUME NEW v \in Workers PROVE NeverBack(v)'
    BY <1>0, <1>1, <2>1, <2>2, <2>3, <2>4, <2>5 DEF NeverBack, Polling
  <2>7. PoppedAtPosition'
    <3>1. tail <= Capacity /\ wpos[w] < Capacity => slot[Index(wpos[w])] = wpos[w] + 1
      BY <1>0, <2>1, <2>5, FilledInWindow DEF OrderInv, NeverBack
    <3> QED
      BY <1>1, <2>2, <2>3, <2>4, <3>1 DEF OrderInv, PoppedAtPosition
  <2>8. \A i, j \in 1..Len(takes') :
          i < j /\ takes'[i].worker = takes'[j].worker => takes'[i].pos < takes'[j].pos
    <3>1. \A i \in 1..Len(takes) : takes[i].worker = w => takes[i].pos < wpos[w]
      BY <2>1, <2>5 DEF NeverBack, Polling
    <3> QED
      BY <2>2, <2>3, <2>4, <3>1 DEF OrderInv
  <2> QED
    BY <1>0, <1>2, <2>6, <2>7, <2>8 DEF OrderInv
<1>4. CASE PopRead(w) \/ PopCheck(w) \/ PopAdvance(w) \/ Dispatch(w) \/ Delete(w)
  <2>1. takes' = takes /\ PoppedAtPosition'
    BY <1>1, <1>4
       DEF PopRead, PopCheck, PopAdvance, Dispatch, Delete, OrderInv, PoppedAtPosition
  <2>2. ASSUME NEW v \in Workers PROVE NeverBack(v)'
    <3>0. NeverBack(v) /\ \A i \in 1..Len(takes) : takes[i].pos \in Nat
      <4>1. \A i \in 1..Len(takes) : takes[i] \in Take
        BY <1>0
      <4> QED
        BY <4>1 DEF OrderInv, Take
    <3>1. CASE PopRead(w)
      BY <1>0, <1>1, <2>1, <3>0, <3>1, SMTT(30) DEF PopRead, NeverBack, Polling
    <3>2. CASE PopCheck(w)
      BY <1>0, <1>1, <2>1, <3>0, <3>2 DEF PopCheck, NeverBack, Polling
    <3>3. CASE PopAdvance(w)
      BY <1>0, <1>1, <2>1, <3>0, <3>3 DEF PopAdvance, NeverBack, Polling
    <3>4. CASE Dispatch(w)
      BY <1>0, <1>1, <2>1, <3>0, <3>4 DEF Dispatch, NeverBack, Polling
    <3>5. CASE Delete(w)
      BY <1>0, <1>1, <2>1, <3>0, <3>5 DEF Delete, NeverBack, Polling
    <3> QED
      BY <1>4, <3>1, <3>2, <3>3, <3>4, <3>5
  <2> QED
    BY <1>0, <1>2, <2>1, <2>2 DEF OrderInv
<1> QED
  BY <1>3, <1>4 DEF Worker

\* No worker gets a message twice or goes back to an older one, however many
\* race for the queue, for the first Capacity pushes (RingQueue::pop).
THEOREM EachWorkerInOrder == Spec => []WorkerInOrder
<1>1. OrderInv /\ [Next]_vars => OrderInv'
  <2> SUFFICES ASSUME OrderInv, [Next]_vars PROVE OrderInv'
    OBVIOUS
  <2>1. CASE UNCHANGED vars
    <3>1. WindowInv'
      BY <2>1, WindowStep DEF OrderInv
    <3> QED
      BY <2>1, <3>1
         DEF vars, OrderInv, FilledIsStored, NeverBack, Polling, PoppedAtPosition, Stored
  <2> QED
    BY <2>1, OrderPush, OrderWork DEF Next
<1>2. OrderInv => WorkerInOrder
  <2> SUFFICES ASSUME OrderInv, tail <= Capacity,
                      NEW i \in 1..Len(takes), NEW j \in 1..Len(takes),
                      i < j, takes[i].worker = takes[j].worker, takes[j].pos < Capacity
               PROVE  takes[i].msg < takes[j].msg
    BY DEF WorkerInOrder
  <2>1. takes[i] \in Take /\ takes[j] \in Take
    BY DEF OrderInv, WindowInv, TypeOK
  <2>2. takes[i].pos < takes[j].pos /\ takes[i].pos \in Nat /\ takes[j].pos \in Nat
    BY <2>1 DEF OrderInv, Take
  <2> QED
    BY <2>2, CapacityAssumption DEF OrderInv, PoppedAtPosition
<1> QED
  BY OrderInit, <1>1, <1>2, PTL DEF Spec

-----------------------------------------------------------------------------
(* One worker, first lap: first in, first out. *)

\* How far the worker and m_head have come, counted in completed pops.
WorkerProgress(w) ==
  /\ wpc[w] = "take" => head = Len(takes) + 1
  /\ wpc[w] # "take" => head = Len(takes)
  /\ wpc[w] \in {"check", "advance", "take"} => wpos[w] = Len(takes)
  /\ wpc[w] \in {"advance", "take"} => slot[Index(wpos[w])] # 0
  /\ wpc[w] \in {"dispatch", "delete"} => Len(takes) # 0

\* Only messages popped before the one in hand are deleted.
FreedInOrder(w) ==
  FirstLap =>
    /\ \A m \in freed : m <= Len(takes)
    /\ wpc[w] \in {"dispatch", "delete"}
         => wmsg[w] = Len(takes) /\ wmsg[w] \notin freed

FifoInv ==
  /\ WindowInv
  /\ FilledIsStored
  /\ \A w \in Workers : WorkerProgress(w) /\ FreedInOrder(w)
  /\ FirstLap => \A i \in 1..Len(takes) : takes[i].msg = i

\* With one worker, what holds of it holds of all.
LEMMA OnlyWorker ==
  ASSUME OneWorker, NEW u \in Workers, NEW v \in Workers
  PROVE  u = v
<1>1. IsFiniteSet({u, v}) /\ {u, v} \subseteq Workers
  BY WorkersAssumption, {u, v} \subseteq Workers, FS_Subset
<1>2. Cardinality({u, v}) <= 1
  <2>1. Cardinality({u, v}) <= Cardinality(Workers)
    BY <1>1, WorkersAssumption, FS_Subset
  <2> QED
    BY <2>1, <1>1, WorkersAssumption, FS_CardinalityType DEF OneWorker
<1>3. SUFFICES ASSUME u # v PROVE FALSE
  OBVIOUS
<1>4. Cardinality({u}) = 1 /\ IsFiniteSet({u})
  BY FS_Singleton
<1>5. Cardinality({u} \union {v}) = Cardinality({u}) + 1
  BY <1>3, <1>4, FS_AddElement
<1> QED
  BY <1>2, <1>4, <1>5, {u, v} = {u} \union {v}

\* The one worker starts at the first position.
LEMMA FifoInit == Init => FifoInv
BY WindowInit, CapacityAssumption
   DEF Init, FifoInv, FilledIsStored, WorkerProgress, FreedInOrder

\* The pushes of the epoll thread keep the invariant.
LEMMA FifoPush ==
  ASSUME FifoInv, PushReserve \/ PushStore
  PROVE  FifoInv'
<1>0. WindowInv' /\ WindowInv /\ TypeOK /\ TypeOK'
  BY WindowStep DEF FifoInv, WindowInv, Next
<1>1. UNCHANGED <<head, wpc, wpos, wmsg, freed, takes>> /\ tail <= tail'
  BY <1>0 DEF PushReserve, PushStore, workerVars, TypeOK
<1>2. \A i \in 0..Capacity-1 : slot[i] # 0 => slot'[i] # 0
  BY <1>0 DEF PushReserve, PushStore, TypeOK
<1>3. FirstLap' => FirstLap
  BY <1>0, <1>1, CapacityAssumption DEF FirstLap, TypeOK
<1>4. FilledIsStored'
  BY PushFilled, <1>0 DEF FifoInv
<1>5. ASSUME NEW w \in Workers PROVE WorkerProgress(w)' /\ FreedInOrder(w)'
  <2>1. Index(wpos[w]) \in 0..Capacity-1
    BY <1>0, IndexRange DEF TypeOK
  <2> QED
    BY <1>1, <1>2, <1>3, <2>1 DEF FifoInv, WorkerProgress, FreedInOrder
<1> QED
  BY <1>0, <1>1, <1>3, <1>4, <1>5 DEF FifoInv

\* So do the steps of the only worker.
LEMMA FifoWork ==
  ASSUME FifoInv, OneWorker, NEW w \in Workers, Worker(w)
  PROVE  FifoInv'
<1>0. WindowInv' /\ WindowInv /\ TypeOK /\ TypeOK'
  BY WindowStep DEF FifoInv, WindowInv, Next
<1>1. \A v \in Workers : v = w
  BY OnlyWorker
<1>2. UNCHANGED <<tail, slot, pushing>>
  BY DEF Worker, PopRead, PopCheck, PopAdvance, PopTake, Dispatch, Delete, queueVars
<1>3. FilledIsStored'
  BY <1>2 DEF FifoInv, FilledIsStored, Stored
<1>4. SUFFICES /\ WorkerProgress(w)' /\ FreedInOrder(w)'
               /\ FirstLap' => \A i \in 1..Len(takes') : takes'[i].msg = i
  BY <1>0, <1>1, <1>3 DEF FifoInv
<1> USE DEF TypeOK, At, Goto, queueVars
<1>5. CASE PopTake(w)
  <2> DEFINE m == slot[Index(wpos[w])]
  <2>1. /\ takes' = Append(takes, [worker |-> w, pos |-> wpos[w], msg |-> m])
        /\ wmsg'[w] = m /\ wpc'[w] = "dispatch"
        /\ UNCHANGED <<head, freed, wpos>>
    BY <1>0, <1>5 DEF PopTake
  <2>2. Len(takes') = Len(takes) + 1 /\ Len(takes) \in Nat
    BY <1>0, <2>1
  <2>3. WorkerProgress(w)'
    BY <1>0, <1>5, <2>1, <2>2 DEF FifoInv, WorkerProgress, PopTake
  <2>4. ASSUME FirstLap'
        PROVE  FirstLap /\ m = Len(takes')
    <3>1. FirstLap /\ Len(takes) < Capacity
      BY <2>2, <2>4, <1>2, CapacityAssumption DEF FirstLap
    <3>2. wpos[w] = Len(takes) /\ Index(wpos[w]) = wpos[w] /\ m # 0
      BY <1>5, <2>2, <3>1, IndexFirstLap DEF FifoInv, WorkerProgress, PopTake
    <3> QED
      BY <1>0, <2>2, <3>1, <3>2, FilledInWindow DEF FifoInv, FirstLap
  <2>5. FirstLap' => \A i \in 1..Len(takes') : takes'[i].msg = i
    <3>1. \A i \in 1..Len(takes) : takes'[i] = takes[i]
      BY <1>0, <2>1
    <3>2. takes'[Len(takes')].msg = m
      BY <1>0, <2>1, <2>2
    <3>3. \A i \in 1..Len(takes') : i \in 1..Len(takes) \/ i = Len(takes')
      BY <2>2
    <3> QED
      BY <3>1, <3>2, <3>3, <2>4 DEF FifoInv
  <2>6. FreedInOrder(w)'
    BY <1>0, <2>1, <2>2, <2>4 DEF FifoInv, FreedInOrder
  <2> QED
    BY <2>3, <2>5, <2>6
<1>6. CASE PopRead(w) \/ PopCheck(w) \/ PopAdvance(w) \/ Dispatch(w) \/ Delete(w)
  <2>1. takes' = takes /\ (FirstLap' <=> FirstLap)
    BY <1>2, <1>6 DEF PopRead, PopCheck, PopAdvance, Dispatch, Delete, FirstLap
  <2>2. WorkerProgress(w)'
    <3>1. CASE PopRead(w)
      BY <1>0, <1>2, <2>1, <3>1 DEF PopRead, FifoInv, WorkerProgress
    <3>2. CASE PopCheck(w)
      BY <1>0, <1>2, <2>1, <3>2 DEF PopCheck, FifoInv, WorkerProgress
    <3>3. CASE PopAdvance(w)
      BY <1>0, <1>2, <2>1, <3>3 DEF PopAdvance, FifoInv, WorkerProgress
    <3>4. CASE Dispatch(w)
      BY <1>0, <1>2, <2>1, <3>4 DEF Dispatch, FifoInv, WorkerProgress
    <3>5. CASE Delete(w)
      BY <1>0, <1>2, <2>1, <3>5 DEF Delete, FifoInv, WorkerProgress
    <3> QED
      BY <1>6, <3>1, <3>2, <3>3, <3>4, <3>5
  <2>3. FreedInOrder(w)'
    <3>1. CASE PopRead(w) \/ PopCheck(w) \/ PopAdvance(w) \/ Dispatch(w)
      BY <1>0, <2>1, <3>1
         DEF PopRead, PopCheck, PopAdvance, Dispatch, FifoInv, FreedInOrder
    <3>2. CASE Delete(w)
      <4>1. FirstLap => wmsg[w] = Len(takes) /\ wmsg[w] \notin freed
        BY <1>0, <3>2 DEF Delete, FifoInv, FreedInOrder
      <4>2. FirstLap => wpc'[w] = "read"
        BY <1>0, <3>2, <4>1 DEF Delete
      <4>3. freed' = freed \union {wmsg[w]}
        BY <3>2 DEF Delete
      <4> QED
        BY <1>0, <2>1, <4>1, <4>2, <4>3 DEF FifoInv, FreedInOrder
    <3> QED
      BY <1>6, <3>1, <3>2
  <2> QED
    BY <2>1, <2>2, <2>3 DEF FifoInv
<1> QED
  BY <1>5, <1>6 DEF Worker

\* In the first lap every step of the one worker keeps count of the messages.
LEMMA FifoStep ==
  ASSUME OneWorker
  PROVE  FifoInv /\ [Next]_vars => FifoInv'
<1> SUFFICES ASSUME FifoInv, [Next]_vars PROVE FifoInv'
  OBVIOUS
<1>1. CASE PushReserve \/ PushStore
  BY <1>1, FifoPush
<1>2. ASSUME NEW w \in Workers, Worker(w) PROVE FifoInv'
  BY <1>2, FifoWork
<1>3. CASE UNCHANGED vars
  <2>1. WindowInv'
    BY <1>3, WindowStep DEF FifoInv
  <2> QED
    BY <1>3, <2>1
       DEF vars, FifoInv, FilledIsStored, WorkerProgress, FreedInOrder, FirstLap, Stored
<1> QED
  BY <1>1, <1>2, <1>3 DEF Next

\* It keeps count in every behaviour.
LEMMA FifoAlways == ASSUME OneWorker PROVE Spec => []FifoInv
<1>1. FifoInv /\ [Next]_vars => FifoInv'
  BY FifoStep
<1> QED
  BY FifoInit, <1>1, PTL DEF Spec

\* The i-th message popped by the only worker is the i-th one pushed, for the
\* first Capacity pushes and pops (RingQueue::push and pop).
THEOREM FifoSafe == Spec => []FirstLapInOrder
<1>1. CASE OneWorker
  <2>1. FifoInv => FirstLapInOrder
    BY DEF FifoInv, FirstLapInOrder
  <2> QED
    BY <1>1, <2>1, FifoAlways, PTL
<1>2. CASE ~OneWorker
  <2>1. FirstLapInOrder
    BY <1>2 DEF FirstLapInOrder
  <2> QED
    BY <2>1, PTL
<1> QED
  BY <1>1, <1>2

\* In that lap no message is dispatched or deleted after its delete
\* (ServletDispatch::dispatchMessage).
THEOREM DeleteSafe == Spec => []NoUseAfterDelete
<1>1. CASE OneWorker
  <2>1. FifoInv => NoUseAfterDelete
    BY DEF FifoInv, FreedInOrder, NoUseAfterDelete
  <2> QED
    BY <1>1, <2>1, FifoAlways, PTL
<1>2. CASE ~OneWorker
  <2>1. NoUseAfterDelete
    BY <1>2 DEF NoUseAfterDelete
  <2> QED
    BY <2>1, PTL
<1> QED
  BY <1>1, <1>2

-----------------------------------------------------------------------------
(* The first lap of the ring implements MessageChannel. *)

ReceivedMsgs == [i \in 1..Len(takes) |-> takes[i].msg]

\* The ring starts as an empty channel.
LEMMA ChannelInit == Init => Channel!Init
BY DEF Init, Channel!Init, Stored

HeadBound == head <= MaxPop

\* pop stops at the bound on m_head.
LEMMA HeadBoundStep == HeadBound /\ TypeOK /\ [Next]_vars => HeadBound'
<1> SUFFICES ASSUME HeadBound, TypeOK, [Next]_vars PROVE HeadBound'
  OBVIOUS
<1>1. head' = head \/ (head < MaxPop /\ head' = head + 1)
  BY DEF Next, PushReserve, PushStore, Worker, PopRead, PopCheck, PopAdvance, PopTake,
         Dispatch, Delete, vars, queueVars
<1> QED
  BY <1>1, BoundAssumption DEF HeadBound, TypeOK

\* Every step of the ring is a send, a receive or no step of the channel.
LEMMA ChannelStep ==
  ASSUME OneWorker, MaxPush <= Capacity, MaxPop <= Capacity,
         FifoInv, FifoInv', HeadBound', [Next]_vars
  PROVE  [Channel!Next]_<<Stored, ReceivedMsgs>>
<1>0. /\ TypeOK /\ TypeOK' /\ WindowInv /\ Len(takes) \in Nat
  BY DEF FifoInv, WindowInv, TypeOK
<1> USE DEF ReceivedMsgs
<1>1. CASE PushReserve
  <2>1. Stored' = Stored /\ takes' = takes
    BY <1>0, <1>1 DEF PushReserve, Stored, TypeOK, workerVars
  <2> QED
    BY <2>1
<1>2. CASE PushStore
  <2>1. Stored' = Stored + 1 /\ takes' = takes
    BY <1>0, <1>2 DEF PushStore, Stored, TypeOK, workerVars
  <2> QED
    BY <2>1 DEF Channel!Next, Channel!Send
<1>3. ASSUME NEW w \in Workers, PopTake(w)
      PROVE  Channel!Receive
  <2>1. /\ Len(takes') = Len(takes) + 1
        /\ \A i \in 1..Len(takes) : takes'[i] = takes[i]
        /\ Stored' = Stored
        /\ tail' = tail /\ head' = head
    BY <1>0, <1>3 DEF PopTake, TypeOK, queueVars, Stored
  <2>2. head = Len(takes) + 1 /\ wpos[w] = Len(takes) /\ slot[Index(wpos[w])] # 0
    BY <1>0, <1>3 DEF PopTake, At, FifoInv, WorkerProgress
  <2>3. FirstLap' /\ tail <= Capacity /\ Len(takes) < Capacity
    <3>1. tail <= MaxPush
      BY <1>0 DEF WindowInv, ProducerOK
    <3> HIDE DEF ReceivedMsgs
    <3> QED
      BY <1>0, <3>1, <2>1, <2>2, CapacityAssumption, BoundAssumption
         DEF HeadBound, FirstLap, TypeOK
  <2>4. Len(takes) < Stored
    <3>1. Index(wpos[w]) = Len(takes)
      BY <2>2, <2>3, <1>0, IndexFirstLap
    <3> QED
      BY <3>1, <2>2, <2>3, <1>0, CapacityAssumption DEF FifoInv, FilledIsStored
  <2>5. takes'[Len(takes) + 1].msg = Len(takes) + 1
    BY <2>1, <2>3, <1>0 DEF FifoInv
  <2>6. ReceivedMsgs' = Append(ReceivedMsgs, Len(ReceivedMsgs) + 1)
    <3>1. ReceivedMsgs \in Seq(Nat) /\ Len(ReceivedMsgs) = Len(takes)
      <4>1. \A i \in 1..Len(takes) : takes[i].msg \in Nat
        <5>1. \A i \in 1..Len(takes) : takes[i] \in Take
          BY <1>0 DEF TypeOK
        <5> QED
          BY <5>1 DEF Take
      <4> QED
        BY <4>1, <1>0
    <3>2. Append(ReceivedMsgs, Len(takes) + 1)
            = [i \in 1..Len(takes)+1 |-> IF i = Len(takes) + 1 THEN Len(takes) + 1
                                         ELSE takes[i].msg]
      BY <3>1, <1>0
    <3>3. ReceivedMsgs'
            = [i \in 1..Len(takes)+1 |-> IF i = Len(takes) + 1 THEN Len(takes) + 1
                                         ELSE takes[i].msg]
      <4>1. \A i \in 1..Len(takes)+1 : i # Len(takes) + 1 => i \in 1..Len(takes)
        BY <1>0
      <4> QED
        BY <2>1, <2>5, <4>1
    <3> QED
      BY <3>1, <3>2, <3>3
  <2> QED
    BY <2>1, <2>4, <2>6, <1>0 DEF Channel!Receive
<1>4. ASSUME NEW w \in Workers,
             PopRead(w) \/ PopCheck(w) \/ PopAdvance(w) \/ Dispatch(w) \/ Delete(w)
      PROVE  UNCHANGED <<Stored, ReceivedMsgs>>
  BY <1>4 DEF PopRead, PopCheck, PopAdvance, Dispatch, Delete, queueVars, Stored
<1>5. CASE UNCHANGED vars
  BY <1>5 DEF vars, Stored
<1> QED
  BY <1>1, <1>2, <1>3, <1>4, <1>5 DEF Next, Worker, Channel!Next

\* With one worker and a ring as large as the number of messages, the queue is
\* a FIFO channel.
THEOREM QueueIsChannel ==
  ASSUME OneWorker, MaxPush <= Capacity, MaxPop <= Capacity
  PROVE  Spec => IsChannel
<1>1. Spec => []FifoInv
  BY FifoAlways
<1>2. Spec => []HeadBound
  <2>1. Init => HeadBound
    BY BoundAssumption DEF Init, HeadBound
  <2> QED
    BY <2>1, HeadBoundStep, TypeCorrect, PTL DEF Spec
<1>3. FifoInv /\ FifoInv' /\ HeadBound' /\ [Next]_vars
        => [Channel!Next]_<<Stored, ReceivedMsgs>>
  BY ChannelStep
<1> QED
  BY <1>1, <1>2, <1>3, ChannelInit, PTL DEF Spec, IsChannel, Channel!Spec, ReceivedMsgs

-----------------------------------------------------------------------------
(* What is lost is what was popped twice. *)

\* m_head has been advanced once for every pop that has returned and for every
\* one that is about to take; nobody takes a position m_head has not passed.
PopsCounted == head = Len(takes) + Cardinality(InAState("take"))
PassedOnly ==
  /\ \A w \in Workers : /\ wpc[w] \in {"check", "advance"} => wpos[w] <= head
                        /\ wpc[w] = "take" => wpos[w] < head
  /\ \A i \in 1..Len(takes) : takes[i].pos < head
LossInv == TypeOK /\ PopsCounted /\ PassedOnly

\* The workers about to take, after one of them has moved.
LEMMA Takers ==
  ASSUME TypeOK, NEW w \in Workers, NEW l, Goto(w, l)
  PROVE  /\ IsFiniteSet(InAState("take")) /\ Cardinality(InAState("take")) \in Nat
         /\ l # "take" /\ wpc[w] # "take" => InAState("take")' = InAState("take")
         /\ l # "take" /\ wpc[w] = "take" =>
              Cardinality(InAState("take")') = Cardinality(InAState("take")) - 1
         /\ l = "take" /\ wpc[w] # "take" =>
              Cardinality(InAState("take")') = Cardinality(InAState("take")) + 1
<1> DEFINE S == InAState("take")
<1>1. S = {v \in Workers : wpc[v] = "take"} /\ S' = {v \in Workers : wpc'[v] = "take"}
  BY DEF InAState
<1>2. wpc'[w] = l /\ \A v \in Workers : v # w => wpc'[v] = wpc[v]
  BY DEF Goto, TypeOK
<1>3. S \in SUBSET Workers
  BY <1>1
<1> HIDE DEF S
<1>4. IsFiniteSet(S)
  BY <1>3, WorkersAssumption, FS_Subset
<1>5. Cardinality(S) \in Nat
  BY <1>4, FS_CardinalityType
<1>6. l # "take" /\ wpc[w] # "take" => S' = S
  BY <1>1, <1>2
<1>7. l # "take" /\ wpc[w] = "take" => S' = S \ {w} /\ w \in S
  BY <1>1, <1>2
<1>8. l = "take" /\ wpc[w] # "take" => S' = S \union {w} /\ w \notin S
  BY <1>1, <1>2
<1>9. Cardinality(S \ {w}) = IF w \in S THEN Cardinality(S) - 1 ELSE Cardinality(S)
  BY <1>4, FS_RemoveElement
<1>10. Cardinality(S \union {w}) = IF w \in S THEN Cardinality(S) ELSE Cardinality(S) + 1
  BY <1>4, FS_AddElement
<1> QED
  BY <1>4, <1>5, <1>6, <1>7, <1>8, <1>9, <1>10 DEF S

\* Nobody has taken anything, and nobody is about to.
LEMMA LossInit == Init => LossInv
<1> SUFFICES ASSUME Init PROVE LossInv
  OBVIOUS
<1>1. InAState("take") = {}
  BY DEF Init, InAState
<1>2. Cardinality(InAState("take")) = 0
  BY <1>1, FS_EmptySet
<1> QED
  BY <1>2, TypeInit DEF Init, LossInv, PopsCounted, PassedOnly

\* The steps of pop() keep the count; the others do not touch it.
LEMMA LossStep == LossInv /\ [Next]_vars => LossInv'
<1> SUFFICES ASSUME LossInv, [Next]_vars PROVE PopsCounted' /\ PassedOnly'
  BY TypeStep DEF LossInv
<1> DEFINE k == Cardinality(InAState("take"))
           n == Len(takes)
<1>1. /\ TypeOK /\ head = n + k /\ head \in Nat /\ n \in Nat /\ wpos \in [Workers -> Nat]
      /\ wpc \in [Workers -> WorkerPC] /\ takes \in Seq(Take)
  BY DEF LossInv, PopsCounted, TypeOK
<1>2. /\ \A v \in Workers : /\ wpc[v] \in {"check", "advance"} => wpos[v] <= head
                            /\ wpc[v] = "take" => wpos[v] < head
      /\ \A i \in 1..n : takes[i].pos < head
  BY DEF LossInv, PassedOnly
<1>3. ASSUME UNCHANGED <<head, wpc, wpos, takes>> PROVE PopsCounted' /\ PassedOnly'
  BY <1>1, <1>2, <1>3 DEF PopsCounted, PassedOnly, InAState
<1>4. ASSUME NEW w \in Workers, PopRead(w) PROVE PopsCounted' /\ PassedOnly'
  <2>1. /\ Goto(w, "check") /\ wpc[w] = "read" /\ head' = head /\ takes' = takes
        /\ wpos' = [wpos EXCEPT ![w] = head]
    BY <1>4 DEF PopRead, At, queueVars
  <2>2. InAState("take")' = InAState("take")
    BY <1>1, <2>1, Takers
  <2>3. wpos'[w] = head /\ \A v \in Workers : v # w => wpos'[v] = wpos[v] /\ wpc'[v] = wpc[v]
    BY <1>1, <2>1 DEF Goto
  <2>4. wpc'[w] = "check"
    BY <1>1, <2>1 DEF Goto
  <2> HIDE DEF n, k
  <2> QED
    BY <1>1, <1>2, <2>1, <2>2, <2>3, <2>4 DEF PopsCounted, PassedOnly, n, k
<1>5. ASSUME NEW w \in Workers, NEW l \in WorkerPC, l # "take", l # "check", Goto(w, l), wpc[w] # "take",
             l = "advance" => wpc[w] = "check", UNCHANGED <<head, wpos, takes>>
      PROVE  PopsCounted' /\ PassedOnly'
  <2>1. InAState("take")' = InAState("take")
    BY <1>1, <1>5, Takers
  <2>2. wpc'[w] = l /\ \A v \in Workers : v # w => wpc'[v] = wpc[v]
    BY <1>1, <1>5 DEF Goto
  <2> QED
    BY <1>1, <1>2, <1>5, <2>1, <2>2 DEF PopsCounted, PassedOnly
<1>6. ASSUME NEW w \in Workers, PopAdvance(w) PROVE PopsCounted' /\ PassedOnly'
  <2>1. Goto(w, "take") /\ wpc[w] = "advance" /\ head' = head + 1 /\ takes' = takes /\ wpos' = wpos
    BY <1>6 DEF PopAdvance, At
  <2>2. Cardinality(InAState("take")') = k + 1 /\ k \in Nat
    BY <1>1, <2>1, Takers
  <2>3. wpc'[w] = "take" /\ \A v \in Workers : v # w => wpc'[v] = wpc[v]
    BY <1>1, <2>1 DEF Goto
  <2>4. PopsCounted'
    BY <1>1, <2>1, <2>2 DEF PopsCounted
  <2>5. PassedOnly'
    <3> HIDE DEF k
    <3>1. \A v \in Workers : wpos[v] \in Nat
      BY <1>1
    <3>2. \A i \in 1..n : takes[i].pos \in Nat
      <4> TAKE i \in 1..n
      <4>1. takes \in Seq(Take) /\ i \in 1..Len(takes)
        BY <1>1
      <4>2. takes[i] \in Take
        BY ONLY <4>1
      <4> QED
        BY ONLY <4>2 DEF Take
    <3>3. head' = head + 1 /\ head \in Nat /\ takes' = takes /\ wpos' = wpos
      BY <1>1, <2>1
    <3>4. ASSUME NEW v \in Workers
          PROVE  /\ wpc'[v] \in {"check", "advance"} => wpos'[v] <= head'
                 /\ wpc'[v] = "take" => wpos'[v] < head'
      <4>1. /\ wpos[v] \in Nat /\ (wpc[v] \in {"check", "advance"} => wpos[v] <= head)
            /\ (wpc[v] = "take" => wpos[v] < head) /\ (v # w => wpc'[v] = wpc[v])
        BY <1>2, <2>3, <3>1
      <4>2. wpc[w] = "advance" /\ wpc'[w] = "take"
        BY <2>1, <2>3
      <4> QED
        BY ONLY <3>3, <4>1, <4>2
    <3>5. \A i \in 1..Len(takes') : takes'[i].pos < head'
      BY <1>2, <3>2, <3>3
    <3> QED
      BY <3>4, <3>5 DEF PassedOnly
  <2> QED
    BY <2>4, <2>5
<1>7. ASSUME NEW w \in Workers, PopTake(w) PROVE PopsCounted' /\ PassedOnly'
  <2> DEFINE t == [worker |-> w, pos |-> wpos[w], msg |-> slot[Index(wpos[w])]]
  <2>1. Goto(w, "dispatch") /\ wpc[w] = "take" /\ head' = head /\ takes' = Append(takes, t) /\ wpos' = wpos
    BY <1>7 DEF PopTake, At, queueVars
  <2>2. Cardinality(InAState("take")') = k - 1 /\ k \in Nat
    BY <1>1, <2>1, Takers
  <2>3. wpc'[w] = "dispatch" /\ \A v \in Workers : v # w => wpc'[v] = wpc[v]
    BY <1>1, <2>1 DEF Goto
  <2>4. t.pos < head
    BY <1>2, <2>1
  <2> HIDE DEF t
  <2>5. /\ Len(takes') = n + 1 /\ takes'[n + 1] = t /\ \A i \in 1..n : takes'[i] = takes[i]
    BY <1>1, <2>1
  <2> HIDE DEF k
  <2>6. PopsCounted'
    BY <1>1, <2>1, <2>2, <2>5 DEF PopsCounted
  <2>7. ASSUME NEW i \in 1..n + 1 PROVE takes'[i].pos < head
    <3>1. i \in 1..n \/ i = n + 1
      BY <1>1
    <3> QED
      BY <1>2, <2>4, <2>5, <3>1
  <2>8. PassedOnly'
    BY <1>1, <1>2, <2>1, <2>3, <2>5, <2>7 DEF PassedOnly
  <2> QED
    BY <2>6, <2>8
<1>8. ASSUME PushReserve \/ PushStore \/ UNCHANGED vars PROVE PopsCounted' /\ PassedOnly'
  BY <1>3, <1>8 DEF PushReserve, PushStore, vars, workerVars
<1>9. ASSUME NEW w \in Workers, PopCheck(w) PROVE PopsCounted' /\ PassedOnly'
  <2>1. Goto(w, "read") \/ Goto(w, "advance")
    BY <1>9 DEF PopCheck
  <2>2. wpc[w] = "check" /\ UNCHANGED <<head, wpos, takes>>
    BY <1>9 DEF PopCheck, At, queueVars
  <2> QED
    BY <1>5, <2>1, <2>2 DEF WorkerPC
<1>10. ASSUME NEW w \in Workers, Dispatch(w) PROVE PopsCounted' /\ PassedOnly'
  <2>1. Goto(w, "read") \/ Goto(w, "delete") \/ wpc' = wpc
    BY <1>10 DEF Dispatch
  <2>2. wpc[w] = "dispatch" /\ UNCHANGED <<head, wpos, takes>>
    BY <1>10 DEF Dispatch, At, queueVars
  <2> QED
    BY <1>3, <1>5, <2>1, <2>2 DEF WorkerPC
<1>11. ASSUME NEW w \in Workers, Delete(w) PROVE PopsCounted' /\ PassedOnly'
  <2>1. Goto(w, "read") \/ wpc' = wpc
    BY <1>11 DEF Delete
  <2>2. wpc[w] = "delete" /\ UNCHANGED <<head, wpos, takes>>
    BY <1>11 DEF Delete, At, queueVars
  <2> QED
    BY <1>3, <1>5, <2>1, <2>2 DEF WorkerPC
<1> QED
  BY <1>4, <1>6, <1>7, <1>8, <1>9, <1>10, <1>11 DEF Next, Worker

\* LossIsDuplication, for any number of workers and any capacity: a message that
\* RingQueue::pop never returns is paid for by another it returned twice.
THEOREM LossByDuplication == Spec => []LossIsDuplication
<1>1. Spec => []LossInv
  BY LossInit, LossStep, PTL DEF Spec
<1>2. LossInv => LossIsDuplication
  <2> SUFFICES ASSUME LossInv, InAState("take") = {}
               PROVE  Cardinality((0..head-1) \ Taken) = Len(takes) - Cardinality(Taken)
    BY DEF LossIsDuplication
  <2> DEFINE S == 0..head-1
  <2>1. head \in Nat /\ takes \in Seq(Take) /\ \A i \in 1..Len(takes) : takes[i].pos < head
    BY DEF LossInv, TypeOK, PassedOnly
  <2>2. head = Len(takes)
    <3>1. Cardinality(InAState("take")) = 0
      BY FS_EmptySet
    <3> QED
      BY <2>1, <3>1 DEF LossInv, PopsCounted
  <2>3. IsFiniteSet(S) /\ Cardinality(S) = head
    <3>1. 0 \in Int /\ head - 1 \in Int
      BY <2>1
    <3>2. IsFiniteSet(S) /\ Cardinality(S) = IF 0 > head - 1 THEN 0 ELSE head - 1 - 0 + 1
      BY ONLY <3>1, FS_Interval
    <3> HIDE DEF S
    <3> QED
      BY <2>1, <3>2
  <2>4. S \cap Taken = Taken
    <3>1. \A i \in 1..Len(takes) : takes[i].pos \in Nat
      <4> TAKE i \in 1..Len(takes)
      <4>1. takes \in Seq(Take) /\ i \in 1..Len(takes)
        BY <2>1
      <4>2. takes[i] \in Take
        BY ONLY <4>1
      <4> QED
        BY ONLY <4>2 DEF Take
    <3>2. \A i \in 1..Len(takes) : takes[i].pos \in S
      BY <2>1, <3>1
    <3> QED
      BY <3>2 DEF Taken
  <2> HIDE DEF S
  <2>5. Cardinality(S \ Taken) = head - Cardinality(Taken)
    BY <2>3, <2>4, FS_Difference
  <2> QED
    BY <2>2, <2>5 DEF S
<1> QED
  BY <1>1, <1>2, PTL

-----------------------------------------------------------------------------
(* From bytes to messages: Frames.                                         *)

\* The types of the parts of a connection.
Part == [ends : Seq(Nat), arrived : Nat, taken : Nat, eof : BOOLEAN, edge : BOOLEAN, open : BOOLEAN,
         start : Nat, bytes : Seq(Nat), protocol : 0..Garbled, pushed : Seq(0..Garbled),
         refused : BOOLEAN]

\* The frames of the client lie one behind the other, each as long as a frame
\* may be.
Framed(c) ==
  /\ Len(c.ends) <= MaxFrames
  /\ \A n \in DOMAIN c.ends : c.ends[n] >= Begin(c, n) /\ c.ends[n] - Begin(c, n) + 1 \in Sizes
  /\ \A m, n \in DOMAIN c.ends : m < n => c.ends[m] < c.ends[n]

\* Bytes come from the client, in order, and the buffer has room for what is in it.
Filled(c) ==
  /\ c.taken <= c.arrived /\ c.arrived <= Sent(c)
  /\ c.start + Len(c.bytes) < MaxBuffer
  /\ \A i \in DOMAIN c.bytes : c.bytes[i] \in 1..c.taken

Typed ==
  /\ kind \in Kinds /\ conn \in [Conns -> Part]
  /\ \A s \in Conns : Framed(conn[s]) /\ Filled(conn[s])
  /\ thread \in [at : {"wait"}, conn : {NoConn}] \union [at : {"read", "parse"}, conn : Conns]

\* The last byte that has been parsed.
Parsing(c) == IF c.protocol = 0 THEN 0 ELSE c.ends[c.protocol]

\* The message pushed last, and messages pushed one by one.
LastPush(p) == IF p = <<>> THEN 0 ELSE p[Len(p)]
OneByOne(p) == \A i \in DOMAIN p : p[i] \in IF i = 1 THEN {0, 1} ELSE {p[i-1], p[i-1] + 1}

\* As long as no add() has failed the buffer holds exactly what was read behind
\* the last frame, and that frame is the one pushed last.
Straight(c) ==
  /\ c.protocol <= Len(c.ends) /\ Parsing(c) <= c.taken
  /\ Len(c.bytes) = c.taken - Parsing(c)
  /\ \A i \in DOMAIN c.bytes : c.bytes[i] = Parsing(c) + i
  /\ c.protocol = LastPush(c.pushed)
  /\ OneByOne(c.pushed)
Ordered == \A s \in Conns : ~conn[s].refused => Straight(conn[s])

\* What a client whose frames arrive whole has sent, and the thread has read
\* unless it is still reading, ends with a frame; each push is of a new one.
Edges(c) == {0} \union ToSet(c.ends)
Reading(s) == thread.at = "read" /\ thread.conn = s
WholeOk(c, reading) ==
  /\ c.arrived \in Edges(c) /\ (~reading => c.taken \in Edges(c))
  /\ ~c.refused => Len(c.pushed) = c.protocol /\ \A i \in DOMAIN c.pushed : c.pushed[i] = i
Whole == kind = "whole" => \A s \in Conns : WholeOk(conn[s], Reading(s))

\* A client that waits has at most one frame under way, and it fits.
WaitingOk(c) ==
  ~c.refused /\ Len(c.ends) <= c.protocol + 1 /\ Sent(c) < Parsing(c) + MaxBuffer
Waiting == kind = "waiting" => \A s \in Conns : WaitingOk(conn[s])

FramesInv == Typed /\ Ordered /\ Whole /\ Waiting

-----------------------------------------------------------------------------
(* Sequences of bytes.                                                     *)

\* Bytes behind other bytes.
LEMMA Joined ==
  ASSUME NEW s \in Seq(Nat), NEW t \in Seq(Nat)
  PROVE  /\ s \o t \in Seq(Nat) /\ Len(s \o t) = Len(s) + Len(t) /\ Len(s) \in Nat /\ Len(t) \in Nat
         /\ DOMAIN (s \o t) = 1..Len(s) + Len(t)
         /\ \A i \in 1..Len(s) : (s \o t)[i] = s[i]
         /\ \A i \in 1..Len(t) : (s \o t)[Len(s) + i] = t[i]
OBVIOUS

\* The bytes behind the first n.
LEMMA CutOff ==
  ASSUME NEW s \in Seq(Nat), NEW n \in Nat, n <= Len(s)
  PROVE  LET r == SubSeq(s, n + 1, Len(s)) IN
         /\ r \in Seq(Nat) /\ Len(r) = Len(s) - n /\ DOMAIN r = 1..Len(s) - n
         /\ \A i \in 1..Len(s) - n : r[i] = s[n + i]
OBVIOUS

-----------------------------------------------------------------------------
(* The stream of a connection.                                             *)

\* A frame is longer than its head and no longer than the buffer.
LEMMA SizeIsANumber ==
  ASSUME NEW z \in Sizes
  PROVE  z \in Nat /\ z > HeadLen /\ z <= MaxBuffer
BY FramesAssumption

\* The constants are numbers.
LEMMA Bounds ==
  /\ HeadLen \in Nat /\ HeadLen > 0 /\ MaxBuffer \in Nat /\ MaxBuffer > 0
  /\ Chunk \in Nat /\ Chunk > 0 /\ Chunk <= MaxBuffer /\ MaxFrames \in Nat /\ Garbled \in Nat
  /\ \A n \in 0..MaxFrames : n \in 0..Garbled /\ n # Garbled
BY FramesAssumption DEF Garbled

\* Where frames begin and end.
LEMMA FramesLie ==
  ASSUME NEW c \in Part, Framed(c)
  PROVE  /\ Len(c.ends) \in Nat /\ DOMAIN c.ends = 1..Len(c.ends) /\ Sent(c) \in Nat
         /\ c.ends # <<>> => Sent(c) = c.ends[Len(c.ends)] /\ Len(c.ends) \in DOMAIN c.ends
         /\ \A n \in DOMAIN c.ends :
              /\ Begin(c, n) \in Nat /\ Begin(c, n) > 0 /\ c.ends[n] \in Nat /\ c.ends[n] <= Sent(c)
              /\ Begin(c, n) = IF n = 1 THEN 1 ELSE c.ends[n - 1] + 1
              /\ n # 1 => n - 1 \in DOMAIN c.ends
         /\ \A m, n \in DOMAIN c.ends : Begin(c, m) = Begin(c, n) => m = n
<1>1. c.ends \in Seq(Nat)
  BY DEF Part
<1> DEFINE e == c.ends
           k == Len(e)
<1>2. e \in Seq(Nat) /\ k \in Nat /\ DOMAIN e = 1..k /\ \A n \in 1..k : e[n] \in Nat
  BY <1>1
<1>3. (e = <<>> <=> k = 0) /\ (e # <<>> => Sent(c) = e[k])
  BY <1>1 DEF Sent, Last
<1>4. e = <<>> => Sent(c) = 0
  BY DEF Sent
<1>5. \A m, n \in DOMAIN e : m < n => e[m] < e[n]
  BY DEF Framed
<1>6. \A n \in DOMAIN e : Begin(c, n) = IF n = 1 THEN 1 ELSE e[n - 1] + 1
  BY DEF Begin
<1> HIDE DEF e, k
<1>7. Sent(c) \in Nat
  BY <1>2, <1>3, <1>4
<1>8. \A n \in DOMAIN e : e[n] <= Sent(c)
  <2> TAKE n \in DOMAIN e
  <2>1. n \in 1..k /\ k \in 1..k /\ e # <<>>
    BY <1>2, <1>3
  <2>2. n = k \/ n < k
    BY <1>2, <2>1
  <2> QED
    BY <1>2, <1>3, <1>5, <2>1, <2>2
<1>9. \A n \in DOMAIN e : n # 1 => n - 1 \in DOMAIN e
  BY <1>2
<1>10. \A n \in DOMAIN e : Begin(c, n) \in Nat /\ Begin(c, n) > 0
  BY <1>2, <1>6, <1>9
<1>11. \A m, n \in DOMAIN e : m < n => Begin(c, m) < Begin(c, n)
  <2> TAKE m, n \in DOMAIN e
  <2> HAVE m < n
  <2>1. n # 1 /\ n - 1 \in DOMAIN e /\ m \in 1..k /\ n \in 1..k
    BY <1>2
  <2>2. CASE m = 1
    <3>1. Begin(c, m) = 1 /\ Begin(c, n) = e[n - 1] + 1
      BY <1>6, <2>1, <2>2
    <3>2. e[n - 1] >= Begin(c, n - 1) /\ e[n - 1] \in Nat
      BY <1>2, <2>1 DEF Framed, e
    <3>3. Begin(c, n - 1) \in Nat /\ Begin(c, n - 1) > 0
      BY <1>10, <2>1
    <3> QED
      BY <3>1, <3>2, <3>3
  <2>3. CASE m # 1
    <3>1. m - 1 \in DOMAIN e /\ m - 1 < n - 1
      BY <1>9, <2>1, <2>3
    <3>2. e[m - 1] < e[n - 1] /\ e[m - 1] \in Nat /\ e[n - 1] \in Nat
      BY <1>2, <1>5, <2>1, <3>1
    <3> QED
      BY <1>6, <2>1, <2>3, <3>2
  <2> QED
    BY <2>2, <2>3
<1>12. \A m, n \in DOMAIN e : Begin(c, m) = Begin(c, n) => m = n
  <2> TAKE m, n \in DOMAIN e
  <2> HAVE Begin(c, m) = Begin(c, n)
  <2>1. ~(m < n) /\ ~(n < m)
    BY <1>10, <1>11
  <2> QED
    BY <1>2, <2>1
<1>13. e # <<>> => k \in DOMAIN e
  BY <1>2, <1>3
<1> QED
  BY <1>2, <1>3, <1>6, <1>7, <1>8, <1>9, <1>10, <1>12, <1>13 DEF e, k

\* The client adds a frame behind the others.
LEMMA Sends ==
  ASSUME NEW c \in Part, Framed(c), Filled(c), Len(c.ends) < MaxFrames, NEW z \in Sizes,
         NEW d, d = [c EXCEPT !.ends = Append(@, Sent(c) + z)]
  PROVE  /\ d \in Part /\ Framed(d) /\ Filled(d) /\ Sent(d) = Sent(c) + z
         /\ Len(d.ends) = Len(c.ends) + 1 /\ \A n \in DOMAIN c.ends : n \in DOMAIN d.ends /\ d.ends[n] = c.ends[n]
         /\ d.refused = c.refused /\ d.taken = c.taken /\ d.arrived = c.arrived /\ d.pushed = c.pushed
         /\ d.protocol = c.protocol /\ d.bytes = c.bytes
<1>1. z \in Nat /\ z > HeadLen /\ z <= MaxBuffer /\ HeadLen \in Nat /\ MaxFrames \in Nat
  BY SizeIsANumber, Bounds
<1> DEFINE e == c.ends
           k == Len(e)
           x == Sent(c) + z
           f == d.ends
<1>2. /\ e \in Seq(Nat) /\ k \in Nat /\ DOMAIN e = 1..k /\ Sent(c) \in Nat /\ k < MaxFrames
      /\ \A n \in DOMAIN e : Begin(c, n) \in Nat /\ Begin(c, n) > 0 /\ e[n] \in Nat /\ e[n] <= Sent(c)
      /\ \A n \in DOMAIN e : e[n] >= Begin(c, n) /\ e[n] - Begin(c, n) + 1 \in Sizes
      /\ \A m, n \in DOMAIN e : m < n => e[m] < e[n]
  BY FramesLie DEF Part, Framed
<1>3. k = 0 \/ (k \in DOMAIN e /\ Sent(c) = e[k])
  BY <1>2, FramesLie
<1>4. x \in Nat /\ x > Sent(c)
  BY <1>1, <1>2
<1>5. f = Append(e, x)
  BY DEF Part
<1>6. d \in Part
  <2> DEFINE a == Append(e, x)
  <2>1. a \in Seq(Nat)
    BY <1>2, <1>4
  <2>2. d = [c EXCEPT !.ends = a]
    OBVIOUS
  <2> HIDE DEF a
  <2> QED
    BY <2>1, <2>2 DEF Part
<1>7. /\ d.refused = c.refused /\ d.taken = c.taken /\ d.arrived = c.arrived /\ d.pushed = c.pushed
      /\ d.protocol = c.protocol /\ d.bytes = c.bytes /\ d.start = c.start
  BY DEF Part
<1>0. Sent(c) = 0 \/ k # 0
  BY DEF Sent
<1> HIDE DEF e, k
<1>8. /\ f \in Seq(Nat) /\ Len(f) = k + 1 /\ DOMAIN f = 1..k + 1 /\ f[k + 1] = x
      /\ \A n \in 1..k : f[n] = e[n]
  <2>1. k = Len(e)
    BY DEF k
  <2> HIDE DEF x, f
  <2> QED
    BY <1>2, <1>4, <1>5, <2>1 DEF x
<1> HIDE DEF f, x
<1>9. Sent(d) = x
  <2>1. f # <<>>
    BY <1>2, <1>8
  <2>2. f[Len(f)] = x
    BY <1>8
  <2> QED
    BY <2>1, <2>2 DEF Sent, Last, f
<1>10. \A n \in 1..k : Begin(d, n) = Begin(c, n)
  BY <1>2, <1>8 DEF Begin, e, f
<1>11. Begin(d, k + 1) = Sent(c) + 1
  <2>1. CASE k = 0
    BY <1>0, <2>1 DEF Begin
  <2>2. CASE k # 0
    <3>1. (k + 1) - 1 = k /\ k + 1 # 1 /\ f[k] = e[k]
      BY <1>2, <1>8, <2>2
    <3> QED
      BY <1>3, <2>2, <3>1 DEF Begin, f
  <2> QED
    BY <2>1, <2>2
<1>12. ASSUME NEW n \in 1..k + 1 PROVE f[n] >= Begin(d, n) /\ f[n] - Begin(d, n) + 1 \in Sizes
  <2>1. CASE n \in 1..k
    BY <1>2, <1>8, <1>10, <2>1
  <2>2. CASE n = k + 1
    <3>1. x - (Sent(c) + 1) + 1 = z /\ x >= Sent(c) + 1
      BY <1>1, <1>2 DEF x
    <3> QED
      BY <1>8, <1>11, <2>2, <3>1
  <2> QED
    BY <1>2, <2>1, <2>2
<1>13. ASSUME NEW m \in 1..k + 1, NEW n \in 1..k + 1, m < n PROVE f[m] < f[n]
  <2>1. m \in 1..k /\ f[m] = e[m] /\ e[m] <= Sent(c) /\ e[m] \in Nat
    BY <1>2, <1>8, <1>13
  <2>2. CASE n \in 1..k
    BY <1>2, <1>8, <1>13, <2>1, <2>2
  <2>3. CASE n = k + 1
    BY <1>2, <1>4, <1>8, <2>1, <2>3
  <2> QED
    BY <1>2, <2>2, <2>3
<1>14. Len(f) <= MaxFrames
  BY <1>1, <1>2, <1>8
<1>15. Framed(d)
  BY <1>8, <1>12, <1>13, <1>14 DEF Framed, f
<1>16. c.arrived <= Sent(d)
  <2>1. c.arrived \in Nat /\ c.arrived <= Sent(c)
    BY DEF Filled, Part
  <2> QED
    BY <1>2, <1>4, <1>9, <2>1
<1>17. Filled(d)
  BY <1>7, <1>16 DEF Filled
<1> QED
  BY <1>2, <1>6, <1>7, <1>8, <1>9, <1>15, <1>17 DEF x, e, f, k

\* A frame is known by where it begins and ends.
LEMMA SameStream ==
  ASSUME NEW c, NEW d, d.ends = c.ends
  PROVE  /\ Sent(d) = Sent(c) /\ Edges(d) = Edges(c) /\ (Framed(c) <=> Framed(d))
         /\ \A n : Begin(d, n) = Begin(c, n)
         /\ d.protocol = c.protocol => Parsing(d) = Parsing(c)
<1>1. \A n : Begin(d, n) = Begin(c, n)
  BY DEF Begin
<1> QED
  BY <1>1 DEF Sent, Edges, Framed, Parsing

\* What one read() returned goes behind the other bytes, or nowhere.
LEMMA AddDoes ==
  ASSUME NEW c \in Part, Filled(c), NEW n \in Nat, n > 0, c.taken + n <= c.arrived,
         NEW d, d = TakenIn(c, n)
  PROVE  /\ d \in Part /\ d.ends = c.ends /\ d.taken = c.taken + n /\ d.arrived = c.arrived
         /\ d.pushed = c.pushed /\ d.protocol = c.protocol
         /\ d.start + Len(d.bytes) < MaxBuffer
         /\ \/ d.bytes = c.bytes /\ d.refused
            \/ d.bytes = c.bytes \o [i \in 1..n |-> c.taken + i] /\ d.refused = c.refused
         /\ Len(c.bytes) + n < MaxBuffer => d.refused = c.refused
<1> DEFINE new == [i \in 1..n |-> c.taken + i]
           b == c.bytes \o new
<1>1. c.taken \in Nat /\ c.arrived \in Nat /\ c.start \in Nat /\ c.bytes \in Seq(Nat) /\ MaxBuffer \in Nat /\ MaxBuffer > 0
  BY Bounds DEF Part
<1>2. new \in Seq(Nat) /\ Len(new) = n
  BY <1>1
<1> HIDE DEF new
<1>3. b \in Seq(Nat) /\ Len(b) = Len(c.bytes) + n /\ Len(c.bytes) \in Nat
  BY <1>1, <1>2, Joined
<1> HIDE DEF b
<1>4. c.start + Len(c.bytes) < MaxBuffer
  BY DEF Filled
<1> DEFINE fits(start) == start + Len(c.bytes) + n < MaxBuffer
           a == Add(c, new)
           t == c.taken + n
<1>5. d = [a EXCEPT !.taken = a.taken + n]
  BY DEF TakenIn, new
<1>6. t \in Nat
  BY <1>1
<1> HIDE DEF t
<1>7. CASE fits(c.start)
  <2>1. a = [c EXCEPT !.bytes = b]
    BY <1>2, <1>7 DEF Add, b
  <2> HIDE DEF a
  <2>2. a.taken = c.taken
    BY <2>1 DEF Part
  <2>3. d = [c EXCEPT !.bytes = b, !.taken = t]
    BY <1>5, <2>1, <2>2 DEF t
  <2>4. d \in Part
    BY <1>3, <1>6, <2>3 DEF Part
  <2>5. /\ d.ends = c.ends /\ d.taken = t /\ d.arrived = c.arrived /\ d.pushed = c.pushed
        /\ d.protocol = c.protocol /\ d.start = c.start /\ d.bytes = b /\ d.refused = c.refused
    BY <2>3 DEF Part
  <2>6. c.start + Len(b) < MaxBuffer
    BY <1>1, <1>3, <1>7
  <2> QED
    BY <2>4, <2>5, <2>6 DEF b, t, new
<1>8. CASE ~fits(c.start) /\ fits(0) /\ c.start # 0
  <2>1. a = [c EXCEPT !.bytes = b, !.start = 0]
    BY <1>2, <1>8 DEF Add, b
  <2> HIDE DEF a
  <2>2. a.taken = c.taken
    BY <2>1 DEF Part
  <2>3. d = [c EXCEPT !.bytes = b, !.start = 0, !.taken = t]
    BY <1>5, <2>1, <2>2 DEF t
  <2>4. d \in Part
    <3>1. a \in Part
      BY <1>3, <2>1 DEF Part
    <3>2. a.taken + n = t
      BY <2>2 DEF t
    <3> QED
      BY <1>5, <1>6, <3>1, <3>2 DEF Part
  <2>5. /\ d.ends = c.ends /\ d.taken = t /\ d.arrived = c.arrived /\ d.pushed = c.pushed
        /\ d.protocol = c.protocol /\ d.start = 0 /\ d.bytes = b /\ d.refused = c.refused
    BY <2>3 DEF Part
  <2>6. 0 + Len(b) < MaxBuffer
    BY <1>1, <1>3, <1>8
  <2> QED
    BY <2>4, <2>5, <2>6 DEF b, t, new
<1>9. CASE ~fits(c.start) /\ (~fits(0) \/ c.start = 0)
  <2>1. a = [c EXCEPT !.start = 0, !.refused = TRUE]
    BY <1>2, <1>9 DEF Add
  <2> HIDE DEF a
  <2>2. a.taken = c.taken
    BY <2>1 DEF Part
  <2>3. d = [c EXCEPT !.start = 0, !.refused = TRUE, !.taken = t]
    BY <1>5, <2>1, <2>2 DEF t
  <2>4. d \in Part
    <3>1. a \in Part
      BY <2>1 DEF Part
    <3>2. a.taken + n = t
      BY <2>2 DEF t
    <3> QED
      BY <1>5, <1>6, <3>1, <3>2 DEF Part
  <2>5. /\ d.ends = c.ends /\ d.taken = t /\ d.arrived = c.arrived /\ d.pushed = c.pushed
        /\ d.protocol = c.protocol /\ d.start = 0 /\ d.bytes = c.bytes /\ d.refused
    BY <2>3 DEF Part
  <2> DEFINE k == Len(c.bytes)
  <2>6. k \in Nat /\ c.start + k < MaxBuffer /\ (~(c.start + k + n < MaxBuffer) /\ (~(0 + k + n < MaxBuffer) \/ c.start = 0))
    BY <1>3, <1>4, <1>9
  <2> HIDE DEF k
  <2>7. 0 + k < MaxBuffer /\ ~(k + n < MaxBuffer)
    BY <1>1, <2>6
  <2> QED
    BY <2>4, <2>5, <2>7 DEF k, t
<1> QED
  BY <1>7, <1>8, <1>9

\* One turn of the read loop keeps the buffer in order, and drops nothing that
\* is shorter than the buffer with what is there.
LEMMA AddKeeps ==
  ASSUME NEW c \in Part, Framed(c), Filled(c), NEW n \in Nat, n > 0, c.taken + n <= c.arrived,
         NEW d, d = TakenIn(c, n)
  PROVE  /\ Framed(d) /\ Filled(d) /\ Parsing(d) = Parsing(c)
         /\ ~d.refused /\ (~c.refused => Straight(c)) => Straight(d)
         /\ ~c.refused /\ Straight(c) /\ c.taken + n < Parsing(c) + MaxBuffer => ~d.refused
<1> DEFINE new == [i \in 1..n |-> c.taken + i]
           k == Len(c.bytes)
           p == Parsing(c)
<1>1. /\ d \in Part /\ d.ends = c.ends /\ d.taken = c.taken + n /\ d.arrived = c.arrived
      /\ d.pushed = c.pushed /\ d.protocol = c.protocol
      /\ d.start + Len(d.bytes) < MaxBuffer
      /\ \/ d.bytes = c.bytes /\ d.refused
         \/ d.bytes = c.bytes \o new /\ d.refused = c.refused
      /\ Len(c.bytes) + n < MaxBuffer => d.refused = c.refused
  BY AddDoes, ZenonT(30)
<1>2. /\ c.taken \in Nat /\ c.arrived \in Nat /\ c.bytes \in Seq(Nat) /\ k \in Nat /\ DOMAIN c.bytes = 1..k
      /\ MaxBuffer \in Nat /\ c.refused \in BOOLEAN /\ d.refused \in BOOLEAN
  <2>1. d \in Part
    BY <1>1
  <2>2. c.taken \in Nat /\ c.arrived \in Nat /\ c.bytes \in Seq(Nat) /\ c.refused \in BOOLEAN
    BY DEF Part
  <2>3. d.refused \in BOOLEAN
    BY <2>1 DEF Part
  <2>4. k \in Nat /\ DOMAIN c.bytes = 1..k
    BY <2>2
  <2> QED
    BY <2>2, <2>3, <2>4, Bounds
<1>3. /\ Len(c.bytes \o new) = k + n /\ DOMAIN (c.bytes \o new) = 1..k + n
      /\ \A i \in 1..k : (c.bytes \o new)[i] = c.bytes[i]
      /\ \A i \in 1..k + n : i > k => (c.bytes \o new)[i] = c.taken + (i - k)
  <2>1. new \in Seq(Nat) /\ Len(new) = n /\ \A i \in 1..n : new[i] = c.taken + i
    BY <1>2
  <2> DEFINE b == c.bytes \o new
  <2> HIDE DEF new
  <2>2. /\ Len(b) = k + n /\ DOMAIN b = 1..k + n /\ \A i \in 1..k : b[i] = c.bytes[i]
        /\ \A i \in 1..n : b[k + i] = new[i]
    BY <1>2, <2>1, Joined
  <2> HIDE DEF b, k
  <2>3. ASSUME NEW i \in 1..k + n, i > k PROVE b[i] = c.taken + (i - k)
    <3>1. i - k \in 1..n /\ k + (i - k) = i
      BY <1>2, <2>3
    <3>2. b[k + (i - k)] = new[i - k]
      BY <2>2, <3>1
    <3> QED
      BY <2>1, <3>1, <3>2
  <2> QED
    BY <2>2, <2>3 DEF b
<1> HIDE DEF new
<1>4. Framed(d) /\ Parsing(d) = p /\ Sent(d) = Sent(c)
  BY <1>1, SameStream
<1>5. Filled(d)
  <2>1. \A i \in 1..k : c.bytes[i] \in 1..c.taken
    BY <1>2 DEF Filled
  <2>2. \A i \in DOMAIN d.bytes : d.bytes[i] \in 1..c.taken + n
    <3>1. CASE d.bytes = c.bytes
      BY <1>2, <2>1, <3>1
    <3>2. CASE d.bytes = c.bytes \o new
      <4> TAKE i \in DOMAIN d.bytes
      <4>1. i \in 1..k + n
        BY <1>3, <3>2
      <4>2. CASE i \in 1..k
        BY <1>2, <1>3, <2>1, <3>2, <4>2
      <4>3. CASE i > k
        <5>1. d.bytes[i] = c.taken + (i - k)
          BY <1>3, <3>2, <4>1, <4>3
        <5> HIDE DEF k
        <5> QED
          BY <1>2, <4>1, <4>3, <5>1
      <4> QED
        BY <1>2, <4>1, <4>2, <4>3
    <3> QED
      BY <1>1, <3>1, <3>2
  <2>3. c.arrived <= Sent(c)
    BY DEF Filled
  <2> QED
    BY <1>1, <1>4, <2>2, <2>3 DEF Filled
<1>6. ASSUME ~d.refused, ~c.refused => Straight(c) PROVE Straight(d)
  <2>1. d.bytes = c.bytes \o new /\ ~c.refused /\ Straight(c)
    BY <1>1, <1>2, <1>6
  <2>2. /\ c.protocol <= Len(c.ends) /\ p <= c.taken /\ k = c.taken - p
        /\ \A i \in 1..k : c.bytes[i] = p + i
        /\ c.protocol = LastPush(c.pushed)
        /\ OneByOne(c.pushed)
    BY <1>2, <2>1 DEF Straight
  <2>3. p \in Nat
    <3>1. c.protocol \in Nat /\ c.ends \in Seq(Nat)
      BY Bounds DEF Part
    <3>2. c.protocol = 0 \/ c.protocol \in DOMAIN c.ends
      BY <2>2, <3>1
    <3> QED
      BY <3>1, <3>2 DEF Parsing
  <2> HIDE DEF k, p
  <2>4. p <= c.taken + n /\ k + n = (c.taken + n) - p
    BY <1>2, <2>2, <2>3
  <2>5. \A i \in 1..k + n : d.bytes[i] = p + i
    <3> TAKE i \in 1..k + n
    <3>1. CASE i <= k
      <4>1. i \in 1..k
        BY <1>2, <3>1
      <4>2. d.bytes[i] = c.bytes[i]
        BY <1>3, <2>1, <4>1
      <4> QED
        BY <2>2, <4>1, <4>2
    <3>2. CASE i > k
      <4>1. d.bytes[i] = c.taken + (i - k)
        BY <1>3, <2>1, <3>2
      <4> QED
        BY <1>2, <2>2, <2>3, <4>1, SMTT(30)
    <3> QED
      BY <1>2, <3>1, <3>2
  <2>6. DOMAIN d.bytes = 1..k + n /\ Len(d.bytes) = k + n
    BY <1>3, <2>1
  <2> QED
    BY <1>1, <1>4, <2>2, <2>4, <2>5, <2>6 DEF Straight
<1>7. ASSUME ~c.refused, Straight(c), c.taken + n < p + MaxBuffer PROVE ~d.refused
  <2>1. k = c.taken - p /\ p <= c.taken
    BY <1>7 DEF Straight
  <2>2. p \in Nat
    <3>1. c.protocol \in Nat /\ c.ends \in Seq(Nat)
      BY Bounds DEF Part
    <3>2. c.protocol = 0 \/ c.protocol \in DOMAIN c.ends
      BY <1>7, <3>1 DEF Straight
    <3> QED
      BY <3>1, <3>2 DEF Parsing
  <2> HIDE DEF k, p
  <2>3. k + n < MaxBuffer
    BY <1>2, <1>7, <2>1, <2>2
  <2> QED
    BY <1>1, <1>7, <2>3 DEF k
<1> QED
  BY <1>4, <1>5, <1>6, <1>7

-----------------------------------------------------------------------------
(* parseFromBuffer.                                                        *)

\* The last byte parsed is a byte.
LEMMA ParsingIsANumber ==
  ASSUME NEW c \in Part, Framed(c), c.protocol <= Len(c.ends)
  PROVE  /\ Parsing(c) \in Nat /\ c.protocol \in Nat /\ c.protocol <= MaxFrames
         /\ c.protocol = 0 \/ c.protocol \in DOMAIN c.ends
         /\ Parsing(c) <= Sent(c)
<1>1. c.protocol \in Nat /\ c.ends \in Seq(Nat) /\ Len(c.ends) <= MaxFrames /\ MaxFrames \in Nat
  BY Bounds DEF Part, Framed
<1>2. c.protocol = 0 \/ c.protocol \in DOMAIN c.ends
  BY <1>1
<1> QED
  BY <1>1, <1>2, FramesLie DEF Parsing

\* A body has a length, whatever its head looks like.
LEMMA BodyIsANumber ==
  ASSUME NEW c \in Part, Framed(c), NEW n \in DOMAIN c.ends, NEW body \in Announced(c, n)
  PROVE  body \in Nat
<1>1. c.ends[n] - Begin(c, n) + 1 \in Sizes
  BY DEF Framed
<1>2. c.ends[n] \in Nat /\ Begin(c, n) \in Nat /\ HeadLen \in Nat /\ MaxBuffer \in Nat
  BY FramesLie, Bounds
<1> DEFINE z == c.ends[n] - Begin(c, n) + 1
<1>3. z \in Nat /\ z > HeadLen
  BY <1>1, SizeIsANumber
<1>4. z - HeadLen \in Nat
  <2> HIDE DEF z
  <2> QED
    BY <1>2, <1>3
<1> QED
  BY <1>2, <1>4 DEF Announced

\* With the buffer in order, the frame behind the last one is the one at hand.
LEMMA NextFrame ==
  ASSUME NEW c \in Part, Framed(c), Straight(c), Len(c.bytes) >= HeadLen,
         NEW n \in DOMAIN c.ends, Begin(c, n) = c.bytes[1], NEW body \in Announced(c, n)
  PROVE  /\ n = c.protocol + 1 /\ Begin(c, n) = Parsing(c) + 1
         /\ \A k \in 0..Len(c.bytes) : InARow(c.bytes, k)
         /\ Parsing(c) + HeadLen + body = c.ends[n]
<1>1. /\ c.protocol <= Len(c.ends) /\ Parsing(c) <= c.taken
      /\ Len(c.bytes) = c.taken - Parsing(c)
      /\ \A i \in DOMAIN c.bytes : c.bytes[i] = Parsing(c) + i
  BY DEF Straight
<1>2. /\ Parsing(c) \in Nat /\ c.protocol \in Nat /\ (c.protocol = 0 \/ c.protocol \in DOMAIN c.ends)
      /\ HeadLen \in Nat /\ HeadLen > 0
  BY <1>1, ParsingIsANumber, Bounds
<1>3. c.bytes \in Seq(Nat) /\ Len(c.bytes) \in Nat /\ DOMAIN c.bytes = 1..Len(c.bytes)
  BY DEF Part
<1>4. /\ Len(c.ends) \in Nat /\ DOMAIN c.ends = 1..Len(c.ends)
      /\ Begin(c, n) \in Nat /\ c.ends[n] \in Nat
      /\ \A m \in DOMAIN c.ends : Begin(c, m) = IF m = 1 THEN 1 ELSE c.ends[m - 1] + 1
      /\ \A m \in DOMAIN c.ends : Begin(c, m) = Begin(c, n) => m = n
  BY FramesLie
<1>5. 1 \in DOMAIN c.bytes /\ c.bytes[1] = Parsing(c) + 1
  BY <1>1, <1>2, <1>3
<1>6. n = c.protocol + 1
  <2>1. CASE c.protocol = 0
    <3>1. Parsing(c) = 0
      BY <2>1 DEF Parsing
    <3>2. 1 \in DOMAIN c.ends /\ Begin(c, 1) = Begin(c, n)
      BY <1>4, <1>5, <3>1
    <3>3. n = 1
      BY <1>4, <3>2
    <3> QED
      BY <2>1, <3>3
  <2>2. CASE c.protocol # 0
    <3>1. Parsing(c) = c.ends[c.protocol]
      BY <2>2 DEF Parsing
    <3>2. CASE c.protocol < Len(c.ends)
      <4>1. c.protocol + 1 \in DOMAIN c.ends /\ (c.protocol + 1) - 1 = c.protocol /\ c.protocol + 1 # 1
        BY <1>2, <1>4, <2>2, <3>2
      <4>2. Begin(c, c.protocol + 1) = c.ends[c.protocol] + 1
        BY <1>4, <4>1
      <4> QED
        BY <1>4, <1>5, <3>1, <4>1, <4>2
    <3>3. CASE c.protocol = Len(c.ends)
      <4>1. Parsing(c) = Sent(c)
        BY <2>2, <3>1, <3>3, <1>4, FramesLie
      <4>2. c.ends[n] >= Begin(c, n) /\ c.ends[n] <= Sent(c)
        BY FramesLie DEF Framed
      <4> QED
        BY <1>2, <1>4, <1>5, <4>1, <4>2
    <3> QED
      BY <1>1, <1>2, <1>4, <3>2, <3>3
  <2> QED
    BY <2>1, <2>2
<1>7. ASSUME NEW k \in 0..Len(c.bytes) PROVE InARow(c.bytes, k)
  <2> SUFFICES ASSUME NEW i \in 1..k PROVE c.bytes[i] = c.bytes[1] + i - 1
    BY DEF InARow
  <2>1. i \in DOMAIN c.bytes /\ i \in Nat
    BY <1>3
  <2>2. c.bytes[i] = Parsing(c) + i
    BY <1>1, <2>1
  <2> QED
    BY <1>2, <1>5, <2>1, <2>2
<1>8. HeadLen \in 0..Len(c.bytes)
  BY <1>2, <1>3
<1>9. body = c.ends[n] - Begin(c, n) + 1 - HeadLen
  BY <1>7, <1>8 DEF Announced
<1>10. Parsing(c) + HeadLen + body = c.ends[n]
  <2> DEFINE x == c.ends[n]
             b == Begin(c, n)
             y == Parsing(c)
  <2>1. x \in Nat /\ b \in Nat /\ y \in Nat /\ b = y + 1 /\ body = x - b + 1 - HeadLen
    BY <1>2, <1>4, <1>5, <1>9
  <2> HIDE DEF x, b, y
  <2>2. y + HeadLen + body = x
    BY <1>2, <2>1
  <2> QED
    BY <2>2 DEF x, y
<1> QED
  BY <1>5, <1>6, <1>7, <1>10

\* The push of what is in m_protocol, once more or for the first time.
LEMMA PushDoes ==
  ASSUME NEW c \in Part, NEW d, d = Pushed(c)
  PROVE  /\ d = [c EXCEPT !.pushed = Append(c.pushed, c.protocol)] /\ d \in Part
         /\ Len(d.pushed) = Len(c.pushed) + 1 /\ d.pushed[Len(c.pushed) + 1] = c.protocol
         /\ d.pushed # <<>> /\ \A i \in 1..Len(c.pushed) : d.pushed[i] = c.pushed[i]
<1> DEFINE q == c.pushed
           a == Append(q, c.protocol)
<1>1. q \in Seq(0..Garbled) /\ c.protocol \in 0..Garbled
  BY DEF Part
<1>2. d = [c EXCEPT !.pushed = a]
  BY DEF Pushed
<1>3. /\ a \in Seq(0..Garbled) /\ Len(a) = Len(q) + 1 /\ a[Len(q) + 1] = c.protocol /\ a # <<>>
      /\ \A i \in 1..Len(q) : a[i] = q[i]
  <2> DEFINE x == c.protocol
  <2>1. x \in 0..Garbled
    BY <1>1
  <2> HIDE DEF q, x
  <2> QED
    BY <1>1, <2>1 DEF x
<1> HIDE DEF a
<1>4. d \in Part /\ d.pushed = a
  BY <1>2, <1>3 DEF Part
<1> QED
  BY <1>2, <1>3, <1>4 DEF a

\* What was pushed grows by the same message or the next one.
LEMMA PushInOrder ==
  ASSUME NEW k \in Nat, NEW p, NEW q \in Seq(0..Garbled),
         k = LastPush(q),
         OneByOne(q),
         p \in {k, k + 1},
         NEW r \in Seq(0..Garbled), Len(r) = Len(q) + 1, r[Len(q) + 1] = p, \A i \in 1..Len(q) : r[i] = q[i]
  PROVE  /\ p = LastPush(r)
         /\ OneByOne(r)
<1>1. Len(q) \in Nat /\ DOMAIN q = 1..Len(q) /\ (q = <<>> <=> Len(q) = 0) /\ r # <<>>
      /\ DOMAIN r = 1..Len(q) + 1
  OBVIOUS
<1>0. p = LastPush(r)
  BY <1>1 DEF LastPush
<1> SUFFICES ASSUME NEW i \in 1..Len(q) + 1
             PROVE  r[i] \in IF i = 1 THEN {0, 1} ELSE {r[i-1], r[i-1] + 1}
  BY <1>0, <1>1 DEF OneByOne
<1>2. CASE i \in 1..Len(q)
  <2>1. r[i] = q[i] /\ (i # 1 => r[i - 1] = q[i - 1])
    BY <1>1, <1>2
  <2> QED
    BY <1>1, <1>2, <2>1 DEF OneByOne
<1>3. CASE i = Len(q) + 1 /\ i = 1
  <2>1. k = 0 /\ r[i] = p
    BY <1>1, <1>3 DEF LastPush
  <2> QED
    BY <1>3, <2>1
<1>4. CASE i = Len(q) + 1 /\ i # 1
  <2>1. r[i] = p /\ i - 1 = Len(q) /\ Len(q) \in 1..Len(q)
    BY <1>1, <1>4
  <2>2. r[i - 1] = q[Len(q)] /\ k = q[Len(q)]
    BY <1>1, <2>1 DEF LastPush
  <2> QED
    BY <1>4, <2>1, <2>2
<1> QED
  BY <1>1, <1>2, <1>3, <1>4

\* A body that is not there yet pushes the message before it once more.
LEMMA WaitKeeps ==
  ASSUME NEW c \in Part, Framed(c), Filled(c), NEW d, d = Pushed(c)
  PROVE  /\ d \in Part /\ Framed(d) /\ Filled(d) /\ Parsing(d) = Parsing(c) /\ Sent(d) = Sent(c)
         /\ Straight(c) => Straight(d)
<1>1. /\ d = [c EXCEPT !.pushed = Append(c.pushed, c.protocol)] /\ d \in Part
      /\ Len(d.pushed) = Len(c.pushed) + 1 /\ d.pushed[Len(c.pushed) + 1] = c.protocol
      /\ d.pushed # <<>> /\ \A i \in 1..Len(c.pushed) : d.pushed[i] = c.pushed[i]
  BY PushDoes
<1>2. /\ d.ends = c.ends /\ d.arrived = c.arrived /\ d.taken = c.taken /\ d.start = c.start
      /\ d.bytes = c.bytes /\ d.protocol = c.protocol
  BY <1>1 DEF Part
<1>3. Framed(d) /\ Parsing(d) = Parsing(c) /\ Sent(d) = Sent(c)
  BY <1>2, SameStream
<1>4. Filled(d)
  BY <1>2, <1>3 DEF Filled
<1>5. ASSUME Straight(c) PROVE Straight(d)
  <2>1. c.protocol \in Nat /\ c.pushed \in Seq(0..Garbled) /\ d.pushed \in Seq(0..Garbled)
    BY <1>1, Bounds DEF Part
  <2>2. /\ c.protocol = LastPush(d.pushed)
        /\ OneByOne(d.pushed)
    <3> DEFINE q == c.pushed
               r == d.pushed
               k == c.protocol
    <3>1. /\ k = LastPush(q)
          /\ OneByOne(q)
      BY <1>5 DEF Straight
    <3>2. k \in Nat /\ q \in Seq(0..Garbled) /\ r \in Seq(0..Garbled) /\ k \in {k, k + 1}
      BY <2>1
    <3>3. Len(r) = Len(q) + 1 /\ r[Len(q) + 1] = k /\ \A i \in 1..Len(q) : r[i] = q[i]
      BY <1>1
    <3> HIDE DEF q, r, k
    <3>4. /\ k = LastPush(r)
          /\ OneByOne(r)
      BY <3>1, <3>2, <3>3, PushInOrder
    <3> QED
      BY <3>4 DEF r, k
  <2> QED
    BY <1>2, <1>3, <1>5, <2>2 DEF Straight
<1> QED
  BY <1>1, <1>3, <1>4, <1>5

\* A frame that is there is taken out of the buffer, and its message pushed.
LEMMA TakeDoes ==
  ASSUME NEW c \in Part, Framed(c), Filled(c), NEW n \in DOMAIN c.ends, NEW body \in Nat,
         ~Short(c, body), Len(c.bytes) >= HeadLen,
         NEW p \in Parsed(c, n, HeadLen + body),
         NEW d, d = TakenOut(c, HeadLen + body, p)
  PROVE  /\ d \in Part /\ Framed(d) /\ Filled(d) /\ Sent(d) = Sent(c)
         /\ d.ends = c.ends /\ d.arrived = c.arrived /\ d.taken = c.taken /\ d.refused = c.refused
         /\ d.protocol = p /\ HeadLen + body \in 0..Len(c.bytes)
         /\ Len(d.bytes) = Len(c.bytes) - (HeadLen + body)
         /\ \A i \in DOMAIN d.bytes : i + HeadLen + body \in DOMAIN c.bytes /\ d.bytes[i] = c.bytes[i + HeadLen + body]
         /\ Len(d.pushed) = Len(c.pushed) + 1 /\ d.pushed[Len(c.pushed) + 1] = p
         /\ \A i \in 1..Len(c.pushed) : d.pushed[i] = c.pushed[i]
<1> DEFINE len == HeadLen + body
           b == c.bytes
           rest == SubSeq(b, len + 1, Len(b))
           e == [Consumed(c, len) EXCEPT !.protocol = p]
<1>1. /\ HeadLen \in Nat /\ b \in Seq(Nat) /\ Len(b) \in Nat /\ DOMAIN b = 1..Len(b)
      /\ c.start \in Nat /\ c.protocol \in 0..Garbled /\ Garbled \in 0..Garbled
  BY Bounds DEF Part
<1>2. len \in Nat /\ len <= Len(b)
  BY <1>1 DEF Short
<1> HIDE DEF len
<1>3. /\ rest \in Seq(Nat) /\ Len(rest) = Len(b) - len /\ DOMAIN rest = 1..Len(b) - len
      /\ \A i \in 1..Len(b) - len : rest[i] = b[len + i]
  BY <1>1, <1>2, CutOff
<1>4. p \in 0..Garbled
  <2>1. n \in 0..Garbled
    <3>1. n \in 1..Len(c.ends) /\ Len(c.ends) \in Nat /\ Len(c.ends) <= MaxFrames
      BY FramesLie DEF Framed
    <3> QED
      BY <3>1, Bounds
  <2> QED
    BY <1>1, <2>1 DEF Parsed
<1> HIDE DEF rest
<1>5. e = [c EXCEPT !.start = c.start + len, !.bytes = rest, !.protocol = p]
  BY DEF Consumed, rest, Part
<1>6. c.start + len \in Nat
  BY <1>1, <1>2
<1>7. /\ e \in Part /\ e.bytes = rest /\ e.start = c.start + len /\ e.protocol = p
      /\ e.ends = c.ends /\ e.arrived = c.arrived /\ e.taken = c.taken /\ e.refused = c.refused
      /\ e.pushed = c.pushed
  BY <1>3, <1>4, <1>5, <1>6 DEF Part
<1>8. d = Pushed(e)
  BY DEF TakenOut, len
<1> HIDE DEF e
<1>9. /\ d = [e EXCEPT !.pushed = Append(e.pushed, e.protocol)] /\ d \in Part
      /\ Len(d.pushed) = Len(e.pushed) + 1 /\ d.pushed[Len(e.pushed) + 1] = e.protocol
      /\ \A i \in 1..Len(e.pushed) : d.pushed[i] = e.pushed[i]
  BY <1>7, <1>8, PushDoes, ZenonT(30)
<1>10. /\ d.bytes = rest /\ d.start = c.start + len /\ d.protocol = p
       /\ d.ends = c.ends /\ d.arrived = c.arrived /\ d.taken = c.taken /\ d.refused = c.refused
  BY <1>7, <1>9 DEF Part
<1>11. Framed(d) /\ Sent(d) = Sent(c)
  BY <1>10, SameStream
<1>12. \A i \in DOMAIN rest : i + len \in DOMAIN b /\ i + len = i + HeadLen + body /\ rest[i] = b[i + HeadLen + body]
  <2> TAKE i \in DOMAIN rest
  <2>1. i \in 1..Len(b) - len
    BY <1>3
  <2>2. i + len \in DOMAIN b /\ len + i = i + len
    BY <1>1, <1>2, <2>1, SMTT(30)
  <2>3. i + len = i + HeadLen + body
    BY <1>1, <2>1 DEF len
  <2>4. rest[i] = b[len + i]
    BY <1>3, <2>1
  <2> QED
    BY <2>2, <2>3, <2>4
<1>13. Filled(d)
  <2>1. \A i \in DOMAIN b : b[i] \in 1..c.taken
    BY DEF Filled
  <2>2. \A i \in DOMAIN rest : rest[i] \in 1..c.taken
    BY <1>12, <2>1
  <2>3. c.start + Len(b) < MaxBuffer
    BY DEF Filled
  <2>4. (c.start + len) + Len(rest) < MaxBuffer
    BY <1>1, <1>2, <1>3, <2>3
  <2>5. c.taken <= c.arrived /\ c.arrived <= Sent(c)
    BY DEF Filled
  <2> QED
    BY <1>10, <1>11, <2>2, <2>4, <2>5 DEF Filled
<1>14. HeadLen + body \in 0..Len(b) /\ Len(rest) = Len(b) - (HeadLen + body)
  BY <1>1, <1>2, <1>3 DEF len
<1> QED
  BY <1>7, <1>9, <1>10, <1>11, <1>12, <1>13, <1>14

\* With the buffer in order it is the frame behind the last one.
LEMMA TakeKeeps ==
  ASSUME NEW c \in Part, Framed(c), Filled(c), Straight(c), NEW n \in DOMAIN c.ends, Begin(c, n) = c.bytes[1],
         Len(c.bytes) >= HeadLen, NEW body \in Announced(c, n), ~Short(c, body),
         NEW p \in Parsed(c, n, HeadLen + body),
         NEW d, d = TakenOut(c, HeadLen + body, p)
  PROVE  Straight(d) /\ p = c.protocol + 1 /\ p \in DOMAIN c.ends /\ Parsing(d) = c.ends[p]
<1>1. body \in Nat
  BY BodyIsANumber
<1>2. /\ d \in Part
      /\ d.ends = c.ends /\ d.taken = c.taken
      /\ d.protocol = p /\ HeadLen + body \in 0..Len(c.bytes)
      /\ Len(d.bytes) = Len(c.bytes) - (HeadLen + body)
      /\ \A i \in DOMAIN d.bytes : i + HeadLen + body \in DOMAIN c.bytes /\ d.bytes[i] = c.bytes[i + HeadLen + body]
      /\ Len(d.pushed) = Len(c.pushed) + 1 /\ d.pushed[Len(c.pushed) + 1] = p
      /\ \A i \in 1..Len(c.pushed) : d.pushed[i] = c.pushed[i]
  BY <1>1, TakeDoes
<1>3. /\ n = c.protocol + 1 /\ Begin(c, n) = Parsing(c) + 1
      /\ InARow(c.bytes, HeadLen + body)
      /\ Parsing(c) + HeadLen + body = c.ends[n]
  BY <1>2, NextFrame
<1>4. /\ c.protocol <= Len(c.ends) /\ Parsing(c) <= c.taken
      /\ Len(c.bytes) = c.taken - Parsing(c)
      /\ \A i \in DOMAIN c.bytes : c.bytes[i] = Parsing(c) + i
      /\ c.protocol = LastPush(c.pushed)
      /\ OneByOne(c.pushed)
  BY DEF Straight
<1>5. /\ Parsing(c) \in Nat /\ c.protocol \in Nat /\ HeadLen \in Nat /\ c.taken \in Nat
      /\ Len(c.bytes) \in Nat /\ DOMAIN c.bytes = 1..Len(c.bytes)
      /\ Len(d.bytes) \in Nat /\ DOMAIN d.bytes = 1..Len(d.bytes)
      /\ c.pushed \in Seq(0..Garbled) /\ d.pushed \in Seq(0..Garbled)
      /\ Len(c.ends) \in Nat /\ DOMAIN c.ends = 1..Len(c.ends)
  <2>1. Parsing(c) \in Nat /\ c.protocol \in Nat /\ HeadLen \in Nat
    BY <1>4, ParsingIsANumber, Bounds
  <2>2. c.taken \in Nat /\ c.bytes \in Seq(Nat) /\ c.pushed \in Seq(0..Garbled)
    BY DEF Part
  <2>3. d.bytes \in Seq(Nat) /\ d.pushed \in Seq(0..Garbled)
    BY <1>2 DEF Part
  <2>4. Len(c.ends) \in Nat /\ DOMAIN c.ends = 1..Len(c.ends)
    BY FramesLie
  <2> QED
    BY <2>1, <2>2, <2>3, <2>4
<1>6. p = n
  <2>1. Begin(c, n) + (HeadLen + body) - 1 = c.ends[n]
    BY <1>1, <1>3, <1>5
  <2> QED
    BY <1>3, <2>1 DEF Parsed
<1>7. Parsing(d) = c.ends[n]
  BY <1>2, <1>3, <1>5, <1>6 DEF Parsing
<1> DEFINE x == c.ends[n]
           m == HeadLen + body
           k == Parsing(c)
<1>8. m \in Nat /\ x = k + m /\ m <= Len(c.bytes) /\ Len(d.bytes) = Len(c.bytes) - m
  BY <1>1, <1>2, <1>3, <1>5
<1>9. \A i \in DOMAIN d.bytes : i + m \in DOMAIN c.bytes /\ d.bytes[i] = c.bytes[i + m]
  <2> TAKE i \in DOMAIN d.bytes
  <2>1. i + HeadLen + body \in DOMAIN c.bytes /\ d.bytes[i] = c.bytes[i + HeadLen + body]
    BY <1>2
  <2>2. i + HeadLen + body = i + m
    BY <1>1, <1>5
  <2> QED
    BY <2>1, <2>2
<1> HIDE DEF x, m, k
<1>10. x <= c.taken /\ Len(d.bytes) = c.taken - x /\ k \in Nat
  <2> DEFINE u == Len(c.bytes)
             v == Len(d.bytes)
  <2>1. k \in Nat /\ k <= c.taken /\ u = c.taken - k /\ v = u - m /\ m <= u /\ x = k + m /\ m \in Nat /\ c.taken \in Nat
    BY <1>4, <1>5, <1>8 DEF k
  <2> HIDE DEF u, v
  <2>2. x <= c.taken /\ v = c.taken - x
    BY <2>1
  <2> QED
    BY <2>1, <2>2 DEF v
<1>11. \A i \in DOMAIN d.bytes : d.bytes[i] = x + i
  <2> TAKE i \in DOMAIN d.bytes
  <2>1. i \in Nat /\ i + m \in DOMAIN c.bytes /\ d.bytes[i] = c.bytes[i + m]
    BY <1>5, <1>9
  <2>2. c.bytes[i + m] = k + (i + m)
    BY <1>4, <2>1 DEF k
  <2> QED
    BY <1>8, <1>10, <2>1, <2>2
<1>12. /\ p = LastPush(d.pushed)
       /\ OneByOne(d.pushed)
  <2> DEFINE q == c.pushed
             r == d.pushed
             j == c.protocol
  <2>1. /\ j = LastPush(q)
        /\ OneByOne(q)
    BY <1>4
  <2>2. j \in Nat /\ q \in Seq(0..Garbled) /\ r \in Seq(0..Garbled) /\ p \in {j, j + 1}
    BY <1>3, <1>5, <1>6
  <2>3. Len(r) = Len(q) + 1 /\ r[Len(q) + 1] = p /\ \A i \in 1..Len(q) : r[i] = q[i]
    BY <1>2
  <2> HIDE DEF q, r, j
  <2>4. /\ p = LastPush(r)
        /\ OneByOne(r)
    BY <2>1, <2>2, <2>3, PushInOrder
  <2> QED
    BY <2>4 DEF r
<1>13. p <= Len(c.ends) /\ p \in DOMAIN c.ends
  BY <1>5, <1>6
<1>14. Straight(d)
  BY <1>2, <1>6, <1>7, <1>10, <1>11, <1>12, <1>13 DEF Straight, x
<1> QED
  BY <1>3, <1>6, <1>7, <1>13, <1>14

-----------------------------------------------------------------------------
(* The steps, one connection at a time.                                    *)

Threads == [at : {"wait"}, conn : {NoConn}] \union [at : {"read", "parse"}, conn : Conns]

\* What the invariant says of one connection.
LEMMA OfOne ==
  ASSUME FramesInv, NEW s \in Conns
  PROVE  /\ conn[s] \in Part /\ Framed(conn[s]) /\ Filled(conn[s])
         /\ ~conn[s].refused => Straight(conn[s])
         /\ kind = "whole" => WholeOk(conn[s], Reading(s))
         /\ kind = "waiting" => WaitingOk(conn[s])
         /\ thread \in Threads /\ kind \in Kinds
BY DEF FramesInv, Typed, Ordered, Whole, Waiting, Threads

\* A step that leaves every other connection and its reading alone, and what the
\* invariant says of what it makes of the one.
Alone(s, d) ==
  /\ conn' = [conn EXCEPT ![s] = d] /\ kind' = kind /\ thread' \in Threads
  /\ \A t \in Conns : t # s => (Reading(t) => Reading(t)')
Sound(s, d) ==
  /\ d \in Part /\ Framed(d) /\ Filled(d) /\ (~d.refused => Straight(d))
  /\ kind = "whole" => WholeOk(d, Reading(s)')
  /\ kind = "waiting" => WaitingOk(d)

\* Such a step keeps the invariant.
LEMMA OneChanges ==
  ASSUME FramesInv, NEW s \in Conns, NEW d, Alone(s, d), Sound(s, d)
  PROVE  FramesInv'
<1>0. /\ conn' = [conn EXCEPT ![s] = d] /\ kind' = kind /\ thread' \in Threads
      /\ \A t \in Conns : t # s => (Reading(t) => Reading(t)')
      /\ d \in Part /\ Framed(d) /\ Filled(d) /\ (~d.refused => Straight(d))
      /\ kind = "whole" => WholeOk(d, Reading(s)')
      /\ kind = "waiting" => WaitingOk(d)
  BY DEF Alone, Sound
<1>1. conn \in [Conns -> Part] /\ kind \in Kinds
  BY DEF FramesInv, Typed
<1>2. conn' \in [Conns -> Part] /\ conn'[s] = d /\ \A t \in Conns : t # s => conn'[t] = conn[t]
  BY <1>0, <1>1
<1>3. ASSUME NEW t \in Conns
      PROVE  /\ Framed(conn'[t]) /\ Filled(conn'[t]) /\ (~conn'[t].refused => Straight(conn'[t]))
             /\ kind = "whole" => WholeOk(conn'[t], Reading(t)')
             /\ kind = "waiting" => WaitingOk(conn'[t])
  <2>1. CASE t = s
    BY <1>0, <1>2, <2>1
  <2>2. CASE t # s
    <3>1. conn'[t] = conn[t] /\ (Reading(t) => Reading(t)')
      BY <1>0, <1>2, <2>2
    <3>2. /\ Framed(conn[t]) /\ Filled(conn[t]) /\ (~conn[t].refused => Straight(conn[t]))
          /\ kind = "whole" => WholeOk(conn[t], Reading(t))
          /\ kind = "waiting" => WaitingOk(conn[t])
      BY OfOne
    <3>3. kind = "whole" => WholeOk(conn[t], Reading(t)')
      BY <3>1, <3>2 DEF WholeOk
    <3> QED
      BY <3>1, <3>2, <3>3
  <2> QED
    BY <2>1, <2>2
<1>4. Typed'
  BY <1>0, <1>1, <1>2, <1>3 DEF Typed, Threads
<1>5. Ordered'
  BY <1>3 DEF Ordered
<1>6. Whole' /\ Waiting'
  BY <1>0, <1>3 DEF Whole, Waiting
<1> QED
  BY <1>4, <1>5, <1>6 DEF FramesInv

\* The same stream and the same buffer satisfy the same.
LEMMA SameData ==
  ASSUME NEW c, NEW d, d.ends = c.ends, d.arrived = c.arrived, d.taken = c.taken, d.start = c.start,
         d.bytes = c.bytes, d.protocol = c.protocol, d.pushed = c.pushed, d.refused = c.refused
  PROVE  /\ Framed(c) => Framed(d)
         /\ Filled(c) => Filled(d)
         /\ Straight(c) => Straight(d)
         /\ WaitingOk(c) => WaitingOk(d)
         /\ \A r : WholeOk(c, r) => WholeOk(d, r)
<1>1. Sent(d) = Sent(c) /\ Edges(d) = Edges(c) /\ (Framed(c) <=> Framed(d)) /\ Parsing(d) = Parsing(c)
  BY SameStream
<1> QED
  BY <1>1 DEF Filled, Straight, WaitingOk, WholeOk

\* A new frame is sent: a client that waits has been answered.
LEMMA SendKeeps ==
  ASSUME FramesInv, NEW s \in Conns, NEW z \in Sizes, SendFrame(s, z)
  PROVE  FramesInv'
<1> DEFINE c == conn[s]
           d == [c EXCEPT !.ends = Append(@, Sent(c) + z)]
<1>1. /\ c \in Part /\ Framed(c) /\ Filled(c) /\ (~c.refused => Straight(c))
      /\ kind = "whole" => WholeOk(c, Reading(s))
      /\ kind = "waiting" => WaitingOk(c)
      /\ thread \in Threads
  BY OfOne
<1>2. conn \in [Conns -> Part]
  BY DEF FramesInv, Typed
<1>3. /\ Len(c.ends) < MaxFrames /\ kind' = kind /\ thread' = thread
      /\ kind = "waiting" => Answered(c) /\ z < Chunk
      /\ conn' = [conn EXCEPT ![s] = d]
  BY <1>2 DEF SendFrame
<1> HIDE DEF c
<1>4. d = [c EXCEPT !.ends = Append(@, Sent(c) + z)]
  OBVIOUS
<1> HIDE DEF d
<1>5. /\ d \in Part /\ Framed(d) /\ Filled(d) /\ Sent(d) = Sent(c) + z
      /\ Len(d.ends) = Len(c.ends) + 1 /\ \A n \in DOMAIN c.ends : n \in DOMAIN d.ends /\ d.ends[n] = c.ends[n]
      /\ d.refused = c.refused /\ d.taken = c.taken /\ d.arrived = c.arrived /\ d.pushed = c.pushed
      /\ d.protocol = c.protocol /\ d.bytes = c.bytes
  BY <1>1, <1>3, <1>4, Sends
<1>6. ASSUME Straight(c) PROVE Straight(d) /\ Parsing(d) = Parsing(c)
  <2>1. c.protocol <= Len(c.ends)
    BY <1>6 DEF Straight
  <2>2. c.protocol \in Nat /\ (c.protocol = 0 \/ c.protocol \in DOMAIN c.ends) /\ Len(c.ends) \in Nat
    BY <1>1, <2>1, ParsingIsANumber, FramesLie
  <2>3. Parsing(d) = Parsing(c)
    BY <1>5, <2>2 DEF Parsing
  <2>4. d.protocol <= Len(d.ends)
    <3> DEFINE x == Len(c.ends)
    <3> HIDE DEF x
    <3>1. c.protocol <= x /\ x \in Nat /\ Len(d.ends) = x + 1
      BY <1>5, <2>1, <2>2 DEF x
    <3> QED
      BY <1>5, <2>2, <3>1
  <2> QED
    BY <1>5, <1>6, <2>3, <2>4 DEF Straight
<1>7. ASSUME kind = "whole" PROVE WholeOk(d, Reading(s)')
  <2>1. WholeOk(c, Reading(s)) /\ (Reading(s)' <=> Reading(s))
    BY <1>1, <1>3, <1>7 DEF Reading
  <2>2. Edges(c) \subseteq Edges(d)
    BY <1>5 DEF Edges, ToSet
  <2> QED
    BY <1>5, <2>1, <2>2 DEF WholeOk
<1>8. ASSUME kind = "waiting" PROVE WaitingOk(d)
  <2>1. ~c.refused /\ Straight(c) /\ Answered(c) /\ z < Chunk
    BY <1>1, <1>3, <1>8 DEF WaitingOk
  <2>2. c.protocol <= Len(c.ends)
    BY <2>1 DEF Straight
  <2>3. /\ c.protocol \in Nat /\ (c.protocol = 0 \/ c.protocol \in DOMAIN c.ends) /\ Parsing(c) \in Nat
        /\ Len(c.ends) \in Nat /\ DOMAIN c.ends = 1..Len(c.ends)
    BY <1>1, <2>2, ParsingIsANumber, FramesLie
  <2>4. c.protocol = Len(c.ends) /\ Parsing(c) = Sent(c)
    <3>1. CASE c.ends = <<>>
      BY <2>2, <2>3, <3>1 DEF Parsing, Sent
    <3>2. CASE c.ends # <<>>
      <4>1. c.protocol = Len(c.ends) /\ Sent(c) = c.ends[Len(c.ends)] /\ Len(c.ends) \in DOMAIN c.ends
        BY <1>1, <2>1, <3>2, FramesLie DEF Answered
      <4>2. c.protocol # 0
        BY <2>3, <4>1
      <4> QED
        BY <4>1, <4>2 DEF Parsing
    <3> QED
      BY <3>1, <3>2
  <2>5. z \in Nat /\ Chunk \in Nat /\ Chunk <= MaxBuffer /\ MaxBuffer \in Nat
    BY SizeIsANumber, Bounds
  <2>6. Sent(c) + z < Parsing(c) + MaxBuffer
    BY <2>1, <2>3, <2>4, <2>5
  <2> QED
    BY <1>5, <1>6, <2>1, <2>3, <2>4, <2>6 DEF WaitingOk
<1>9. \A t \in Conns : t # s => (Reading(t) => Reading(t)')
  BY <1>3 DEF Reading
<1>21. Alone(s, d)
  BY <1>1, <1>3, <1>9 DEF Alone
<1>22. Sound(s, d)
  BY <1>1, <1>5, <1>6, <1>7, <1>8 DEF Sound
<1> QED
  BY <1>21, <1>22, OneChanges

\* Bytes arrive: those of a client whose frames arrive whole end with a frame.
LEMMA ArriveKeeps ==
  ASSUME FramesInv, NEW s \in Conns, NEW p \in 1..Sent(conn[s]), Arrive(s, p)
  PROVE  FramesInv'
<1> DEFINE c == conn[s]
           d == [c EXCEPT !.arrived = p, !.edge = TRUE]
<1>1. /\ c \in Part /\ Framed(c) /\ Filled(c) /\ (~c.refused => Straight(c))
      /\ kind = "whole" => WholeOk(c, Reading(s))
      /\ kind = "waiting" => WaitingOk(c)
      /\ thread \in Threads
  BY OfOne
<1>2. conn \in [Conns -> Part]
  BY DEF FramesInv, Typed
<1>3. /\ c.arrived < p /\ p <= Sent(c) /\ kind' = kind /\ thread' = thread
      /\ kind = "whole" => p \in ToSet(c.ends)
      /\ conn' = [conn EXCEPT ![s] = d]
  BY <1>2 DEF Arrive
<1>0. Sent(c) \in Nat
  BY <1>1, FramesLie
<1>4. p \in Nat
  BY <1>0
<1> HIDE DEF c
<1>5. /\ d \in Part /\ d.ends = c.ends /\ d.arrived = p /\ d.taken = c.taken /\ d.start = c.start
      /\ d.bytes = c.bytes /\ d.protocol = c.protocol /\ d.pushed = c.pushed /\ d.refused = c.refused
  BY <1>1, <1>4 DEF Part
<1> HIDE DEF d
<1>6. Sent(d) = Sent(c) /\ Edges(d) = Edges(c) /\ Framed(d) /\ Parsing(d) = Parsing(c)
  BY <1>1, <1>5, SameStream
<1>7. Filled(d)
  <2>1. c.taken \in Nat /\ c.arrived \in Nat /\ c.taken <= c.arrived
    BY <1>1 DEF Part, Filled
  <2>2. c.taken <= p
    BY <1>3, <1>4, <2>1
  <2> QED
    BY <1>1, <1>3, <1>5, <1>6, <2>2 DEF Filled
<1>8. Straight(c) => Straight(d)
  BY <1>5, <1>6 DEF Straight
<1>9. WaitingOk(c) => WaitingOk(d)
  BY <1>5, <1>6 DEF WaitingOk
<1>10. ASSUME kind = "whole" PROVE WholeOk(d, Reading(s)')
  <2>1. WholeOk(c, Reading(s)) /\ (Reading(s)' <=> Reading(s))
    BY <1>1, <1>3, <1>10 DEF Reading
  <2>2. p \in Edges(d)
    BY <1>3, <1>6, <1>10 DEF Edges
  <2> QED
    BY <1>5, <1>6, <2>1, <2>2 DEF WholeOk
<1>11. \A t \in Conns : t # s => (Reading(t) => Reading(t)')
  BY <1>3 DEF Reading
<1>21. Alone(s, d)
  BY <1>1, <1>3, <1>11 DEF Alone
<1>22. Sound(s, d)
  BY <1>1, <1>5, <1>6, <1>7, <1>8, <1>9, <1>10 DEF Sound
<1> QED
  BY <1>21, <1>22, OneChanges

\* A step that only sets flags of a connection, and leaves reading only a
\* connection it has read empty.
LEMMA BitsKeep ==
  ASSUME FramesInv, NEW s \in Conns, NEW d \in Part, conn' = [conn EXCEPT ![s] = d],
         d.ends = conn[s].ends, d.arrived = conn[s].arrived, d.taken = conn[s].taken,
         d.start = conn[s].start, d.bytes = conn[s].bytes, d.protocol = conn[s].protocol,
         d.pushed = conn[s].pushed, d.refused = conn[s].refused,
         kind' = kind, thread' \in Threads,
         \A t \in Conns : Reading(t) => Reading(t)' \/ (t = s /\ conn[s].taken = conn[s].arrived)
  PROVE  FramesInv'
<1> DEFINE c == conn[s]
<1>1. /\ c \in Part /\ Framed(c) /\ Filled(c) /\ (~c.refused => Straight(c))
      /\ kind = "whole" => WholeOk(c, Reading(s))
      /\ kind = "waiting" => WaitingOk(c)
  BY OfOne
<1>2. Reading(s) => Reading(s)' \/ c.taken = c.arrived
  OBVIOUS
<1>3. \A t \in Conns : t # s => (Reading(t) => Reading(t)')
  OBVIOUS
<1>4. /\ Framed(d) /\ Filled(d) /\ (Straight(c) => Straight(d)) /\ (WaitingOk(c) => WaitingOk(d))
      /\ \A r : WholeOk(c, r) => WholeOk(d, r)
  BY <1>1, SameData
<1>5. kind = "whole" => WholeOk(d, Reading(s)')
  <2>1. WholeOk(c, Reading(s)) => WholeOk(c, Reading(s)')
    BY <1>2 DEF WholeOk
  <2> QED
    BY <1>1, <1>4, <2>1
<1>21. Alone(s, d)
  BY <1>3 DEF Alone
<1>22. Sound(s, d)
  BY <1>1, <1>4, <1>5 DEF Sound
<1> QED
  BY <1>21, <1>22, OneChanges

\* The client closes, behind all it has sent.
LEMMA CloseKeeps ==
  ASSUME FramesInv, NEW s \in Conns, Close(s)
  PROVE  FramesInv'
<1> DEFINE d == [conn[s] EXCEPT !.eof = TRUE, !.edge = TRUE]
<1>1. conn[s] \in Part /\ thread \in Threads
  BY OfOne
<1>2. conn \in [Conns -> Part]
  BY DEF FramesInv, Typed
<1>3. conn' = [conn EXCEPT ![s] = d] /\ kind' = kind /\ thread' = thread
  BY <1>2 DEF Close
<1>4. d \in Part
  BY <1>1 DEF Part
<1>5. /\ d.ends = conn[s].ends /\ d.arrived = conn[s].arrived /\ d.taken = conn[s].taken
      /\ d.start = conn[s].start /\ d.bytes = conn[s].bytes /\ d.protocol = conn[s].protocol
      /\ d.pushed = conn[s].pushed /\ d.refused = conn[s].refused
  BY <1>1 DEF Part
<1> HIDE DEF d
<1>6. \A t \in Conns : Reading(t) => Reading(t)'
  BY <1>3 DEF Reading
<1> QED
  BY <1>1, <1>3, <1>4, <1>5, <1>6, BitsKeep

\* The thread turns to a connection, to read it.
LEMMA EpollWaitKeeps ==
  ASSUME FramesInv, NEW s \in Conns, EpollWait(s), kind' = kind
  PROVE  FramesInv'
<1> DEFINE d == [conn[s] EXCEPT !.edge = FALSE]
<1>1. conn[s] \in Part /\ thread \in Threads
  BY OfOne
<1>2. conn \in [Conns -> Part]
  BY DEF FramesInv, Typed
<1>3. conn' = [conn EXCEPT ![s] = d] /\ thread' = [at |-> "read", conn |-> s] /\ thread.at = "wait"
  BY <1>2 DEF EpollWait
<1>4. d \in Part
  BY <1>1 DEF Part
<1>5. /\ d.ends = conn[s].ends /\ d.arrived = conn[s].arrived /\ d.taken = conn[s].taken
      /\ d.start = conn[s].start /\ d.bytes = conn[s].bytes /\ d.protocol = conn[s].protocol
      /\ d.pushed = conn[s].pushed /\ d.refused = conn[s].refused
  BY <1>1 DEF Part
<1> HIDE DEF d
<1>6. \A t \in Conns : ~Reading(t)
  BY <1>3 DEF Reading
<1>7. thread' \in Threads
  BY <1>3 DEF Threads
<1> QED
  BY <1>3, <1>4, <1>5, <1>6, <1>7, BitsKeep

\* The step of the thread, and what it leaves behind.
LEMMA AtConnection ==
  ASSUME FramesInv, thread.at \in {"read", "parse"}
  PROVE  /\ thread.conn \in Conns
         /\ [thread EXCEPT !.at = "parse"] = [at |-> "parse", conn |-> thread.conn]
         /\ [at |-> "parse", conn |-> thread.conn] \in Threads /\ [at |-> "wait", conn |-> NoConn] \in Threads
<1>1. thread \in Threads
  BY DEF FramesInv, Typed, Threads
<1>2. thread \in [at : {"read", "parse"}, conn : Conns]
  BY <1>1 DEF Threads
<1>3. thread = [at |-> thread.at, conn |-> thread.conn] /\ thread.conn \in Conns
  BY <1>2
<1> QED
  BY <1>3 DEF Threads

\* A turn of the read loop; a connection whose frames arrive whole is read to
\* the end of a frame before it is parsed.
LEMMA ReadKeeps ==
  ASSUME FramesInv, Read, kind' = kind
  PROVE  FramesInv'
<1> DEFINE s == thread.conn
           c == conn[s]
<1>1. thread.at = "read"
  BY DEF Read
<1>2. s \in Conns /\ [thread EXCEPT !.at = "parse"] = [at |-> "parse", conn |-> s]
      /\ [at |-> "parse", conn |-> s] \in Threads
  BY <1>1, AtConnection
<1>3. /\ c \in Part /\ Framed(c) /\ Filled(c) /\ (~c.refused => Straight(c))
      /\ kind = "whole" => WholeOk(c, Reading(s))
      /\ kind = "waiting" => WaitingOk(c)
      /\ thread \in Threads
  BY <1>2, OfOne
<1>4. conn \in [Conns -> Part]
  BY DEF FramesInv, Typed
<1>5. \A t \in Conns : t # s => ~Reading(t)
  BY DEF Reading
<1>6. CASE c.arrived > c.taken
  <2> DEFINE rest == c.arrived - c.taken
             n == Min({Chunk, rest})
             d == TakenIn(c, n)
  <2>1. c.arrived \in Nat /\ c.taken \in Nat /\ Chunk \in Nat /\ Chunk > 0 /\ Chunk <= MaxBuffer /\ MaxBuffer \in Nat
    BY <1>3, Bounds DEF Part
  <2>2. rest \in Nat /\ rest > 0
    BY <1>6, <2>1
  <2>3. Took(s, n)
    BY <1>6 DEF Read
  <2> HIDE DEF rest
  <2>4. n \in Nat /\ n > 0 /\ n <= rest /\ n <= Chunk /\ (n # Chunk => n = rest)
    BY <2>1, <2>2, MinOfTwo
  <2> HIDE DEF n
  <2>5. conn' = [conn EXCEPT ![s] = d]
    BY <1>2, <1>4, <2>3 DEF Took
  <2>6. thread' = IF n = Chunk THEN thread ELSE [at |-> "parse", conn |-> s]
    BY <1>2, <2>3 DEF Took
  <2>7. c.taken + n <= c.arrived /\ (n # Chunk => c.taken + n = c.arrived)
    BY <2>1, <2>4 DEF rest
  <2> HIDE DEF d, c
  <2>8. d = TakenIn(c, n)
    BY DEF d
  <2>9. /\ d \in Part /\ d.ends = c.ends /\ d.taken = c.taken + n /\ d.arrived = c.arrived
        /\ d.pushed = c.pushed /\ d.protocol = c.protocol
        /\ d.refused \/ d.refused = c.refused
    BY <1>3, <2>4, <2>7, <2>8, AddDoes
  <2>10. /\ Framed(d) /\ Filled(d) /\ Parsing(d) = Parsing(c)
         /\ ~d.refused /\ (~c.refused => Straight(c)) => Straight(d)
         /\ ~c.refused /\ Straight(c) /\ c.taken + n < Parsing(c) + MaxBuffer => ~d.refused
    BY <1>3, <2>4, <2>7, <2>8, AddKeeps
  <2>11. Sent(d) = Sent(c) /\ Edges(d) = Edges(c) /\ Sent(c) \in Nat
    BY <1>3, <2>9, SameStream, FramesLie
  <2>12. ~d.refused => ~c.refused
    BY <1>3, <2>9 DEF Part
  <2>13. ASSUME kind = "whole" PROVE WholeOk(d, Reading(s)')
    <3>1. WholeOk(c, Reading(s))
      BY <1>3, <2>13
    <3>2. ~Reading(s)' => d.taken = d.arrived
      BY <1>1, <2>6, <2>7, <2>9 DEF Reading
    <3> QED
      BY <2>9, <2>11, <2>12, <3>1, <3>2 DEF WholeOk
  <2>14. ASSUME kind = "waiting" PROVE WaitingOk(d)
    <3>1. WaitingOk(c) /\ ~c.refused /\ Straight(c) /\ Sent(c) < Parsing(c) + MaxBuffer
      BY <1>3, <2>14 DEF WaitingOk
    <3>2. Parsing(c) \in Nat
      BY <1>3, <3>1, ParsingIsANumber DEF Straight
    <3>3. c.arrived <= Sent(c)
      BY <1>3 DEF Filled
    <3>4. c.taken + n < Parsing(c) + MaxBuffer
      <4> DEFINE x == Sent(c)
                 y == Parsing(c)
                 u == c.taken + n
      <4>1. x \in Nat /\ y \in Nat /\ u \in Nat /\ u <= c.arrived /\ c.arrived <= x /\ x < y + MaxBuffer
        BY <2>1, <2>4, <2>7, <2>11, <3>1, <3>2, <3>3
      <4> HIDE DEF x, y, u
      <4>2. u < y + MaxBuffer
        BY <2>1, <4>1
      <4> QED
        BY <4>2 DEF u, y
    <3> QED
      BY <2>9, <2>10, <2>11, <3>1, <3>4 DEF WaitingOk
  <2>15. thread' \in Threads
    BY <1>2, <1>3, <2>6
  <2>16. ~d.refused => Straight(d)
    BY <1>3, <2>10, <2>12
  <2>17. \A t \in Conns : t # s => (Reading(t) => Reading(t)')
    BY <1>5
  <2>18. d \in Part /\ Framed(d) /\ Filled(d) /\ s \in Conns
    BY <1>2, <2>9, <2>10
  <2> HIDE DEF s
  <2>21. Alone(s, d)
    BY <2>5, <2>15, <2>17 DEF Alone
  <2>22. Sound(s, d)
    BY <2>13, <2>14, <2>16, <2>18 DEF Sound
  <2> QED
    BY <2>18, <2>21, <2>22, OneChanges
<1>7. CASE ~(c.arrived > c.taken)
  <2> DEFINE d == [c EXCEPT !.open = FALSE]
  <2>1. conn' = [conn EXCEPT ![s] = d] /\ thread' = [at |-> "parse", conn |-> s]
    BY <1>2, <1>4, <1>7 DEF Read
  <2>2. c.taken = c.arrived
    <3>1. c.taken \in Nat /\ c.arrived \in Nat /\ c.taken <= c.arrived
      BY <1>3 DEF Part, Filled
    <3> HIDE DEF c
    <3> QED
      BY <1>7, <3>1
  <2>3. d \in Part
    BY <1>3 DEF Part
  <2>4. /\ d.ends = c.ends /\ d.arrived = c.arrived /\ d.taken = c.taken
        /\ d.start = c.start /\ d.bytes = c.bytes /\ d.protocol = c.protocol
        /\ d.pushed = c.pushed /\ d.refused = c.refused
    BY <1>3 DEF Part
  <2> HIDE DEF d
  <2> QED
    BY <1>2, <1>5, <2>1, <2>2, <2>3, <2>4, BitsKeep
<1> QED
  BY <1>6, <1>7

\* What was read to the end of a frame holds the frame behind the last one.
LEMMA NothingShort ==
  ASSUME NEW c \in Part, Framed(c), Straight(c), Len(c.bytes) >= HeadLen,
         NEW n \in DOMAIN c.ends, Begin(c, n) = c.bytes[1], NEW body \in Announced(c, n),
         c.taken \in Edges(c)
  PROVE  ~Short(c, body)
<1> DEFINE e == c.ends
           k == Parsing(c)
           p == c.protocol
           b == Len(c.bytes)
<1>1. n = p + 1 /\ k + HeadLen + body = e[n] /\ body \in Nat
  BY NextFrame, BodyIsANumber
<1>2. p <= Len(e) /\ k <= c.taken /\ b = c.taken - k
  BY DEF Straight
<1>3. /\ k \in Nat /\ p \in Nat /\ HeadLen \in Nat /\ HeadLen > 0 /\ c.taken \in Nat
      /\ p # 0 => p \in DOMAIN e /\ k = e[p]
      /\ DOMAIN e = 1..Len(e) /\ Len(e) \in Nat /\ \A m \in DOMAIN e : e[m] \in Nat
  BY <1>2, ParsingIsANumber, Bounds, FramesLie DEF Part, Parsing
<1>4. \A m, j \in DOMAIN e : m < j => e[m] < e[j]
  BY DEF Framed
<1>5. b >= HeadLen
  OBVIOUS
<1>6. c.taken = 0 \/ \E m \in DOMAIN e : c.taken = e[m]
  BY DEF Edges, ToSet
<1> HIDE DEF e, k, p, b
<1>7. c.taken > k /\ c.taken # 0
  BY <1>2, <1>3, <1>5
<1>8. PICK m \in DOMAIN e : c.taken = e[m]
  BY <1>6, <1>7
<1>9. ~(m <= p)
  <2> SUFFICES ASSUME m <= p PROVE FALSE
    OBVIOUS
  <2>1. p # 0 /\ (m = p \/ m < p)
    BY <1>3, <1>8
  <2>2. p \in DOMAIN e /\ k = e[p]
    BY <1>3, <2>1
  <2>3. e[m] = k \/ e[m] < k
    BY <1>4, <2>1, <2>2
  <2> QED
    BY <1>3, <1>7, <1>8, <2>3
<1>10. m = n \/ n < m
  BY <1>1, <1>3, <1>9
<1>11. n \in DOMAIN e
  BY DEF e
<1>12. e[n] \in Nat /\ e[n] <= c.taken
  BY <1>3, <1>4, <1>8, <1>10, <1>11
<1>13. ~(b - HeadLen < body)
  <2> DEFINE x == e[n]
  <2>1. x \in Nat /\ x <= c.taken /\ k + HeadLen + body = x
    BY <1>1, <1>12
  <2> HIDE DEF x
  <2> QED
    BY <1>1, <1>2, <1>3, <2>1, SMTT(30)
<1> QED
  BY <1>13 DEF Short, b

\* The head of frame n is the first in the buffer, and announces this body.
AtFrame(c, n, body) ==
  /\ Len(c.bytes) >= HeadLen /\ n \in DOMAIN c.ends /\ Begin(c, n) = c.bytes[1]
  /\ body \in Announced(c, n)

\* A body that is not there yet: the message before it once more.
LEMMA ShortKeeps ==
  ASSUME FramesInv, NEW s \in Conns, thread.at = "parse", thread' = [at |-> "wait", conn |-> NoConn],
         kind' = kind, NEW n, NEW body, AtFrame(conn[s], n, body), Short(conn[s], body),
         conn' = [conn EXCEPT ![s] = Pushed(conn[s])]
  PROVE  FramesInv'
<1> DEFINE c == conn[s]
           d == Pushed(c)
<1>1. /\ c \in Part /\ Framed(c) /\ Filled(c) /\ (~c.refused => Straight(c))
      /\ kind = "whole" => WholeOk(c, Reading(s))
      /\ kind = "waiting" => WaitingOk(c)
  BY OfOne
<1>2. \A t \in Conns : ~Reading(t)
  BY DEF Reading
<1>3. thread' \in Threads
  BY DEF Threads
<1>4. d = Pushed(c) /\ conn' = [conn EXCEPT ![s] = d]
  OBVIOUS
<1> HIDE DEF c, d
<1>5. /\ d \in Part /\ Framed(d) /\ Filled(d) /\ Parsing(d) = Parsing(c) /\ Sent(d) = Sent(c)
      /\ Straight(c) => Straight(d)
  BY <1>1, <1>4, WaitKeeps
<1>6. d = [c EXCEPT !.pushed = Append(c.pushed, c.protocol)]
  BY <1>1, <1>4, PushDoes
<1>7. /\ d.ends = c.ends /\ d.arrived = c.arrived /\ d.taken = c.taken /\ d.refused = c.refused
      /\ d.protocol = c.protocol
  BY <1>1, <1>6 DEF Part
<1>8. ASSUME kind = "whole" PROVE WholeOk(d, Reading(s)')
  <2>1. WholeOk(c, FALSE)
    BY <1>1, <1>2, <1>8 DEF WholeOk
  <2>2. c.taken \in Edges(c)
    BY <2>1 DEF WholeOk
  <2>3. c.refused
    <3>1. ~c.refused => ~Short(c, body)
      BY <1>1, <2>2, NothingShort DEF AtFrame, c
    <3> QED
      BY <3>1 DEF c
  <2>4. Edges(d) = Edges(c)
    BY <1>7, SameStream
  <2> QED
    BY <1>7, <2>1, <2>2, <2>3, <2>4 DEF WholeOk
<1>9. kind = "waiting" => WaitingOk(d)
  BY <1>1, <1>5, <1>7 DEF WaitingOk
<1>10. ~d.refused => Straight(d)
  BY <1>1, <1>5, <1>7
<1>21. Alone(s, d)
  BY <1>2, <1>3, <1>4 DEF Alone
<1>22. Sound(s, d)
  BY <1>5, <1>8, <1>9, <1>10 DEF Sound
<1> QED
  BY <1>21, <1>22, OneChanges

\* A frame that is there is parsed and its message pushed.
LEMMA WholeKeeps ==
  ASSUME FramesInv, NEW s \in Conns, thread.at = "parse", thread' = [at |-> "wait", conn |-> NoConn],
         kind' = kind, NEW n, NEW body, AtFrame(conn[s], n, body), ~Short(conn[s], body),
         NEW p \in Parsed(conn[s], n, HeadLen + body),
         conn' = [conn EXCEPT ![s] = TakenOut(conn[s], HeadLen + body, p)]
  PROVE  FramesInv'
<1> DEFINE c == conn[s]
           d == TakenOut(c, HeadLen + body, p)
<1>1. /\ c \in Part /\ Framed(c) /\ Filled(c) /\ (~c.refused => Straight(c))
      /\ kind = "whole" => WholeOk(c, Reading(s))
      /\ kind = "waiting" => WaitingOk(c)
  BY OfOne
<1>2. \A t \in Conns : ~Reading(t)
  BY DEF Reading
<1>3. thread' \in Threads
  BY DEF Threads
<1>5. /\ Len(c.bytes) >= HeadLen /\ n \in DOMAIN c.ends /\ Begin(c, n) = c.bytes[1]
      /\ body \in Announced(c, n) /\ ~Short(c, body) /\ p \in Parsed(c, n, HeadLen + body)
      /\ d = TakenOut(c, HeadLen + body, p)
  BY DEF AtFrame
<1>0. conn' = [conn EXCEPT ![s] = d]
  OBVIOUS
<1> HIDE DEF c, d
<1>4. body \in Nat
  BY <1>1, <1>5, BodyIsANumber
<1>6. /\ d \in Part /\ Framed(d) /\ Filled(d) /\ Sent(d) = Sent(c)
      /\ d.ends = c.ends /\ d.arrived = c.arrived /\ d.taken = c.taken /\ d.refused = c.refused
      /\ d.protocol = p /\ Len(d.pushed) = Len(c.pushed) + 1 /\ d.pushed[Len(c.pushed) + 1] = p
      /\ \A i \in 1..Len(c.pushed) : d.pushed[i] = c.pushed[i]
  BY <1>1, <1>4, <1>5, TakeDoes
<1>7. ASSUME ~c.refused PROVE Straight(c) /\ Straight(d) /\ p = c.protocol + 1 /\ Parsing(d) = c.ends[p]
  BY <1>1, <1>5, <1>7, TakeKeeps
<1>8. ASSUME kind = "whole" PROVE WholeOk(d, Reading(s)')
  <2>1. WholeOk(c, FALSE)
    BY <1>1, <1>2, <1>8 DEF WholeOk
  <2>2. Edges(d) = Edges(c)
    BY <1>6, SameStream
  <2>3. ASSUME ~d.refused PROVE Len(d.pushed) = d.protocol /\ \A i \in DOMAIN d.pushed : d.pushed[i] = i
    <3>1. Len(c.pushed) = c.protocol /\ (\A i \in DOMAIN c.pushed : c.pushed[i] = i) /\ p = c.protocol + 1
      BY <1>6, <1>7, <2>1, <2>3 DEF WholeOk
    <3>2. /\ c.pushed \in Seq(0..Garbled) /\ d.pushed \in Seq(0..Garbled)
      BY <1>1, <1>6 DEF Part
    <3>3. Len(c.pushed) \in Nat /\ DOMAIN c.pushed = 1..Len(c.pushed) /\ DOMAIN d.pushed = 1..Len(d.pushed)
      BY <3>2
    <3>4. Len(d.pushed) = p /\ DOMAIN d.pushed = 1..p /\ p = Len(c.pushed) + 1
      BY <1>6, <3>1, <3>3
    <3>5. \A i \in 1..p : d.pushed[i] = i
      <4> TAKE i \in 1..p
      <4>1. i \in 1..Len(c.pushed) \/ i = p
        BY <3>3, <3>4
      <4> QED
        BY <1>6, <3>1, <3>3, <3>4, <4>1
    <3> QED
      BY <1>6, <3>4, <3>5
  <2> QED
    BY <1>6, <2>1, <2>2, <2>3 DEF WholeOk
<1>9. ASSUME kind = "waiting" PROVE WaitingOk(d)
  <2>1. ~c.refused /\ Len(c.ends) <= c.protocol + 1 /\ Sent(c) < Parsing(c) + MaxBuffer
    BY <1>1, <1>9 DEF WaitingOk
  <2>2. Straight(c) /\ p = c.protocol + 1 /\ Parsing(d) = c.ends[p]
    BY <1>7, <2>1
  <2>3. n = c.protocol + 1 /\ Parsing(c) + HeadLen + body = c.ends[n]
    BY <1>1, <1>5, <2>2, NextFrame
  <2>4. Parsing(c) \in Nat /\ c.protocol \in Nat /\ HeadLen \in Nat /\ MaxBuffer \in Nat /\ Sent(c) \in Nat
        /\ Len(c.ends) \in Nat
    BY <1>1, <2>2, ParsingIsANumber, Bounds, FramesLie DEF Straight
  <2> DEFINE x == Sent(c)
             y == Parsing(c)
             z == Parsing(d)
             k == Len(c.ends)
             a == c.protocol
  <2>5. /\ x \in Nat /\ y \in Nat /\ x < y + MaxBuffer /\ z = y + HeadLen + body /\ k \in Nat /\ k <= c.protocol + 1
    BY <2>1, <2>2, <2>3, <2>4
  <2>6. p = a + 1 /\ a \in Nat /\ k <= a + 1
    BY <2>2, <2>4, <2>5
  <2> HIDE DEF x, y, z, k, a
  <2>7. x < z + MaxBuffer /\ k <= p + 1
    <3>1. x < z + MaxBuffer
      BY <1>4, <2>4, <2>5
    <3>2. k <= p + 1
      BY <2>5, <2>6
    <3> QED
      BY <3>1, <3>2
  <2> QED
    BY <1>6, <2>1, <2>7 DEF WaitingOk, x, z, k
<1>10. ~d.refused => Straight(d)
  BY <1>6, <1>7
<1>21. Alone(s, d)
  BY <1>0, <1>2, <1>3 DEF Alone
<1>22. Sound(s, d)
  BY <1>6, <1>8, <1>9, <1>10 DEF Sound
<1> QED
  BY <1>21, <1>22, OneChanges

\* parseFromBuffer, once.
LEMMA ParseKeeps ==
  ASSUME FramesInv, Parse, kind' = kind
  PROVE  FramesInv'
<1> DEFINE s == thread.conn
           c == conn[s]
<1>1. thread.at = "parse" /\ thread' = [at |-> "wait", conn |-> NoConn]
  BY DEF Parse
<1>2. s \in Conns /\ thread' \in Threads /\ c \in Part /\ conn \in [Conns -> Part]
  BY <1>1, AtConnection, OfOne DEF FramesInv, Typed
<1>3. \A t \in Conns : ~Reading(t)
  BY <1>1 DEF Reading
<1> HIDE DEF s
<1>4. CASE UNCHANGED conn
  <2>1. conn' = [conn EXCEPT ![s] = c]
    BY <1>2, <1>4
  <2> QED
    BY <1>2, <1>3, <2>1, BitsKeep
<1>5. CASE conn' = [conn EXCEPT ![s].open = FALSE]
  <2> DEFINE d == [c EXCEPT !.open = FALSE]
  <2>1. conn' = [conn EXCEPT ![s] = d]
    BY <1>2, <1>5
  <2>2. d \in Part
    BY <1>2 DEF Part
  <2>3. /\ d.ends = c.ends /\ d.arrived = c.arrived /\ d.taken = c.taken
        /\ d.start = c.start /\ d.bytes = c.bytes /\ d.protocol = c.protocol
        /\ d.pushed = c.pushed /\ d.refused = c.refused
    BY <1>2 DEF Part
  <2> HIDE DEF d
  <2> QED
    BY <1>2, <1>3, <2>1, <2>2, <2>3, BitsKeep
<1>6. ASSUME NEW n \in DOMAIN c.ends, Begin(c, n) = c.bytes[1], Len(c.bytes) >= HeadLen,
             NEW body \in Announced(c, n), Short(c, body), conn' = [conn EXCEPT ![s] = Pushed(@)]
      PROVE  FramesInv'
  <2>1. AtFrame(conn[s], n, body) /\ Short(conn[s], body)
    BY <1>6 DEF AtFrame
  <2>2. conn' = [conn EXCEPT ![s] = Pushed(conn[s])]
    BY <1>6
  <2> QED
    BY <1>1, <1>2, <2>1, <2>2, ShortKeeps
<1>7. ASSUME NEW n \in DOMAIN c.ends, Begin(c, n) = c.bytes[1], Len(c.bytes) >= HeadLen,
             NEW body \in Announced(c, n), ~Short(c, body), NEW p \in Parsed(c, n, HeadLen + body),
             conn' = [conn EXCEPT ![s] = TakenOut(@, HeadLen + body, p)]
      PROVE  FramesInv'
  <2>1. AtFrame(conn[s], n, body) /\ ~Short(conn[s], body) /\ p \in Parsed(conn[s], n, HeadLen + body)
    BY <1>7 DEF AtFrame
  <2>2. conn' = [conn EXCEPT ![s] = TakenOut(conn[s], HeadLen + body, p)]
    BY <1>7
  <2> QED
    BY <1>1, <1>2, <2>1, <2>2, WholeKeeps
<1> QED
  BY <1>4, <1>5, <1>6, <1>7 DEF Parse, s

-----------------------------------------------------------------------------
(* The theorems.                                                           *)

\* Nothing has been sent at first.
LEMMA InitHolds == FramesInit => FramesInv
<1> SUFFICES ASSUME FramesInit PROVE FramesInv
  OBVIOUS
<1> DEFINE c == Fresh
<1>1. kind \in Kinds /\ conn = [s \in Conns |-> c] /\ thread = [at |-> "wait", conn |-> NoConn]
  BY DEF FramesInit
<1>2. /\ c.ends = <<>> /\ c.arrived = 0 /\ c.taken = 0 /\ c.start = 0 /\ c.bytes = <<>> /\ c.protocol = 0
      /\ c.pushed = <<>> /\ c.refused = FALSE
  BY DEF Fresh
<1>3. c \in Part
  BY Bounds DEF Fresh, Part
<1> HIDE DEF c
<1>4. Sent(c) = 0 /\ Parsing(c) = 0 /\ Len(c.ends) = 0 /\ Len(c.bytes) = 0 /\ Len(c.pushed) = 0
      /\ DOMAIN c.ends = {} /\ DOMAIN c.bytes = {} /\ DOMAIN c.pushed = {}
  BY <1>2 DEF Sent, Parsing
<1>5. Framed(c) /\ Filled(c)
  BY <1>2, <1>4, Bounds DEF Framed, Filled
<1>6. Straight(c)
  BY <1>2, <1>4 DEF Straight, LastPush, OneByOne
<1>7. \A r : WholeOk(c, r)
  BY <1>2, <1>4 DEF WholeOk, Edges
<1>8. WaitingOk(c)
  BY <1>2, <1>4, Bounds DEF WaitingOk
<1>9. \A s \in Conns : conn[s] = c
  BY <1>1
<1>10. Typed
  BY <1>1, <1>3, <1>5, <1>9 DEF Typed
<1> QED
  BY <1>6, <1>7, <1>8, <1>9, <1>10 DEF FramesInv, Ordered, Whole, Waiting

\* Every step of the clients, the network and the thread keeps the invariant.
LEMMA StepKeeps == FramesInv /\ [FramesNext]_framesVars => FramesInv'
<1> SUFFICES ASSUME FramesInv, [FramesNext]_framesVars PROVE FramesInv'
  OBVIOUS
<1>1. ASSUME NEW s \in Conns, NEW z \in Sizes, SendFrame(s, z) PROVE FramesInv'
  BY <1>1, SendKeeps
<1>2. ASSUME NEW s \in Conns, NEW p \in 1..Sent(conn[s]), Arrive(s, p) PROVE FramesInv'
  BY <1>2, ArriveKeeps
<1>3. ASSUME NEW s \in Conns, Close(s) PROVE FramesInv'
  BY <1>3, CloseKeeps
<1>4. ASSUME NEW s \in Conns, EpollWait(s), UNCHANGED kind PROVE FramesInv'
  BY <1>4, EpollWaitKeeps
<1>5. CASE Read /\ UNCHANGED kind
  BY <1>5, ReadKeeps
<1>6. CASE Parse /\ UNCHANGED kind
  BY <1>6, ParseKeeps
<1>7. CASE UNCHANGED framesVars
  BY <1>7 DEF framesVars, FramesInv, Typed, Ordered, Whole, Waiting, Reading
<1> QED
  BY <1>1, <1>2, <1>3, <1>4, <1>5, <1>6, <1>7 DEF FramesNext, Epoll

\* The invariant of the connections holds in every state.
THEOREM FramesInvariant == FramesSpec => []FramesInv
<1>1. FramesInit => FramesInv
  BY InitHolds
<1>2. FramesInv /\ [FramesNext]_framesVars => FramesInv'
  BY StepKeeps
<1> QED
  BY <1>1, <1>2, PTL DEF FramesSpec

\* FramesTypeOK: read() never returns more than has arrived, the bytes in m_buffer are
\* bytes of the client and leave room for one more, whatever the clients do.
THEOREM FramesTyped == FramesSpec => []FramesTypeOK
<1>1. FramesInv => FramesTypeOK
  <2> SUFFICES ASSUME FramesInv PROVE FramesTypeOK
    OBVIOUS
  <2>1. ASSUME NEW s \in Conns
        PROVE LET c == conn[s] IN
              /\ c.ends \in Seq(Nat) /\ c.taken <= c.arrived /\ c.arrived <= Sent(c)
              /\ c.start + Len(c.bytes) < MaxBuffer /\ ToSet(c.bytes) \subseteq 1..c.taken
              /\ c.protocol \in 0..Garbled /\ c.pushed \in Seq(0..Garbled)
              /\ {c.eof, c.edge, c.open, c.refused} \subseteq BOOLEAN
    <3> DEFINE c == conn[s]
    <3>1. c \in Part /\ Filled(c)
      BY OfOne
    <3> HIDE DEF c
    <3>2. /\ c.ends \in Seq(Nat) /\ c.protocol \in 0..Garbled /\ c.pushed \in Seq(0..Garbled)
          /\ {c.eof, c.edge, c.open, c.refused} \subseteq BOOLEAN
      BY <3>1 DEF Part
    <3>3. /\ c.taken <= c.arrived /\ c.arrived <= Sent(c) /\ c.start + Len(c.bytes) < MaxBuffer
          /\ ToSet(c.bytes) \subseteq 1..c.taken
      BY <3>1 DEF Filled, ToSet
    <3> QED
      BY <3>2, <3>3 DEF c
  <2>2. kind \in Kinds
        /\ thread \in [at : {"wait"}, conn : {NoConn}] \union [at : {"read", "parse"}, conn : Conns]
    BY DEF FramesInv, Typed
  <2> QED
    BY <2>1, <2>2 DEF FramesTypeOK
<1> QED
  BY <1>1, FramesInvariant, PTL

\* InOrder: as long as no add() has failed, parseFromBuffer pushes the frames of
\* a connection in their order, none skipped; only the last is pushed again.
THEOREM PushedInOrder == FramesSpec => []InOrder
<1>1. FramesInv => InOrder
  BY DEF FramesInv, Ordered, Straight, OneByOne, InOrder
<1> QED
  BY <1>1, FramesInvariant, PTL

\* OnceEach: frames that arrive whole are pushed once each; and for a client that
\* waits for its answers Buffer::add always finds room.
THEOREM PushedOnce == FramesSpec => []OnceEach
<1>1. FramesInv => OnceEach
  <2> SUFFICES ASSUME FramesInv, NEW s \in Conns
               PROVE  /\ kind = "whole" /\ ~conn[s].refused =>
                           conn[s].pushed = [i \in DOMAIN conn[s].pushed |-> i]
                      /\ kind = "waiting" => ~conn[s].refused
    BY DEF OnceEach
  <2>1. ASSUME kind = "whole", ~conn[s].refused
        PROVE  conn[s].pushed = [i \in DOMAIN conn[s].pushed |-> i]
    <3> DEFINE q == conn[s].pushed
    <3>1. \A i \in DOMAIN q : q[i] = i
      BY <2>1, OfOne DEF WholeOk
    <3>2. q \in Seq(0..Garbled)
      BY OfOne DEF Part
    <3>3. q = [i \in DOMAIN q |-> q[i]]
      BY <3>2
    <3> QED
      BY <3>1, <3>3
  <2>2. kind = "waiting" => ~conn[s].refused
    BY OfOne DEF WaitingOk
  <2> QED
    BY <2>1, <2>2
<1> QED
  BY <1>1, FramesInvariant, PTL

-----------------------------------------------------------------------------
(* The protocol-buffer messages: Messages.                                 *)

\* The weights of the digits of a varint.
LEMMA BaseIs ==
  /\ Base[1] = 1 /\ Base[2] = 128 /\ Base[3] = 16384 /\ Base[4] = 2097152 /\ Base[5] = 268435456
  /\ \A k \in 1..5 : Base[k] \in Nat
<1>1. Base[1] = 1 /\ Base[2] = 128 /\ Base[3] = 16384 /\ Base[4] = 2097152 /\ Base[5] = 268435456
  BY SMT DEF Base
<1>2. \A k \in 1..5 : k = 1 \/ k = 2 \/ k = 3 \/ k = 4 \/ k = 5
  OBVIOUS
<1> QED
  BY SMT, <1>1, <1>2

\* An int of 32 bits is within its bounds, which are not small.
LEMMA Int32Is ==
  /\ MaxInt32 \in Nat /\ MaxInt32 >= 1000
  /\ \A i : i \in Int32 <=> i \in Int /\ 0 - 1 - MaxInt32 <= i /\ i <= MaxInt32
<1>1. MaxInt32 \in Nat /\ MaxInt32 >= 1000
  BY SMT DEF MaxInt32
<1> QED
  BY <1>1 DEF Int32

\* An int of 32 bits is the sum of its digits, of which the fifth counts with its sign.
LEMMA DigitsAre ==
  ASSUME NEW i \in Int32
  PROVE  /\ \A k \in 1..5 : Digit(i, k) \in 0..127
         /\ i = Digit(i, 1) + Base[2] * Digit(i, 2) + Base[3] * Digit(i, 3) + Base[4] * Digit(i, 4)
                + Base[5] * (((Digit(i, 5) + 8) % 16) - 8)
         /\ i >= 0 => \A k \in 2..5 : i < Base[k] => Digit(i, k) = 0
<1> DEFINE q2 == i \div 128
           q3 == i \div 16384
           q4 == i \div 2097152
           q5 == i \div 268435456
           m == MaxInt32
<1>1. i \in Int /\ 0 - 1 - m <= i /\ i <= m
  BY Int32Is
<1>2. m = 7 * 268435456 + 268435455
  BY SMT DEF MaxInt32
<1>3. /\ Digit(i, 1) = i % 128 /\ Digit(i, 2) = q2 % 128 /\ Digit(i, 3) = q3 % 128
      /\ Digit(i, 4) = q4 % 128 /\ Digit(i, 5) = q5 % 128
  BY SMT, <1>1, BaseIs DEF Digit
<1>4. i = 128 * q2 + (i % 128) /\ q2 \in Int /\ i % 128 \in 0..127
  BY SMT, <1>1
<1>5. q2 = 128 * q3 + (q2 % 128) /\ q3 \in Int /\ q2 % 128 \in 0..127
  BY SMT, <1>1
<1>6. q3 = 128 * q4 + (q3 % 128) /\ q4 \in Int /\ q3 % 128 \in 0..127
  BY SMT, <1>1
<1>7. q4 = 128 * q5 + (q4 % 128) /\ q5 \in Int /\ q4 % 128 \in 0..127 /\ q5 \in -8..7
  BY SMT, <1>1, <1>2
<1>8. (((q5 % 128) + 8) % 16) - 8 = q5 /\ q5 % 128 \in 0..127
  BY SMT, <1>7
<1>9. \A k \in 1..5 : k = 1 \/ k = 2 \/ k = 3 \/ k = 4 \/ k = 5
  OBVIOUS
<1>10. i >= 0 => /\ (i < 128 => q2 = 0) /\ (i < 16384 => q3 = 0) /\ (i < 2097152 => q4 = 0)
                 /\ (i < 268435456 => q5 = 0)
  BY SMT, <1>1
<1> HIDE DEF q2, q3, q4, q5, m
<1>11. \A k \in 1..5 : Digit(i, k) \in 0..127
  BY <1>3, <1>4, <1>5, <1>6, <1>7, <1>8, <1>9
<1>12. i = Digit(i, 1) + Base[2] * Digit(i, 2) + Base[3] * Digit(i, 3) + Base[4] * Digit(i, 4)
           + Base[5] * (((Digit(i, 5) + 8) % 16) - 8)
  BY SMT, <1>1, <1>3, <1>4, <1>5, <1>6, <1>7, <1>8, BaseIs
<1>13. i >= 0 => \A k \in 2..5 : i < Base[k] => Digit(i, k) = 0
  <2> SUFFICES ASSUME i >= 0, NEW k \in 2..5, i < Base[k] PROVE Digit(i, k) = 0
    OBVIOUS
  <2>1. 0 % 128 = 0
    OBVIOUS
  <2>2. k = 2 \/ k = 3 \/ k = 4 \/ k = 5
    OBVIOUS
  <2> QED
    BY SMT, <1>3, <1>10, <2>1, <2>2, BaseIs
<1> QED
  BY <1>11, <1>12, <1>13

\* The bytes of a varint: all but the last say that another follows.
Varint(v) ==
  /\ v \in Seq(Byte) /\ Len(v) \in 1..10 /\ v[Len(v)] < 128
  /\ \A k \in 1..Len(v) - 1 : v[k] >= 128

\* An int is written in as many bytes as its size says, and they hold its digits.
LEMMA VarintIs ==
  ASSUME NEW i \in Int32
  PROVE  /\ Varint(VarintOf(i)) /\ Len(VarintOf(i)) = Int32Size(i)
         /\ \A k \in 1..5 : Digit(i, k) = IF k <= Len(VarintOf(i)) THEN VarintOf(i)[k] % 128 ELSE 0
<1>1. i \in Int /\ \A k \in 1..5 : Digit(i, k) \in 0..127
  BY DigitsAre, Int32Is
<1>2. CASE i < 0
  <2> DEFINE v == [k \in 1..10 |-> IF k <= 5 THEN 128 + Digit(i, k) ELSE IF k < 10 THEN 255 ELSE 1]
  <2>1. VarintOf(i) = v
    BY <1>2 DEF VarintOf
  <2>2. \A k \in 1..10 : /\ k <= 5 => v[k] = 128 + Digit(i, k)
                         /\ k > 5 /\ k < 10 => v[k] = 255
                         /\ k = 10 => v[k] = 1
    OBVIOUS
  <2>3. \A k \in 1..10 : v[k] \in Byte
    BY <1>1 DEF Byte
  <2>4. v \in Seq(Byte) /\ Len(v) = 10
    BY <2>3
  <2> HIDE DEF v
  <2>5. v[10] < 128
    BY <2>2
  <2>6. \A k \in 1..9 : v[k] >= 128
    <3> SUFFICES ASSUME NEW k \in 1..9 PROVE v[k] >= 128
      OBVIOUS
    <3>1. CASE k <= 5
      BY <1>1, <2>2, <3>1
    <3>2. CASE ~(k <= 5)
      BY <2>2, <3>2
    <3> QED
      BY <3>1, <3>2
  <2>7. \A k \in 1..5 : Digit(i, k) = v[k] % 128
    BY <1>1, <2>2
  <2>8. Int32Size(i) = 10
    BY <1>2 DEF Int32Size
  <2> QED
    BY <2>1, <2>4, <2>5, <2>6, <2>7, <2>8 DEF Varint
<1>3. CASE i >= 0
  <2> DEFINE S == {k \in 1..5 : k < 5 => i < Base[k + 1]}
             n == Min(S)
             v == [k \in 1..n |-> IF k < n THEN 128 + Digit(i, k) ELSE Digit(i, k)]
  <2>1. VarintOf(i) = v
    BY <1>1, <1>3 DEF VarintOf
  <2>2. 5 \in S /\ S \subseteq Nat
    OBVIOUS
  <2>3. n \in S /\ \A x \in S : n <= x
    <3> HIDE DEF S
    <3> QED
      BY <2>2, MinIsLeast
  <2>4. n \in 1..5 /\ (n < 5 => i < Base[n + 1])
    BY <2>3
  <2>5. \A k \in 1..5 : k < n => ~(i < Base[k + 1])
    <3> SUFFICES ASSUME NEW k \in 1..5, k < n, i < Base[k + 1] PROVE FALSE
      OBVIOUS
    <3>1. k \in S
      OBVIOUS
    <3> HIDE DEF S, n
    <3> QED
      BY <2>3, <2>4, <3>1
  <2> HIDE DEF S, n
  <2>6. \A k \in 1..n : v[k] = (IF k < n THEN 128 + Digit(i, k) ELSE Digit(i, k)) /\ v[k] \in Byte
    BY <1>1, <2>4 DEF Byte
  <2>7. v \in Seq(Byte) /\ Len(v) = n
    BY <2>4, <2>6
  <2> HIDE DEF v
  <2>8. v[n] < 128 /\ \A k \in 1..n - 1 : v[k] >= 128
    BY <1>1, <2>4, <2>6
  <2>9. \A k \in 2..5 : i < Base[k] <=> k > n
    <3>1. n = 1 \/ n = 2 \/ n = 3 \/ n = 4 \/ n = 5
      BY <2>4
    <3>2. \A k \in 2..5 : k = 2 \/ k = 3 \/ k = 4 \/ k = 5
      OBVIOUS
    <3> DEFINE b == [k \in 2..5 |-> i < Base[k]]
    <3>3. /\ (1 < n => ~(i < Base[2])) /\ (2 < n => ~(i < Base[3])) /\ (3 < n => ~(i < Base[4]))
          /\ (4 < n => ~(i < Base[5]))
      BY <2>4, <2>5
    <3>4. /\ (n = 1 => i < Base[2]) /\ (n = 2 => i < Base[3]) /\ (n = 3 => i < Base[4])
          /\ (n = 4 => i < Base[5])
      BY <2>4
    <3>5. (i < Base[2] => i < Base[3]) /\ (i < Base[3] => i < Base[4]) /\ (i < Base[4] => i < Base[5])
      BY SMT, <1>1, BaseIs
    <3>6. ASSUME NEW k \in 2..5 PROVE i < Base[k] <=> k > n
      BY <2>4, <3>1, <3>2, <3>3, <3>4, <3>5
    <3> QED
      BY <3>6
  <2>10. \A k \in 1..5 : Digit(i, k) = IF k <= n THEN v[k] % 128 ELSE 0
    <3> SUFFICES ASSUME NEW k \in 1..5 PROVE Digit(i, k) = IF k <= n THEN v[k] % 128 ELSE 0
      OBVIOUS
    <3>1. CASE k <= n
      BY <1>1, <2>4, <2>6, <3>1
    <3>2. CASE ~(k <= n)
      <4>1. k \in 2..5 /\ i < Base[k]
        BY <2>4, <2>9, <3>2
      <4> QED
        BY <1>3, <3>2, <4>1, DigitsAre
    <3> QED
      BY <3>1, <3>2
  <2>11. Int32Size(i) = n
    <3>1. {k \in 2..5 : i >= Base[k]} = 2..n
      <4>1. \A k \in 2..5 : i >= Base[k] <=> k <= n
        BY SMT, <1>1, <2>4, <2>9, BaseIs
      <4> QED
        BY <2>4, <4>1
    <3>2. Cardinality(2..n) = n - 1
      <4>1. Cardinality(2..n) = IF 2 > n THEN 0 ELSE n - 2 + 1
        BY <2>4, FS_Interval
      <4> QED
        BY <2>4, <4>1
    <3>3. 1 + (n - 1) = n
      BY <2>4
    <3>4. Int32Size(i) = 1 + Cardinality({k \in 2..5 : i >= Base[k]})
      BY <1>1, <1>3 DEF Int32Size
    <3> QED
      BY <3>1, <3>2, <3>3, <3>4
  <2> QED
    BY <2>1, <2>4, <2>7, <2>8, <2>10, <2>11 DEF Varint
<1> QED
  BY <1>1, <1>2, <1>3

\* The low 32 bits of some digits, with their sign.
LEMMA VarintToIs == ASSUME NEW d, NEW p \in Nat, NEW last \in Nat, \A k \in p..last : d[k] \in Byte
                    PROVE  VarintTo(d, p, last) \in Int32
<1> DEFINE g == [k \in 1..5 |-> IF p + k - 1 <= last THEN d[p + k - 1] % 128 ELSE 0]
<1>1. \A k \in 1..5 : g[k] \in 0..127
  <2> SUFFICES ASSUME NEW k \in 1..5 PROVE g[k] \in 0..127
    OBVIOUS
  <2>1. CASE p + k - 1 <= last
    <3>1. p + k - 1 \in p..last
      BY <2>1
    <3>2. d[p + k - 1] \in 0..255
      BY <3>1 DEF Byte
    <3>3. g[k] = d[p + k - 1] % 128
      BY <2>1
    <3> HIDE DEF g
    <3> QED
      BY <3>2, <3>3
  <2>2. CASE ~(p + k - 1 <= last)
    BY <2>2
  <2> QED
    BY <2>1, <2>2, ZenonT(30)
<1>2. VarintTo(d, p, last)
      = g[1] + Base[2] * g[2] + Base[3] * g[3] + Base[4] * g[4] + Base[5] * (((g[5] + 8) % 16) - 8)
  BY Zenon DEF VarintTo
<1> HIDE DEF g
<1>3. g[1] \in 0..127 /\ g[2] \in 0..127 /\ g[3] \in 0..127 /\ g[4] \in 0..127 /\ g[5] \in 0..127
  BY <1>1
<1>4. (((g[5] + 8) % 16) - 8) \in -8..7
  BY <1>3
<1>5. VarintTo(d, p, last) \in Int /\ 0 - 1 - MaxInt32 <= VarintTo(d, p, last) /\ VarintTo(d, p, last) <= MaxInt32
  <2>1. \A v, w, x, y \in 0..127 : \A z \in -8..7 :
          LET s == v + Base[2] * w + Base[3] * x + Base[4] * y + Base[5] * z
          IN s \in Int /\ 0 - 1 - MaxInt32 <= s /\ s <= MaxInt32
    BY SMT, BaseIs DEF MaxInt32
  <2> DEFINE z == (((g[5] + 8) % 16) - 8)
  <2>2. VarintTo(d, p, last) = g[1] + Base[2] * g[2] + Base[3] * g[3] + Base[4] * g[4] + Base[5] * z
    BY ONLY <1>2, Zenon
  <2>3. z \in -8..7
    BY <1>4
  <2> HIDE DEF z
  <2>4. LET s == g[1] + Base[2] * g[2] + Base[3] * g[3] + Base[4] * g[4] + Base[5] * z
        IN s \in Int /\ 0 - 1 - MaxInt32 <= s /\ s <= MaxInt32
    BY ONLY <1>3, <2>1, <2>3, Zenon
  <2> QED
    BY ONLY <2>2, <2>4, Zenon
<1> QED
  BY <1>5, Int32Is, SMTT(30)

\* The n bytes behind the one at p are those behind the one at q, and so are these two.
SameBytes(d, p, e, q, n) == \A k \in 0..n : d[p + k] = e[q + k]

\* The same digits elsewhere are the same int.
LEMMA VarintMoved ==
  ASSUME NEW d, NEW p \in Nat, NEW n \in Nat, NEW e, NEW q \in Nat, SameBytes(d, p, e, q, n)
  PROVE  VarintTo(d, p, p + n) = VarintTo(e, q, q + n)
<1> DEFINE g == [k \in 1..5 |-> IF p + k - 1 <= p + n THEN d[p + k - 1] % 128 ELSE 0]
           h == [k \in 1..5 |-> IF q + k - 1 <= q + n THEN e[q + k - 1] % 128 ELSE 0]
<1>1. ASSUME NEW k \in 1..5 PROVE g[k] = h[k]
  <2>1. CASE k - 1 <= n
    <3>1. k - 1 \in 0..n /\ p + (k - 1) = p + k - 1 /\ q + (k - 1) = q + k - 1
      BY <2>1
    <3>2. d[p + (k - 1)] = e[q + (k - 1)]
      BY <3>1 DEF SameBytes
    <3>3. p + k - 1 <= p + n /\ q + k - 1 <= q + n
      BY <2>1
    <3> QED
      BY <3>1, <3>2, <3>3, Zenon
  <2>2. CASE ~(k - 1 <= n)
    <3>1. ~(p + k - 1 <= p + n) /\ ~(q + k - 1 <= q + n)
      BY <2>2
    <3> QED
      BY <3>1, Zenon
  <2> QED
    BY <2>1, <2>2
<1>2. g = h
  BY <1>1
<1>3. VarintTo(d, p, p + n)
      = g[1] + Base[2] * g[2] + Base[3] * g[3] + Base[4] * g[4] + Base[5] * (((g[5] + 8) % 16) - 8)
  BY Zenon DEF VarintTo
<1>4. VarintTo(e, q, q + n)
      = h[1] + Base[2] * h[2] + Base[3] * h[3] + Base[4] * h[4] + Base[5] * (((h[5] + 8) % 16) - 8)
  BY Zenon DEF VarintTo
<1> HIDE DEF g, h
<1> QED
  BY <1>2, <1>3, <1>4, Zenon

\* A byte says one or the other.
LEMMA NotBoth == \A x \in 0..255 : ~(x < 128) <=> x >= 128
OBVIOUS

\* The byte at q is the first that says that no other follows.
Ends(d, p, q) == q \in p..p + 9 /\ q <= Len(d) /\ d[q] < 128 /\ \A j \in p..q - 1 : d[j] >= 128

\* A varint is read as far as the byte that ends it.
LEMMA VarintEnds ==
  ASSUME NEW d \in Seq(Byte), NEW p \in Nat \ {0}, NEW q, Ends(d, p, q)
  PROVE  ReadVarint(d, p) = [ok |-> TRUE, value |-> VarintTo(d, p, q), next |-> q + 1]
<1> DEFINE ends == {x \in p..p + 9 : x <= Len(d) /\ d[x] < 128}
<1>1. q \in ends /\ ends \subseteq Nat
  BY DEF Ends
<1>2. Min(ends) \in ends /\ \A x \in ends : Min(ends) <= x
  <2> HIDE DEF ends
  <2> QED
    BY <1>1, MinIsLeast
<1>3. Min(ends) = q
  <2>1. Min(ends) <= q /\ Min(ends) \in p..p + 9 /\ d[Min(ends)] < 128 /\ q \in Nat
    BY <1>1, <1>2
  <2> DEFINE m == Min(ends)
  <2> HIDE DEF m
  <2>2. ~(m < q)
    <3> SUFFICES ASSUME m < q PROVE FALSE
      OBVIOUS
    <3>1. m \in p..q - 1 /\ m \in p..p + 9 /\ d[m] < 128 /\ m <= Len(d)
      BY <2>1 DEF m, Ends
    <3>2. m \in 1..Len(d)
      BY <3>1
    <3>3. d[m] \in 0..255
      BY ONLY <3>2, d \in Seq(Byte), ElementOfSeq DEF Byte
    <3>4. d[m] >= 128
      BY <3>1 DEF Ends
    <3> QED
      BY ONLY <3>1, <3>3, <3>4, NotBoth, Zenon
  <2>3. m <= q /\ m \in Nat
    BY <2>1 DEF m
  <2>4. m = q
    BY <2>1, <2>2, <2>3
  <2> QED
    BY <2>4 DEF m
<1>4. ends # {}
  BY <1>1
<1>5. ReadVarint(d, p) = IF ends = {} THEN Fail
                         ELSE [ok |-> TRUE, value |-> VarintTo(d, p, Min(ends)), next |-> Min(ends) + 1]
  BY Zenon DEF ReadVarint
<1> HIDE DEF ends
<1> QED
  BY <1>3, <1>4, <1>5, Zenon

\* Either a byte ends the varint, or there is none.
LEMMA ReadVarintIs ==
  ASSUME NEW d \in Seq(Byte), NEW p \in Nat \ {0}
  PROVE  \/ \E q \in Nat : Ends(d, p, q)
         \/ ReadVarint(d, p) = Fail /\ \A q \in p..p + 9 : q <= Len(d) => ~(d[q] < 128)
<1> DEFINE ends == {x \in p..p + 9 : x <= Len(d) /\ d[x] < 128}
<1>1. CASE ends = {}
  <2>1. ReadVarint(d, p) = Fail
    BY <1>1, Zenon DEF ReadVarint
  <2> QED
    BY <1>1, <2>1
<1>2. CASE ends # {}
  <2>1. ends \subseteq Nat
    OBVIOUS
  <2>2. Min(ends) \in ends /\ \A x \in ends : Min(ends) <= x
    <3> HIDE DEF ends
    <3> QED
      BY <1>2, <2>1, MinIsLeast
  <2> DEFINE m == Min(ends)
  <2>3. m \in p..p + 9 /\ m <= Len(d) /\ d[m] < 128
    BY <2>2
  <2> HIDE DEF m
  <2>4. ASSUME NEW j \in p..m - 1 PROVE d[j] >= 128
    <3>1. j \in p..p + 9 /\ j <= Len(d) /\ ~(m <= j) /\ j \in 1..Len(d)
      BY <2>3
    <3>2. j \notin ends
      BY <2>2, <3>1 DEF m
    <3>3. d[j] \in 0..255
      BY ONLY <3>1, d \in Seq(Byte), ElementOfSeq DEF Byte
    <3>4. ~(d[j] < 128)
      BY <3>1, <3>2
    <3> QED
      BY ONLY <3>3, <3>4, NotBoth, Zenon
  <2>5. Ends(d, p, m) /\ m \in Nat
    BY <2>3, <2>4 DEF Ends
  <2> QED
    BY <2>5
<1> QED
  BY <1>1, <1>2

\* What reading a varint gives.
LEMMA ReadVarintType ==
  ASSUME NEW d \in Seq(Byte), NEW p \in Nat \ {0}
  PROVE  LET r == ReadVarint(d, p) IN
         \/ r = Fail
         \/ /\ r.ok = TRUE /\ r.value \in Int32 /\ r.next \in Nat /\ p + 1 <= r.next /\ r.next <= Len(d) + 1
            /\ r = [ok |-> TRUE, value |-> r.value, next |-> r.next]
            /\ Ends(d, p, r.next - 1)
<1> SUFFICES ASSUME NEW q \in Nat, Ends(d, p, q)
             PROVE  LET r == ReadVarint(d, p) IN
                    /\ r.ok = TRUE /\ r.value \in Int32 /\ r.next \in Nat /\ p + 1 <= r.next /\ r.next <= Len(d) + 1
                    /\ r = [ok |-> TRUE, value |-> r.value, next |-> r.next]
                    /\ Ends(d, p, r.next - 1)
  BY ReadVarintIs, Zenon
<1> DEFINE r == ReadVarint(d, p)
           v == VarintTo(d, p, q)
<1>1. r = [ok |-> TRUE, value |-> v, next |-> q + 1]
  BY VarintEnds, Zenon
<1>2. v \in Int32
  <2>1. \A k \in p..q : d[k] \in Byte
    BY DEF Ends
  <2> QED
    BY <2>1, VarintToIs
<1> HIDE DEF r, v
<1>3. r.ok = TRUE /\ r.value = v /\ r.next = q + 1
  BY <1>1
<1>4. (q + 1) - 1 = q /\ p + 1 <= q + 1 /\ q + 1 <= Len(d) + 1
  BY DEF Ends
<1> QED
  BY <1>1, <1>2, <1>3, <1>4 DEF r

\* From q on, e holds what d holds from p on, and perhaps more.
Behind(d, p, e, q) ==
  /\ p \in Nat \ {0} /\ q \in Nat \ {0} /\ p <= Len(d) + 1 /\ q + (Len(d) - p) <= Len(e)
  /\ \A k \in 0..Len(d) - p : e[q + k] = d[p + k]

\* Then the same holds further on.
LEMMA BehindMoved ==
  ASSUME NEW d \in Seq(Byte), NEW e \in Seq(Byte), NEW p, NEW q, Behind(d, p, e, q),
         NEW c \in Nat, p <= c, c <= Len(d) + 1
  PROVE  Behind(d, c, e, q + (c - p)) /\ (q + (c - p)) + (Len(d) - c) = q + (Len(d) - p)
<1>1. p \in Nat \ {0} /\ q \in Nat \ {0} /\ Len(d) \in Nat /\ Len(e) \in Nat
  BY DEF Behind
<1> DEFINE n == Len(d)
           m == Len(e)
<1>2. n \in Nat /\ m \in Nat /\ c <= n + 1 /\ q + (n - p) <= m
  BY <1>1 DEF Behind
<1>3. \A k \in 0..n - p : e[q + k] = d[p + k]
  BY DEF Behind
<1> HIDE DEF n, m
<1>4. /\ c \in Nat \ {0} /\ q + (c - p) \in Nat \ {0} /\ (q + (c - p)) + (n - c) = q + (n - p)
      /\ (q + (c - p)) + (n - c) <= m
  BY <1>1, <1>2
<1>5. ASSUME NEW k \in 0..n - c PROVE e[(q + (c - p)) + k] = d[c + k]
  <2>1. (c - p) + k \in 0..n - p /\ q + ((c - p) + k) = (q + (c - p)) + k /\ p + ((c - p) + k) = c + k
    BY <1>1, <1>2
  <2> QED
    BY <1>3, <2>1
<1> QED
  BY <1>2, <1>4, <1>5 DEF Behind, n, m

\* A varint ends there as it ends here.
LEMMA EndsThere ==
  ASSUME NEW d \in Seq(Byte), NEW e \in Seq(Byte), NEW p, NEW q, Behind(d, p, e, q),
         NEW x \in Nat, Ends(d, p, x)
  PROVE  Ends(e, q, q + (x - p)) /\ VarintTo(e, q, q + (x - p)) = VarintTo(d, p, x)
<1> DEFINE n == x - p
<1>1. p \in Nat \ {0} /\ q \in Nat \ {0} /\ Len(d) \in Nat /\ Len(e) \in Nat /\ q + (Len(d) - p) <= Len(e)
  BY DEF Behind
<1>2. n \in 0..9 /\ p + n = x /\ p + n <= Len(d) /\ d[p + n] < 128 /\ \A j \in p..(p + n) - 1 : d[j] >= 128
  BY <1>1 DEF Ends
<1> HIDE DEF n
<1>3. \A k \in 0..n : k \in 0..Len(d) - p
  BY <1>1, <1>2
<1>4. \A k \in 0..n : e[q + k] = d[p + k]
  BY <1>3 DEF Behind
<1>5. q + n \in q..q + 9 /\ q + n <= Len(e) /\ e[q + n] < 128
  <2>1. n \in 0..n
    BY <1>2
  <2>2. q + n \in q..q + 9 /\ q + n <= Len(e)
    BY <1>1, <1>2
  <2> QED
    BY <1>2, <1>4, <2>1, <2>2
<1>6. ASSUME NEW j \in q..(q + n) - 1 PROVE e[j] >= 128
  <2>1. j - q \in 0..n /\ q + (j - q) = j /\ p + (j - q) \in p..(p + n) - 1
    BY <1>1, <1>2
  <2> QED
    BY <1>2, <1>4, <2>1
<1>7. Ends(e, q, q + n)
  BY <1>5, <1>6 DEF Ends
<1>8. VarintTo(d, p, p + n) = VarintTo(e, q, q + n)
  <2>1. p \in Nat /\ q \in Nat /\ n \in Nat
    BY ONLY <1>1, <1>2
  <2>2. SameBytes(d, p, e, q, n)
    BY ONLY <1>4, Zenon DEF SameBytes
  <2> QED
    BY ONLY <2>1, <2>2, VarintMoved
<1> QED
  BY <1>2, <1>7, <1>8 DEF n

\* So a varint that is read here is read there, and where nothing more follows one that
\* is not read here is not read there.
LEMMA VarintThere ==
  ASSUME NEW d \in Seq(Byte), NEW e \in Seq(Byte), NEW p, NEW q, Behind(d, p, e, q)
  PROVE  LET r == ReadVarint(d, p) IN
         /\ r.ok => ReadVarint(e, q) = [ok |-> TRUE, value |-> r.value, next |-> q + (r.next - p)]
         /\ ~r.ok /\ q + (Len(d) - p) = Len(e) => ReadVarint(e, q) = Fail
<1> DEFINE r == ReadVarint(d, p)
           s == ReadVarint(e, q)
<1>1. p \in Nat \ {0} /\ q \in Nat \ {0} /\ Len(d) \in Nat /\ Len(e) \in Nat /\ q + (Len(d) - p) <= Len(e)
  BY DEF Behind
<1>2. ASSUME r.ok PROVE s = [ok |-> TRUE, value |-> r.value, next |-> q + (r.next - p)]
  <2>1. r # Fail
    BY <1>2 DEF Fail
  <2>2. PICK x \in Nat : Ends(d, p, x)
    BY <1>1, <2>1, ReadVarintIs
  <2>3. r = [ok |-> TRUE, value |-> VarintTo(d, p, x), next |-> x + 1]
    BY <1>1, <2>2, VarintEnds
  <2>4. Ends(e, q, q + (x - p)) /\ VarintTo(e, q, q + (x - p)) = VarintTo(d, p, x)
    BY <2>2, EndsThere
  <2>5. s = [ok |-> TRUE, value |-> VarintTo(e, q, q + (x - p)), next |-> (q + (x - p)) + 1]
    BY <1>1, <2>4, VarintEnds
  <2> HIDE DEF r, s
  <2>6. r.value = VarintTo(d, p, x) /\ r.next = x + 1
    BY <2>3
  <2>7. (q + (x - p)) + 1 = q + ((x + 1) - p)
    BY <1>1
  <2> QED
    BY ONLY <2>4, <2>5, <2>6, <2>7, Zenon
<1>3. ASSUME ~r.ok, q + (Len(d) - p) = Len(e) PROVE s = Fail
  <2> SUFFICES ASSUME NEW y \in Nat, Ends(e, q, y) PROVE FALSE
    BY <1>1, ReadVarintIs
  <2>1. Behind(e, q, d, p)
    <3>1. q <= Len(e) + 1 /\ p + (Len(e) - q) <= Len(d) /\ Len(e) - q = Len(d) - p
      BY <1>1, <1>3 DEF Behind
    <3>2. \A k \in 0..Len(e) - q : d[p + k] = e[q + k]
      BY <3>1 DEF Behind
    <3> QED
      BY <1>1, <3>1, <3>2 DEF Behind
  <2>2. Ends(d, p, p + (y - q))
    BY <2>1, EndsThere
  <2>3. r = [ok |-> TRUE, value |-> VarintTo(d, p, p + (y - q)), next |-> (p + (y - q)) + 1]
    BY <1>1, <2>2, VarintEnds
  <2> HIDE DEF r, s
  <2> QED
    BY <1>3, <2>3
<1> QED
  BY <1>2, <1>3

\* An int that was written is read.
LEMMA WrittenIsRead ==
  ASSUME NEW i \in Int32, NEW d \in Seq(Byte), NEW p \in Nat \ {0},
         p + Len(VarintOf(i)) - 1 <= Len(d),
         \A k \in 1..Len(VarintOf(i)) : d[p + k - 1] = VarintOf(i)[k]
  PROVE  ReadVarint(d, p) = [ok |-> TRUE, value |-> i, next |-> p + Len(VarintOf(i))]
<1> DEFINE v == VarintOf(i)
           n == Len(v)
           x == p + n - 1
<1>1. v \in Seq(Byte) /\ n \in 1..10 /\ v[n] < 128 /\ \A k \in 1..n - 1 : v[k] >= 128
  BY VarintIs DEF Varint
<1>2. \A k \in 1..5 : Digit(i, k) = IF k <= n THEN v[k] % 128 ELSE 0
  BY VarintIs
<1>3. \A k \in 1..n : d[p + k - 1] = v[k]
  OBVIOUS
<1>4. x \in Nat /\ x <= Len(d)
  BY <1>1
<1> HIDE DEF v, n
<1>5. d[x] < 128
  <2>1. n \in 1..n
    BY <1>1
  <2> QED
    BY <1>1, <1>3, <2>1
<1>6. ASSUME NEW j \in p..x - 1 PROVE d[j] >= 128
  <2>1. j - p + 1 \in 1..n /\ j - p + 1 \in 1..n - 1 /\ p + (j - p + 1) - 1 = j
    BY <1>1
  <2> QED
    BY <1>1, <1>3, <2>1
<1>7. Ends(d, p, x)
  BY <1>1, <1>4, <1>5, <1>6 DEF Ends
<1>8. ReadVarint(d, p) = [ok |-> TRUE, value |-> VarintTo(d, p, x), next |-> x + 1]
  BY <1>4, <1>7, VarintEnds
<1>9. VarintTo(d, p, x) = i
  <2> DEFINE g == [k \in 1..5 |-> IF p + k - 1 <= x THEN d[p + k - 1] % 128 ELSE 0]
  <2>1. ASSUME NEW k \in 1..5 PROVE g[k] = Digit(i, k)
    <3>1. CASE k <= n
      <4>1. k \in 1..n /\ p + k - 1 <= x
        BY <1>1, <3>1
      <4>2. d[p + k - 1] = v[k]
        BY <1>3, <4>1
      <4> QED
        BY ONLY <1>2, <3>1, <4>1, <4>2, k \in 1..5, Zenon
    <3>2. CASE ~(k <= n)
      <4>1. ~(p + k - 1 <= x)
        BY <1>1, <3>2
      <4> QED
        BY ONLY <1>2, <3>2, <4>1, k \in 1..5, Zenon
    <3> QED
      BY <3>1, <3>2
  <2>2. VarintTo(d, p, x)
        = g[1] + Base[2] * g[2] + Base[3] * g[3] + Base[4] * g[4] + Base[5] * (((g[5] + 8) % 16) - 8)
    BY Zenon DEF VarintTo
  <2>3. /\ g[1] = Digit(i, 1) /\ g[2] = Digit(i, 2) /\ g[3] = Digit(i, 3) /\ g[4] = Digit(i, 4)
        /\ g[5] = Digit(i, 5)
    <3>1. 1 \in 1..5 /\ 2 \in 1..5 /\ 3 \in 1..5 /\ 4 \in 1..5 /\ 5 \in 1..5
      OBVIOUS
    <3> HIDE DEF g
    <3> QED
      BY <2>1, <3>1
  <2> HIDE DEF g
  <2> QED
    BY ONLY <2>2, <2>3, DigitsAre, i \in Int32, Zenon
<1>10. x + 1 = p + n
  BY <1>1
<1> QED
  BY ONLY <1>8, <1>9, <1>10, Zenon DEF n, v

\* A varint without its last byte is not read.
LEMMA CutIsNotRead ==
  ASSUME NEW d \in Seq(Byte), NEW p \in Nat \ {0}, \A k \in p..Len(d) : d[k] >= 128
  PROVE  ReadVarint(d, p) = Fail
<1> SUFFICES ASSUME NEW q \in Nat, Ends(d, p, q) PROVE FALSE
  BY ReadVarintIs
<1>1. q \in p..Len(d) /\ d[q] < 128 /\ q \in 1..Len(d)
  BY DEF Ends
<1>2. d[q] \in 0..255
  BY ONLY <1>1, d \in Seq(Byte), ElementOfSeq DEF Byte
<1>3. d[q] >= 128
  BY <1>1
<1> QED
  BY ONLY <1>1, <1>2, <1>3, NotBoth, Zenon

\* A part of the bytes.
LEMMA PartIs ==
  ASSUME NEW d \in Seq(Byte), NEW x \in Nat \ {0}, NEW y \in Int, y <= Len(d)
  PROVE  /\ SubSeq(d, x, y) \in Seq(Byte) /\ Len(SubSeq(d, x, y)) = IF x <= y THEN y - x + 1 ELSE 0
         /\ \A k \in 1..y - x + 1 : SubSeq(d, x, y)[k] = d[x + k - 1]
<1>1. \A k \in x..y : d[k] \in Byte
  <2> SUFFICES ASSUME NEW k \in x..y PROVE d[k] \in Byte
    OBVIOUS
  <2>1. k \in 1..Len(d)
    OBVIOUS
  <2> QED
    BY <2>1, ElementOfSeq
<1>2. x \in Int
  OBVIOUS
<1> QED
  BY ONLY <1>1, <1>2, y \in Int, SubSeqProperties

SamePart(e, q, z, d, p, y) == SubSeq(e, q, z) = SubSeq(d, p, y)

\* The same part of the bytes there.
LEMMA PartThere ==
  ASSUME NEW d \in Seq(Byte), NEW e \in Seq(Byte), NEW p, NEW q, Behind(d, p, e, q), NEW y \in Int, y <= Len(d),
         NEW z, z = q + (y - p)
  PROVE  SamePart(e, q, z, d, p, y)
<1>1. p \in Nat \ {0} /\ q \in Nat \ {0} /\ Len(d) \in Nat /\ Len(e) \in Nat /\ q + (Len(d) - p) <= Len(e)
  BY DEF Behind
<1>2. \A k \in 0..Len(d) - p : e[q + k] = d[p + k]
  BY DEF Behind
<1> DEFINE s == SubSeq(d, p, y)
           t == SubSeq(e, q, z)
<1>3. z \in Int /\ z <= Len(e) /\ (p <= y <=> q <= z) /\ z - q = y - p
  BY <1>1
<1>4. /\ s \in Seq(Byte) /\ Len(s) = (IF p <= y THEN y - p + 1 ELSE 0)
      /\ \A k \in 1..y - p + 1 : s[k] = d[p + k - 1]
  BY <1>1, PartIs
<1>5. /\ t \in Seq(Byte) /\ Len(t) = (IF q <= z THEN z - q + 1 ELSE 0)
      /\ \A k \in 1..z - q + 1 : t[k] = e[q + k - 1]
  BY <1>1, <1>3, PartIs
<1> HIDE DEF s, t
<1>6. Len(s) = Len(t)
  BY <1>3, <1>4, <1>5
<1>7. ASSUME NEW k \in 1..Len(s) PROVE s[k] = t[k]
  <2>1. k \in 1..y - p + 1 /\ k \in 1..z - q + 1 /\ k - 1 \in 0..Len(d) - p
        /\ p + (k - 1) = p + k - 1 /\ q + (k - 1) = q + k - 1
    BY <1>1, <1>3, <1>4
  <2>2. e[q + (k - 1)] = d[p + (k - 1)]
    BY <1>2, <2>1
  <2> QED
    BY ONLY <1>4, <1>5, <2>1, <2>2, Zenon
<1>8. s = t
  BY ONLY <1>4, <1>5, <1>6, <1>7, SeqEqual
<1> QED
  BY <1>8 DEF s, t, SamePart

\* What reading a counted text gives.
LEMMA CountedIs ==
  ASSUME NEW d \in Seq(Byte), NEW p \in Nat \ {0}
  PROVE  LET r == Counted(d, ReadVarint(d, p)) IN
         /\ r.ok \in BOOLEAN /\ r.value \in Text /\ r = [ok |-> r.ok, value |-> r.value, next |-> r.next]
         /\ r.ok => r.next \in Nat /\ p + 1 <= r.next /\ r.next <= Len(d) + 1
<1> DEFINE c == ReadVarint(d, p)
           v == c.value
           m == Min({c.next + v - 1, Len(d)})
           s == SubSeq(d, c.next, m)
           r == Counted(d, c)
<1>1. CASE ~c.ok \/ v < 0
  <2>1. r = [Fail EXCEPT !.value = <<>>]
    BY <1>1, Zenon DEF Counted
  <2>2. r = [ok |-> FALSE, value |-> <<>>, next |-> 0]
    BY <2>1 DEF Fail
  <2>3. <<>> \in Text
    <3>1. <<>> \in Seq(Byte) /\ Len(<<>>) = 0 /\ 0 \in Int32
      BY Int32Is
    <3> QED
      BY <3>1 DEF Text
  <2> HIDE DEF r
  <2> QED
    BY <2>2, <2>3 DEF r, c
<1>2. CASE ~(~c.ok \/ v < 0)
  <2>1. v \in Int32 /\ c.next \in Nat /\ p + 1 <= c.next /\ c.next <= Len(d) + 1
    <3>1. c # Fail
      BY <1>2 DEF Fail
    <3> QED
      BY <3>1, ReadVarintType
  <2>2. v \in Nat /\ v \in Int32
    BY <1>2, <2>1, Int32Is
  <2>3. r = [ok |-> c.next + v <= Len(d) + 1, next |-> c.next + v, value |-> s]
    BY <1>2, Zenon DEF Counted
  <2> HIDE DEF c, v, r
  <2>4. m \in Int /\ m <= Len(d) /\ m <= c.next + v - 1
    <3>1. c.next + v - 1 \in Nat /\ Len(d) \in Nat
      BY <2>1, <2>2
    <3> QED
      BY <3>1, MinOfTwo
  <2> HIDE DEF m
  <2>5. s \in Seq(Byte) /\ Len(s) = IF c.next <= m THEN m - c.next + 1 ELSE 0
    BY <2>1, <2>4, PartIs
  <2> HIDE DEF s
  <2>6. Len(s) \in Nat /\ Len(s) <= v
    BY <2>1, <2>2, <2>4, <2>5
  <2>7. s \in Text
    BY <2>2, <2>5, <2>6, Int32Is DEF Text
  <2>8. c.next + v \in Nat /\ p + 1 <= c.next + v
    BY <2>1, <2>2
  <2> DEFINE k == c.next + v <= Len(d) + 1
             x == c.next + v
  <2>9. k \in BOOLEAN /\ x \in Nat /\ p + 1 <= x /\ (k => x <= Len(d) + 1)
    BY <2>8
  <2>10. r = [ok |-> k, value |-> s, next |-> x]
    BY <2>3, Zenon
  <2> HIDE DEF k, x
  <2>11. /\ r.ok \in BOOLEAN /\ r.value \in Text /\ r = [ok |-> r.ok, value |-> r.value, next |-> r.next]
         /\ r.ok => r.next \in Nat /\ p + 1 <= r.next /\ r.next <= Len(d) + 1
    BY ONLY <2>7, <2>9, <2>10
  <2> QED
    BY <2>11 DEF r, c
<1> QED
  BY <1>1, <1>2

\* What is read at p here is read at q there.
Moved(r, s, p, q) == r.ok => s.ok /\ s.value = r.value /\ s.next = q + (r.next - p)

\* It is read in both places or in none.
Alike(r, s) == s.ok = r.ok /\ s.value = r.value

\* A counted text is read there as it is here.
LEMMA CountedThere ==
  ASSUME NEW d \in Seq(Byte), NEW e \in Seq(Byte), NEW p, NEW q, Behind(d, p, e, q)
  PROVE  LET r == Counted(d, ReadVarint(d, p))
             s == Counted(e, ReadVarint(e, q))
         IN Moved(r, s, p, q) /\ (q + (Len(d) - p) = Len(e) => Alike(r, s))
<1> DEFINE a == ReadVarint(d, p)
           b == ReadVarint(e, q)
           r == Counted(d, a)
           s == Counted(e, b)
           v == a.value
           l == Len(d)
           m == Len(e)
<1>1. /\ p \in Nat \ {0} /\ q \in Nat \ {0} /\ l \in Nat /\ m \in Nat /\ q + (l - p) <= m
  BY DEF Behind
<1>2. /\ a.ok => b = [ok |-> TRUE, value |-> v, next |-> q + (a.next - p)]
      /\ ~a.ok /\ q + (l - p) = m => b = Fail
  BY VarintThere
<1>3. /\ r = IF ~a.ok \/ v < 0 THEN [Fail EXCEPT !.value = <<>>]
             ELSE [ok |-> a.next + v <= l + 1, next |-> a.next + v,
                   value |-> SubSeq(d, a.next, Min({a.next + v - 1, l}))]
      /\ s = IF ~b.ok \/ b.value < 0 THEN [Fail EXCEPT !.value = <<>>]
             ELSE [ok |-> b.next + b.value <= m + 1, next |-> b.next + b.value,
                   value |-> SubSeq(e, b.next, Min({b.next + b.value - 1, m}))]
  BY Zenon DEF Counted
<1>4. Fail.ok = FALSE /\ [Fail EXCEPT !.value = <<>>].ok = FALSE
  BY DEF Fail
<1>5. CASE ~a.ok
  <2>1. r.ok = FALSE
    BY <1>3, <1>4, <1>5
  <2>2. q + (l - p) = m => s = r
    <3>1. q + (l - p) = m => ~b.ok
      BY <1>2, <1>4, <1>5
    <3> HIDE DEF a, b, r, s
    <3> QED
      BY ONLY <1>3, <1>5, <3>1, Zenon
  <2> HIDE DEF r, s, l, m
  <2> QED
    BY <2>1, <2>2 DEF Moved, Alike, r, s, l, m, a, b
<1>6. CASE a.ok /\ v < 0
  <2>1. b.ok /\ b.value = v
    BY <1>2, <1>6
  <2>2. r = [Fail EXCEPT !.value = <<>>] /\ s = [Fail EXCEPT !.value = <<>>]
    BY <1>3, <1>6, <2>1
  <2> HIDE DEF r, s
  <2>3. r.ok = FALSE /\ s = r
    BY <1>4, <2>2
  <2> QED
    BY <2>3 DEF Moved, Alike, r, s, l, m, a, b
<1>7. CASE a.ok /\ ~(v < 0)
  <2>1. /\ v \in Int32 /\ a.next \in Nat /\ p + 1 <= a.next /\ a.next <= l + 1
    <3>1. a # Fail
      BY <1>4, <1>7
    <3> QED
      BY <1>1, <3>1, ReadVarintType
  <2>2. v \in Nat
    BY <1>7, <2>1, Int32Is
  <2> DEFINE c == a.next
             f == q + (c - p)
  <2>3. b.ok = TRUE /\ b.value = v /\ b.next = f
    BY <1>2, <1>7
  <2>4. Behind(d, c, e, f) /\ f + (l - c) = q + (l - p)
    <3>1. c \in Nat /\ p <= c /\ c <= Len(d) + 1
      BY <1>1, <2>1
    <3> HIDE DEF a, c
    <3>2. Behind(d, c, e, q + (c - p)) /\ (q + (c - p)) + (Len(d) - c) = q + (Len(d) - p)
      BY ONLY <3>1, BehindMoved, d \in Seq(Byte), e \in Seq(Byte), Behind(d, p, e, q)
    <3> QED
      BY ONLY <3>2 DEF l, f
  <2> DEFINE y == Min({c + v - 1, l})
             z == Min({f + v - 1, m})
             g == c + v <= l + 1
             h == f + v <= m + 1
  <2>5. r = [ok |-> g, next |-> c + v, value |-> SubSeq(d, c, y)]
    BY <1>3, <1>7, Zenon
  <2>6. s = [ok |-> h, next |-> f + v, value |-> SubSeq(e, f, z)]
    <3> HIDE DEF a, b, s, f, m
    <3> QED
      BY ONLY <1>3, <1>7, <2>3, Zenon DEF z, h
  <2> HIDE DEF a, b, r, s, v, l, m
  <2>7. c \in Nat /\ f \in Nat /\ p <= c
    BY <1>1, <2>1
  <2>8. /\ y = (IF c + v - 1 <= l THEN c + v - 1 ELSE l)
        /\ z = (IF f + v - 1 <= m THEN f + v - 1 ELSE m)
    <3>1. c + v - 1 \in Int /\ f + v - 1 \in Int /\ l \in Int /\ m \in Int
      BY <1>1, <2>2, <2>7
    <3> QED
      BY <3>1, MinOfTwo
  <2>90. /\ f = q + (c - p) /\ (g <=> c + v <= l + 1) /\ (h <=> f + v <= m + 1) /\ c <= l + 1
    BY <2>1 DEF l
  <2> HIDE DEF c, f, y, z, g, h
  <2>9. g \/ f + (l - c) = m => z = f + (y - c)
    BY ONLY <1>1, <2>2, <2>4, <2>7, <2>8, <2>90
  <2>10. y \in Int /\ y <= l
    BY <1>1, <2>2, <2>7, <2>8
  <2>11. SubSeq(e, f, f + (y - c)) = SubSeq(d, c, y)
    <3>1. Behind(d, c, e, f) /\ y \in Int /\ y <= Len(d)
      BY ONLY <2>4, <2>10 DEF l
    <3> DEFINE x == f + (y - c)
    <3>2. x = f + (y - c)
      OBVIOUS
    <3> HIDE DEF x
    <3>3. SamePart(e, f, x, d, c, y)
      BY ONLY <3>1, <3>2, PartThere, d \in Seq(Byte), e \in Seq(Byte)
    <3> QED
      BY ONLY <3>3, Zenon DEF x, SamePart
  <2>12. /\ g => h
         /\ f + (l - c) = m => (h <=> g)
    BY ONLY <1>1, <2>2, <2>4, <2>7, <2>90
  <2>13. f + v = q + ((c + v) - p)
    BY ONLY <1>1, <2>2, <2>7, <2>90
  <2>14. r.ok = g /\ s.ok = h /\ r.next = c + v /\ s.next = f + v /\ r.value = SubSeq(d, c, y)
         /\ s.value = SubSeq(e, f, z)
    BY ONLY <2>5, <2>6, Zenon
  <2>15. Moved(r, s, p, q)
    <3> SUFFICES ASSUME g PROVE s.ok /\ s.value = r.value /\ s.next = q + (r.next - p)
      BY <2>14, Zenon DEF Moved
    <3>1. z = f + (y - c) /\ h
      BY <2>9, <2>12
    <3> QED
      BY ONLY <3>1, <2>11, <2>13, <2>14, Zenon
  <2>16. q + (l - p) = m => Alike(r, s)
    <3> SUFFICES ASSUME q + (l - p) = m PROVE Alike(r, s)
      OBVIOUS
    <3>1. f + (l - c) = m
      BY <2>4
    <3>2. z = f + (y - c) /\ (h <=> g)
      BY <2>9, <2>12, <3>1
    <3>3. g \in BOOLEAN /\ h \in BOOLEAN
      BY DEF g, h
    <3>4. g = h
      BY ONLY <3>2, <3>3, Zenon
    <3> QED
      BY ONLY <2>11, <2>14, <3>2, <3>4, Zenon DEF Alike
  <2> QED
    BY <2>15, <2>16 DEF r, s, a, b, l, m
<1> QED
  BY <1>5, <1>6, <1>7

\* What reading a value gives, by its wire type.
LEMMA ReadValueIs ==
  ASSUME NEW d \in Seq(Byte), NEW p \in Nat \ {0}, NEW w \in 0..7
  PROVE  LET r == ReadValue(d, p, w) IN
         /\ r.ok \in BOOLEAN
         /\ r.ok => r.next \in Nat /\ p <= r.next /\ r.next <= Len(d) + 1
         /\ w = 0 => r.value \in Int32
         /\ w = 2 => r.value \in Text
<1> DEFINE r == ReadValue(d, p, w)
<1>1. Fail.ok = FALSE /\ Fail.value = 0 /\ 0 \in Int32
  BY Int32Is DEF Fail
<1>2. CASE w = 0
  <2>1. r = ReadVarint(d, p)
    <3>1. ~(w = 1) /\ ~(w = 2) /\ ~(w = 5)
      BY <1>2
    <3> QED
      BY <1>2, <3>1, Zenon DEF ReadValue
  <2> DEFINE s == ReadVarint(d, p)
  <2>2. \/ s = Fail
        \/ s.ok = TRUE /\ s.value \in Int32 /\ s.next \in Nat /\ p + 1 <= s.next /\ s.next <= Len(d) + 1
    BY ReadVarintType
  <2> HIDE DEF s
  <2>3. /\ s.ok \in BOOLEAN /\ s.value \in Int32
        /\ s.ok => s.next \in Nat /\ p <= s.next /\ s.next <= Len(d) + 1
    <3>1. CASE s = Fail
      BY <1>1, <3>1
    <3>2. CASE s.ok = TRUE /\ s.value \in Int32 /\ s.next \in Nat /\ p + 1 <= s.next /\ s.next <= Len(d) + 1
      <4>1. p <= s.next
        BY <3>2
      <4>2. s.ok \in BOOLEAN
        BY ONLY <3>2
      <4> QED
        BY ONLY <3>2, <4>1, <4>2
    <3> QED
      BY ONLY <2>2, <3>1, <3>2
  <2> HIDE DEF r
  <2> QED
    BY <1>2, <2>1, <2>3 DEF r, s
<1>3. CASE w = 2
  <2>1. r = Counted(d, ReadVarint(d, p))
    <3>1. ~(w = 0) /\ ~(w = 1) /\ ~(w = 5)
      BY <1>3
    <3> QED
      BY <1>3, <3>1, Zenon DEF ReadValue
  <2> DEFINE s == Counted(d, ReadVarint(d, p))
  <2>2. /\ s.ok \in BOOLEAN /\ s.value \in Text
        /\ s.ok => s.next \in Nat /\ p + 1 <= s.next /\ s.next <= Len(d) + 1
    BY CountedIs
  <2> HIDE DEF s, r
  <2>3. s.ok => s.next \in Nat /\ p <= s.next /\ s.next <= Len(d) + 1
    BY <2>2
  <2> QED
    BY <1>3, <2>1, <2>2, <2>3 DEF r, s
<1>4. CASE w = 1
  <2>1. r = [ok |-> p + 7 <= Len(d), value |-> 0, next |-> p + 8]
    <3>1. ~(w = 0) /\ ~(w = 2) /\ ~(w = 5)
      BY <1>4
    <3> QED
      BY <1>4, <3>1, Zenon DEF ReadValue
  <2> DEFINE k == p + 7 <= Len(d)
  <2>2. r = [ok |-> k, value |-> 0, next |-> p + 8]
    BY ONLY <2>1, Zenon
  <2>3. k \in BOOLEAN /\ (k => p + 8 \in Nat /\ p <= p + 8 /\ p + 8 <= Len(d) + 1)
    OBVIOUS
  <2> HIDE DEF r, k
  <2> QED
    BY <1>4, <2>2, <2>3 DEF r
<1>5. CASE w = 5
  <2>1. r = [ok |-> p + 3 <= Len(d), value |-> 0, next |-> p + 4]
    <3>1. ~(w = 0) /\ ~(w = 1) /\ ~(w = 2)
      BY <1>5
    <3> QED
      BY <1>5, <3>1, Zenon DEF ReadValue
  <2> DEFINE k == p + 3 <= Len(d)
  <2>2. r = [ok |-> k, value |-> 0, next |-> p + 4]
    BY ONLY <2>1, Zenon
  <2>3. k \in BOOLEAN /\ (k => p + 4 \in Nat /\ p <= p + 4 /\ p + 4 <= Len(d) + 1)
    OBVIOUS
  <2> HIDE DEF r, k
  <2> QED
    BY <1>5, <2>2, <2>3 DEF r
<1>6. CASE ~(w = 0) /\ ~(w = 1) /\ ~(w = 2) /\ ~(w = 5)
  <2>1. r = Fail
    BY <1>6, Zenon DEF ReadValue
  <2> HIDE DEF r
  <2> QED
    BY <1>1, <1>6, <2>1 DEF r
<1> QED
  BY <1>2, <1>3, <1>4, <1>5, <1>6

\* A value is read there as it is here.
LEMMA ValueThere ==
  ASSUME NEW d \in Seq(Byte), NEW e \in Seq(Byte), NEW p, NEW q, Behind(d, p, e, q), NEW w \in 0..7
  PROVE  LET r == ReadValue(d, p, w)
             s == ReadValue(e, q, w)
         IN Moved(r, s, p, q) /\ (q + (Len(d) - p) = Len(e) => Alike(r, s))
<1> DEFINE r == ReadValue(d, p, w)
           s == ReadValue(e, q, w)
           l == Len(d)
           m == Len(e)
<1>1. /\ p \in Nat \ {0} /\ q \in Nat \ {0} /\ l \in Nat /\ m \in Nat /\ q + (l - p) <= m
  BY DEF Behind
<1>2. CASE w = 0
  <2>1. r = ReadVarint(d, p) /\ s = ReadVarint(e, q)
    <3>1. ~(w = 1) /\ ~(w = 2) /\ ~(w = 5)
      BY <1>2
    <3> QED
      BY <1>2, <3>1, Zenon DEF ReadValue
  <2> DEFINE a == ReadVarint(d, p)
             b == ReadVarint(e, q)
  <2>2. /\ a.ok => b = [ok |-> TRUE, value |-> a.value, next |-> q + (a.next - p)]
        /\ ~a.ok /\ q + (l - p) = m => b = Fail
    BY VarintThere
  <2>3. a = Fail \/ a.ok = TRUE
    BY <1>1, ReadVarintType
  <2> HIDE DEF a, b, r, s, l, m
  <2>4. a.ok => b.ok = TRUE /\ b.value = a.value /\ b.next = q + (a.next - p)
    BY ONLY <2>2
  <2>5. Fail.ok = FALSE
    BY DEF Fail
  <2>6. ~a.ok => a = Fail
    BY <2>3
  <2>7. Moved(a, b, p, q)
    BY <2>4 DEF Moved
  <2>8. q + (l - p) = m => Alike(a, b)
    BY <2>2, <2>3, <2>4, <2>5, <2>6 DEF Alike
  <2> QED
    BY <2>1, <2>7, <2>8 DEF r, s, l, m, a, b
<1>3. CASE w = 2
  <2>1. r = Counted(d, ReadVarint(d, p)) /\ s = Counted(e, ReadVarint(e, q))
    <3>1. ~(w = 0) /\ ~(w = 1) /\ ~(w = 5)
      BY <1>3
    <3> QED
      BY <1>3, <3>1, Zenon DEF ReadValue
  <2> QED
    BY <2>1, CountedThere, Zenon
<1>4. ASSUME NEW n \in Nat, r = [ok |-> p + n <= l, value |-> 0, next |-> p + (n + 1)],
             s = [ok |-> q + n <= m, value |-> 0, next |-> q + (n + 1)]
      PROVE  Moved(r, s, p, q) /\ (q + (l - p) = m => Alike(r, s))
  <2> DEFINE g == p + n <= l
             h == q + n <= m
  <2>1. r.ok = g /\ s.ok = h /\ r.next = p + (n + 1) /\ s.next = q + (n + 1) /\ r.value = 0 /\ s.value = 0
    <3>1. r = [ok |-> g, value |-> 0, next |-> p + (n + 1)] /\ s = [ok |-> h, value |-> 0, next |-> q + (n + 1)]
      BY ONLY <1>4, Zenon
    <3> HIDE DEF r, s, g, h
    <3> QED
      BY ONLY <3>1
  <2>2. (g => h) /\ (q + (l - p) = m => (h <=> g)) /\ g \in BOOLEAN /\ h \in BOOLEAN
    <3> HIDE DEF l, m
    <3> QED
      BY <1>1
  <2>3. q + (n + 1) = q + ((p + (n + 1)) - p)
    BY <1>1
  <2> HIDE DEF r, s, g, h, l, m
  <2>4. Moved(r, s, p, q)
    <3>1. g => h
      BY <2>2
    <3>2. s.next = q + (r.next - p)
      BY ONLY <2>1, <2>3
    <3> QED
      BY ONLY <2>1, <3>1, <3>2 DEF Moved
  <2>5. q + (l - p) = m => Alike(r, s)
    <3> SUFFICES ASSUME q + (l - p) = m PROVE Alike(r, s)
      OBVIOUS
    <3>0. h <=> g
      BY <2>2
    <3>1. g = h
      BY ONLY <2>2, <3>0, Zenon
    <3> QED
      BY ONLY <2>1, <3>1, Zenon DEF Alike
  <2> QED
    BY <2>4, <2>5
<1>5. CASE w = 1
  <2>1. /\ r = [ok |-> p + 7 <= l, value |-> 0, next |-> p + 8]
        /\ s = [ok |-> q + 7 <= m, value |-> 0, next |-> q + 8]
    <3>1. ~(w = 0) /\ ~(w = 2) /\ ~(w = 5)
      BY <1>5
    <3> QED
      BY <1>5, <3>1, Zenon DEF ReadValue
  <2>2. p + 8 = p + (7 + 1) /\ q + 8 = q + (7 + 1)
    OBVIOUS
  <2> HIDE DEF r, s, l, m
  <2>3. /\ r = [ok |-> p + 7 <= l, value |-> 0, next |-> p + (7 + 1)]
        /\ s = [ok |-> q + 7 <= m, value |-> 0, next |-> q + (7 + 1)]
    BY ONLY <2>1, <2>2
  <2>4. Moved(r, s, p, q) /\ (q + (l - p) = m => Alike(r, s))
    BY <1>4, <2>3, 7 \in Nat
  <2> QED
    BY <2>4 DEF r, s, l, m
<1>6. CASE w = 5
  <2>1. /\ r = [ok |-> p + 3 <= l, value |-> 0, next |-> p + 4]
        /\ s = [ok |-> q + 3 <= m, value |-> 0, next |-> q + 4]
    <3>1. ~(w = 0) /\ ~(w = 1) /\ ~(w = 2)
      BY <1>6
    <3> QED
      BY <1>6, <3>1, Zenon DEF ReadValue
  <2>2. p + 4 = p + (3 + 1) /\ q + 4 = q + (3 + 1)
    OBVIOUS
  <2> HIDE DEF r, s, l, m
  <2>3. /\ r = [ok |-> p + 3 <= l, value |-> 0, next |-> p + (3 + 1)]
        /\ s = [ok |-> q + 3 <= m, value |-> 0, next |-> q + (3 + 1)]
    BY ONLY <2>1, <2>2
  <2>4. Moved(r, s, p, q) /\ (q + (l - p) = m => Alike(r, s))
    BY <1>4, <2>3, 3 \in Nat
  <2> QED
    BY <2>4 DEF r, s, l, m
<1>7. CASE ~(w = 0) /\ ~(w = 1) /\ ~(w = 2) /\ ~(w = 5)
  <2>1. r = Fail /\ s = Fail
    BY <1>7, Zenon DEF ReadValue
  <2>2. Fail.ok = FALSE
    BY DEF Fail
  <2> HIDE DEF r, s, l, m
  <2> QED
    BY <2>1, <2>2 DEF Moved, Alike, r, s, l, m
<1> QED
  BY <1>2, <1>3, <1>5, <1>6, <1>7

\* What the reading of a field gives.
LEMMA FieldIs ==
  ASSUME NEW d \in Seq(Byte), NEW p \in Nat \ {0}
  PROVE  LET f == FieldAt(d, p) IN
         /\ f.end \in {"open", "stopped", "failed"} /\ f.tag \in Int32
         /\ f.end = "open" => f.next \in Nat /\ p + 1 <= f.next /\ f.next <= Len(d) + 1
         /\ f.end # "open" => f.next = p
         /\ f.end # "stopped" /\ f.tag % 8 = 0 => f.value \in Int32
         /\ f.end # "stopped" /\ f.tag % 8 = 2 => f.value \in Text
<1> DEFINE f == FieldAt(d, p)
           t == ReadVarint(d, p)
           w == t.value % 8
           r == ReadValue(d, t.next, w)
<1>1. f = IF ~t.ok \/ t.value = 0 \/ w = 4 THEN [end |-> "stopped", tag |-> 0, value |-> 0, next |-> p]
          ELSE [end |-> IF r.ok THEN "open" ELSE "failed", tag |-> t.value, value |-> r.value,
                next |-> IF r.ok THEN r.next ELSE p]
  BY Zenon DEF FieldAt, FieldRead
<1>2. CASE ~t.ok \/ t.value = 0 \/ w = 4
  <2>1. f = [end |-> "stopped", tag |-> 0, value |-> 0, next |-> p]
    BY ONLY <1>1, <1>2, Zenon
  <2>2. 0 \in Int32
    BY Int32Is
  <2> HIDE DEF f
  <2> QED
    BY <2>1, <2>2 DEF f
<1>3. CASE ~(~t.ok \/ t.value = 0 \/ w = 4)
  <2>1. f = [end |-> IF r.ok THEN "open" ELSE "failed", tag |-> t.value, value |-> r.value,
             next |-> IF r.ok THEN r.next ELSE p]
    BY ONLY <1>1, <1>3, Zenon
  <2>2. t.value \in Int32 /\ t.next \in Nat /\ p + 1 <= t.next /\ t.next <= Len(d) + 1
    <3>1. t # Fail
      BY <1>3 DEF Fail
    <3> QED
      BY <3>1, ReadVarintType
  <2>3. w \in 0..7 /\ t.next \in Nat \ {0}
    BY <2>2, Int32Is, SMTT(30)
  <2> HIDE DEF t, w
  <2>4. /\ r.ok \in BOOLEAN
        /\ r.ok => r.next \in Nat /\ t.next <= r.next /\ r.next <= Len(d) + 1
        /\ w = 0 => r.value \in Int32
        /\ w = 2 => r.value \in Text
    BY <2>3, ReadValueIs
  <2> DEFINE o == IF r.ok THEN "open" ELSE "failed"
             n == IF r.ok THEN r.next ELSE p
  <2>5. /\ o \in {"open", "failed"} /\ (o = "open" => r.ok) /\ (o # "open" => n = p) /\ (r.ok => n = r.next)
    OBVIOUS
  <2>6. f = [end |-> o, tag |-> t.value, value |-> r.value, next |-> n]
    BY <2>1
  <2>7. r.ok => r.next \in Nat /\ p + 1 <= r.next /\ r.next <= Len(d) + 1
    BY <2>2, <2>4
  <2> HIDE DEF o, n, r, f
  <2>8. f.end = o /\ f.tag = t.value /\ f.value = r.value /\ f.next = n
    BY ONLY <2>6
  <2>9. f.tag % 8 = w
    BY ONLY <2>8, Zenon DEF w
  <2> QED
    BY <2>2, <2>4, <2>5, <2>7, <2>8, <2>9 DEF f
<1> QED
  BY <1>2, <1>3

\* A field is read there as it is here.
LEMMA FieldThere ==
  ASSUME NEW d \in Seq(Byte), NEW e \in Seq(Byte), NEW p, NEW q, Behind(d, p, e, q)
  PROVE  LET f == FieldAt(d, p)
             g == FieldAt(e, q)
         IN /\ f.end = "open" \/ q + (Len(d) - p) = Len(e)
               => g.end = f.end /\ g.tag = f.tag /\ g.value = f.value
            /\ f.end = "open" => g.next = q + (f.next - p)
<1> DEFINE f == FieldAt(d, p)
           g == FieldAt(e, q)
           t == ReadVarint(d, p)
           u == ReadVarint(e, q)
           w == t.value % 8
           l == Len(d)
           m == Len(e)
<1>0. /\ p \in Nat \ {0} /\ q \in Nat \ {0} /\ l \in Nat /\ m \in Nat /\ q + (l - p) <= m
  BY DEF Behind
<1>1. /\ f = IF ~t.ok \/ t.value = 0 \/ w = 4 THEN [end |-> "stopped", tag |-> 0, value |-> 0, next |-> p]
             ELSE [end |-> IF ReadValue(d, t.next, w).ok THEN "open" ELSE "failed", tag |-> t.value,
                   value |-> ReadValue(d, t.next, w).value,
                   next |-> IF ReadValue(d, t.next, w).ok THEN ReadValue(d, t.next, w).next ELSE p]
      /\ g = IF ~u.ok \/ u.value = 0 \/ u.value % 8 = 4
             THEN [end |-> "stopped", tag |-> 0, value |-> 0, next |-> q]
             ELSE [end |-> IF ReadValue(e, u.next, u.value % 8).ok THEN "open" ELSE "failed", tag |-> u.value,
                   value |-> ReadValue(e, u.next, u.value % 8).value,
                   next |-> IF ReadValue(e, u.next, u.value % 8).ok THEN ReadValue(e, u.next, u.value % 8).next
                            ELSE q]
  BY Zenon DEF FieldAt, FieldRead
<1>2. /\ t.ok => u = [ok |-> TRUE, value |-> t.value, next |-> q + (t.next - p)]
      /\ ~t.ok /\ q + (l - p) = m => u = Fail
  BY VarintThere
<1>3. t.ok => u.ok /\ u.value = t.value /\ u.next = q + (t.next - p)
  <2> HIDE DEF t, u
  <2> QED
    BY ONLY <1>2
<1>4. CASE ~t.ok \/ t.value = 0 \/ w = 4
  <2>1. f = [end |-> "stopped", tag |-> 0, value |-> 0, next |-> p]
    BY ONLY <1>1, <1>4, Zenon
  <2>2. q + (l - p) = m => g = [end |-> "stopped", tag |-> 0, value |-> 0, next |-> q]
    <3> SUFFICES ASSUME q + (l - p) = m PROVE g = [end |-> "stopped", tag |-> 0, value |-> 0, next |-> q]
      OBVIOUS
    <3>1. ~t.ok => ~u.ok
      BY <1>2 DEF Fail
    <3>2. ~u.ok \/ u.value = 0 \/ u.value % 8 = 4
      BY ONLY <1>3, <1>4, <3>1, Zenon
    <3> QED
      BY ONLY <1>1, <3>2, Zenon
  <2> HIDE DEF f, g, l, m
  <2>3. f.end # "open" /\ (q + (l - p) = m => g.end = f.end /\ g.tag = f.tag /\ g.value = f.value)
    BY ONLY <2>1, <2>2
  <2> QED
    BY ONLY <2>3 DEF f, g, l, m
<1>5. CASE ~(~t.ok \/ t.value = 0 \/ w = 4)
  <2>1. t.value \in Int32 /\ t.next \in Nat /\ p + 1 <= t.next /\ t.next <= Len(d) + 1
    <3>1. t # Fail
      BY <1>5 DEF Fail
    <3> QED
      BY <1>0, <3>1, ReadVarintType
  <2>2. w \in 0..7 /\ t.next \in Nat \ {0}
    <3>1. t.value \in Int /\ t.next \in Nat /\ p + 1 <= t.next
      BY <2>1, Int32Is
    <3> HIDE DEF t
    <3> QED
      BY ONLY <1>0, <3>1
  <2> DEFINE c == t.next
             h == q + (c - p)
             r == ReadValue(d, c, w)
             s == ReadValue(e, h, w)
  <2>3. u.ok /\ u.value = t.value /\ u.next = h
    BY <1>3, <1>5
  <2>4. c \in Nat /\ p <= c /\ c <= Len(d) + 1
    BY <1>0, <2>1
  <2>5. Behind(d, c, e, h) /\ h + (l - c) = q + (l - p)
    <3> HIDE DEF t, c
    <3>1. Behind(d, c, e, q + (c - p)) /\ (q + (c - p)) + (Len(d) - c) = q + (Len(d) - p)
      BY ONLY <2>4, BehindMoved, d \in Seq(Byte), e \in Seq(Byte), Behind(d, p, e, q)
    <3> QED
      BY ONLY <3>1 DEF l, h
  <2>6. f = [end |-> IF r.ok THEN "open" ELSE "failed", tag |-> t.value, value |-> r.value,
             next |-> IF r.ok THEN r.next ELSE p]
    BY ONLY <1>1, <1>5, Zenon
  <2>7. g = [end |-> IF s.ok THEN "open" ELSE "failed", tag |-> t.value, value |-> s.value,
             next |-> IF s.ok THEN s.next ELSE q]
    <3>1. u.value % 8 = w
      BY ONLY <2>3
    <3>2. ~(~u.ok \/ u.value = 0 \/ u.value % 8 = 4)
      BY ONLY <1>5, <2>3, <3>1, Zenon
    <3> HIDE DEF t, u, w, h, g
    <3>3. g = [end |-> IF ReadValue(e, u.next, u.value % 8).ok THEN "open" ELSE "failed", tag |-> u.value,
               value |-> ReadValue(e, u.next, u.value % 8).value,
               next |-> IF ReadValue(e, u.next, u.value % 8).ok THEN ReadValue(e, u.next, u.value % 8).next
                        ELSE q]
      BY ONLY <1>1, <3>2, Zenon
    <3> QED
      BY ONLY <2>3, <3>1, <3>3, Zenon
  <2> HIDE DEF t, u, w, c, h, f, g
  <2>8. Moved(r, s, c, h) /\ (h + (l - c) = m => Alike(r, s))
    BY ONLY <2>2, <2>5, ValueThere, d \in Seq(Byte), e \in Seq(Byte), Zenon
  <2>9. r.ok \in BOOLEAN /\ s.ok \in BOOLEAN /\ (r.ok => r.next \in Nat)
    <3>1. h \in Nat \ {0} /\ c \in Nat \ {0}
      BY <1>0, <2>4 DEF h
    <3> QED
      BY ONLY <2>2, <3>1, ReadValueIs, d \in Seq(Byte), e \in Seq(Byte), Zenon
  <2>10. r.ok => h + (r.next - c) = q + (r.next - p)
    BY <1>0, <2>4, <2>9 DEF h
  <2> HIDE DEF r, s, l, m
  <2>11. /\ f.end = (IF r.ok THEN "open" ELSE "failed") /\ f.tag = t.value /\ f.value = r.value
         /\ f.next = (IF r.ok THEN r.next ELSE p)
         /\ g.end = (IF s.ok THEN "open" ELSE "failed") /\ g.tag = t.value /\ g.value = s.value
         /\ g.next = (IF s.ok THEN s.next ELSE q)
    BY ONLY <2>6, <2>7
  <2>12. f.end = "open" => r.ok
    BY ONLY <2>11
  <2>13. f.end = "open" => g.end = f.end /\ g.tag = f.tag /\ g.value = f.value /\ g.next = q + (f.next - p)
    <3> SUFFICES ASSUME f.end = "open"
                 PROVE  g.end = f.end /\ g.tag = f.tag /\ g.value = f.value /\ g.next = q + (f.next - p)
      OBVIOUS
    <3>0. r.ok
      BY ONLY <2>12, f.end = "open"
    <3>1. s.ok /\ s.value = r.value /\ s.next = h + (r.next - c)
      BY ONLY <2>8, <3>0, Zenon DEF Moved
    <3> QED
      BY ONLY <2>10, <2>11, <3>0, <3>1
  <2>14. q + (l - p) = m => g.end = f.end /\ g.tag = f.tag /\ g.value = f.value
    <3> SUFFICES ASSUME q + (l - p) = m PROVE g.end = f.end /\ g.tag = f.tag /\ g.value = f.value
      OBVIOUS
    <3>1. s.ok = r.ok /\ s.value = r.value
      BY ONLY <2>5, <2>8, q + (l - p) = m DEF Alike
    <3> QED
      BY ONLY <2>11, <3>1, Zenon
  <2> QED
    BY ONLY <2>13, <2>14 DEF f, g, l, m
<1> QED
  BY <1>4, <1>5

\* A list of fields: their numbers fit into a tag of one byte, and no two are the same.
FieldTypes == [number : 1..15, kind : {"int32", "string"}, required : BOOLEAN]

FieldList(fs) ==
  /\ fs \in Seq(FieldTypes)
  /\ \A i, j \in 1..Len(fs) : fs[i].number = fs[j].number => i = j

\* What a field may hold, by its kind.
AnyValue == [int : Int32] \union [text : Text]

IsValue(f, v) == IF f.kind = "int32" THEN v \in [int : Int32] ELSE v \in [text : Text]

\* Any message, of whatever fields.
AnyHas == UNION {[D -> AnyValue] : D \in SUBSET (1..15)}

AnyMessage == [has : AnyHas, rest : Seq(Byte)]

\* The value a field takes from what was read.
ValueTaken(f, value) == IF f.kind = "int32" THEN [int |-> value] ELSE [text |-> value]

\* The tag of a field is one byte, and tells its number and its kind.
LEMMA TagIs ==
  ASSUME NEW f \in FieldTypes
  PROVE  /\ Tag(f) \in 8..127 /\ Tag(f) \in Int32
         /\ Tag(f) % 8 = IF f.kind = "int32" THEN 0 ELSE 2
         /\ \A g \in FieldTypes : Tag(g) = Tag(f) => g.number = f.number /\ g.kind = f.kind
<1>1. /\ f.number \in 1..15 /\ f.kind \in {"int32", "string"}
      /\ \A g \in FieldTypes : g.number \in 1..15 /\ g.kind \in {"int32", "string"}
  BY DEF FieldTypes
<1>2. \A g : Tag(g) = IF g.kind = "int32" THEN 8 * g.number + 0 ELSE 8 * g.number + 2
  BY DEF Tag, WireType
<1>3. \A n \in 1..15 : /\ 8 * n + 0 \in 8..127 /\ 8 * n + 2 \in 8..127
                       /\ (8 * n + 0) % 8 = 0 /\ (8 * n + 2) % 8 = 2
  OBVIOUS
<1>4. Tag(f) \in 8..127 /\ Tag(f) % 8 = IF f.kind = "int32" THEN 0 ELSE 2
  BY ONLY <1>1, <1>2, <1>3
<1>5. \A x \in 8..127 : x \in Int32
  BY Int32Is
<1>6. ASSUME NEW g \in FieldTypes, Tag(g) = Tag(f) PROVE g.number = f.number /\ g.kind = f.kind
  <2>1. \A n, k \in 1..15 : /\ 8 * n + 0 = 8 * k + 0 => n = k
                            /\ 8 * n + 2 = 8 * k + 2 => n = k
                            /\ 8 * n + 0 # 8 * k + 2
    OBVIOUS
  <2>2. g.number \in 1..15 /\ g.kind \in {"int32", "string"}
    BY <1>1
  <2> QED
    BY ONLY <1>1, <1>2, <1>6, <2>1, <2>2
<1> QED
  BY <1>4, <1>5, <1>6

\* What a set of values holds is a function on numbers.
LEMMA HasIs ==
  ASSUME NEW g \in AnyHas
  PROVE  /\ DOMAIN g \subseteq 1..15 /\ g = [n \in DOMAIN g |-> g[n]]
         /\ \A n \in DOMAIN g : g[n] \in AnyValue
<1>1. PICK D \in SUBSET (1..15) : g \in [D -> AnyValue]
  BY DEF AnyHas
<1> QED
  BY <1>1

\* A function on numbers with such values is one.
LEMMA IsHas ==
  ASSUME NEW D, D \subseteq 1..15, NEW g, g = [n \in D |-> g[n]], \A n \in D : g[n] \in AnyValue
  PROVE  g \in AnyHas
<1>1. g \in [D -> AnyValue]
  OBVIOUS
<1> QED
  BY <1>1 DEF AnyHas

\* Nothing is one.
LEMMA NothingIsHas == <<>> \in AnyHas /\ DOMAIN <<>> = {}
<1>1. DOMAIN <<>> = {} /\ <<>> = [n \in {} |-> <<>>[n]]
  OBVIOUS
<1> QED
  BY <1>1, IsHas

\* What is put over what.
LEMMA OverIs ==
  ASSUME NEW g \in AnyHas, NEW h \in AnyHas
  PROVE  /\ Over(g, h) \in AnyHas /\ DOMAIN Over(g, h) = DOMAIN g \union DOMAIN h
         /\ \A n \in DOMAIN g : Over(g, h)[n] = g[n]
         /\ \A n \in DOMAIN h : n \notin DOMAIN g => Over(g, h)[n] = h[n]
<1> DEFINE D == DOMAIN g \union DOMAIN h
           o == [n \in D |-> IF n \in DOMAIN g THEN g[n] ELSE h[n]]
<1>1. D \subseteq 1..15
  BY HasIs
<1>2. \A n \in D : o[n] \in AnyValue
  BY HasIs
<1>3. o = [n \in D |-> o[n]]
  OBVIOUS
<1>4. Over(g, h) = o
  BY DEF Over
<1>5. o \in AnyHas
  <2> HIDE DEF o, D
  <2> QED
    BY <1>1, <1>2, <1>3, IsHas
<1> QED
  BY <1>4, <1>5

\* Two of them with the same values are the same.
LEMMA SameHas ==
  ASSUME NEW g \in AnyHas, NEW h \in AnyHas, DOMAIN g = DOMAIN h, \A n \in DOMAIN g : g[n] = h[n]
  PROVE  g = h
BY HasIs

\* Nothing put over, or put under, changes nothing.
LEMMA OverNothing ==
  ASSUME NEW g \in AnyHas PROVE Over(g, <<>>) = g /\ Over(<<>>, g) = g
<1>1. <<>> \in AnyHas /\ DOMAIN <<>> = {}
  BY NothingIsHas
<1> DEFINE e == <<>>
<1>2. e \in AnyHas /\ DOMAIN e = {}
  BY <1>1
<1> HIDE DEF e
<1>3. Over(g, e) = g
  <2> DEFINE o == Over(g, e)
  <2>1. /\ o \in AnyHas /\ DOMAIN o = DOMAIN g \union DOMAIN e
        /\ \A n \in DOMAIN g : o[n] = g[n]
    BY <1>2, OverIs
  <2> HIDE DEF o
  <2>2. DOMAIN o = DOMAIN g /\ \A n \in DOMAIN o : o[n] = g[n]
    BY <1>2, <2>1
  <2>3. o = g
    BY <2>1, <2>2, SameHas
  <2> QED
    BY <2>3 DEF o
<1>4. Over(e, g) = g
  <2> DEFINE o == Over(e, g)
  <2>1. /\ o \in AnyHas /\ DOMAIN o = DOMAIN e \union DOMAIN g
        /\ \A n \in DOMAIN g : n \notin DOMAIN e => o[n] = g[n]
    BY <1>2, OverIs
  <2> HIDE DEF o
  <2>2. DOMAIN o = DOMAIN g /\ \A n \in DOMAIN o : o[n] = g[n]
    BY <1>2, <2>1
  <2>3. o = g
    BY <2>1, <2>2, SameHas
  <2> QED
    BY <2>3 DEF o
<1> QED
  BY <1>3, <1>4 DEF e

\* Putting over is associative.
LEMMA OverAssociative ==
  ASSUME NEW f \in AnyHas, NEW g \in AnyHas, NEW h \in AnyHas
  PROVE  Over(Over(f, g), h) = Over(f, Over(g, h))
<1> DEFINE a == Over(f, g)
           b == Over(g, h)
<1>1. /\ a \in AnyHas /\ DOMAIN a = DOMAIN f \union DOMAIN g
      /\ \A n \in DOMAIN f : a[n] = f[n]
      /\ \A n \in DOMAIN g : n \notin DOMAIN f => a[n] = g[n]
  BY OverIs
<1>2. /\ b \in AnyHas /\ DOMAIN b = DOMAIN g \union DOMAIN h
      /\ \A n \in DOMAIN g : b[n] = g[n]
      /\ \A n \in DOMAIN h : n \notin DOMAIN g => b[n] = h[n]
  BY OverIs
<1> HIDE DEF a, b
<1> DEFINE x == Over(a, h)
           y == Over(f, b)
<1>3. /\ x \in AnyHas /\ DOMAIN x = DOMAIN a \union DOMAIN h
      /\ \A n \in DOMAIN a : x[n] = a[n]
      /\ \A n \in DOMAIN h : n \notin DOMAIN a => x[n] = h[n]
  BY <1>1, OverIs
<1>4. /\ y \in AnyHas /\ DOMAIN y = DOMAIN f \union DOMAIN b
      /\ \A n \in DOMAIN f : y[n] = f[n]
      /\ \A n \in DOMAIN b : n \notin DOMAIN f => y[n] = b[n]
  BY <1>2, OverIs
<1> HIDE DEF x, y
<1>5. DOMAIN x = DOMAIN y
  BY <1>1, <1>2, <1>3, <1>4
<1>6. \A n \in DOMAIN x : x[n] = y[n]
  BY <1>1, <1>2, <1>3, <1>4
<1>7. x = y
  BY <1>3, <1>4, <1>5, <1>6, SameHas
<1> QED
  BY <1>7 DEF x, y, a, b

\* The parts of a message.
LEMMA MessageIs ==
  ASSUME NEW m \in AnyMessage
  PROVE  m.has \in AnyHas /\ m.rest \in Seq(Byte) /\ m = [has |-> m.has, rest |-> m.rest]
BY DEF AnyMessage

\* A message with nothing in it.
LEMMA NewIs == New \in AnyMessage /\ New.has = <<>> /\ New.rest = <<>>
<1> DEFINE h == <<>>
           r == <<>>
<1>1. h \in AnyHas /\ r \in Seq(Byte)
  BY NothingIsHas
<1>2. New = [has |-> h, rest |-> r]
  BY DEF New
<1> HIDE DEF h, r
<1>3. New \in AnyMessage /\ New.has = h /\ New.rest = r
  BY <1>1, <1>2 DEF AnyMessage
<1> QED
  BY <1>3 DEF h, r

\* What merging gives.
LEMMA MergedIs ==
  ASSUME NEW a \in AnyMessage, NEW b \in AnyMessage
  PROVE  Merged(a, b) \in AnyMessage /\ Merged(a, b).has = Over(b.has, a.has) /\ Merged(a, b).rest = a.rest \o b.rest
<1> DEFINE h == Over(b.has, a.has)
           r == a.rest \o b.rest
<1>1. h \in AnyHas
  BY MessageIs, OverIs
<1>2. r \in Seq(Byte)
  <2>1. a.rest \in Seq(Byte) /\ b.rest \in Seq(Byte)
    BY MessageIs
  <2> QED
    BY ONLY <2>1, ConcatProperties, Zenon
<1>3. Merged(a, b) = [has |-> h, rest |-> r]
  BY Zenon DEF Merged
<1> HIDE DEF h, r
<1>4. Merged(a, b) \in AnyMessage /\ Merged(a, b).has = h /\ Merged(a, b).rest = r
  BY ONLY <1>1, <1>2, <1>3 DEF AnyMessage
<1> QED
  BY <1>4 DEF h, r

\* Two messages with the same parts are the same.
LEMMA SameMessage ==
  ASSUME NEW a \in AnyMessage, NEW b \in AnyMessage, a.has = b.has, a.rest = b.rest
  PROVE  a = b
BY DEF AnyMessage

\* Merging with a message with nothing in it changes nothing.
LEMMA MergedNew == ASSUME NEW a \in AnyMessage PROVE Merged(a, New) = a /\ Merged(New, a) = a
<1>1. New \in AnyMessage /\ New.has = <<>> /\ New.rest = <<>>
  BY NewIs
<1>2. a.has \in AnyHas /\ a.rest \in Seq(Byte)
  BY MessageIs
<1>3. Over(a.has, <<>>) = a.has /\ Over(<<>>, a.has) = a.has
  BY <1>2, OverNothing
<1>4. a.rest \o <<>> = a.rest /\ <<>> \o a.rest = a.rest
  BY ONLY <1>2, ConcatEmptySeq, Zenon
<1>5. Merged(a, New) = a
  <2> DEFINE x == Merged(a, New)
  <2>1. x \in AnyMessage /\ x.has = Over(New.has, a.has) /\ x.rest = a.rest \o New.rest
    BY <1>1, MergedIs
  <2> HIDE DEF x
  <2>2. x.has = a.has /\ x.rest = a.rest
    BY ONLY <1>1, <1>3, <1>4, <2>1, Zenon
  <2>3. x = a
    BY <2>1, <2>2, SameMessage
  <2> QED
    BY <2>3 DEF x
<1>6. Merged(New, a) = a
  <2> DEFINE x == Merged(New, a)
  <2>1. x \in AnyMessage /\ x.has = Over(a.has, New.has) /\ x.rest = New.rest \o a.rest
    BY <1>1, MergedIs
  <2> HIDE DEF x
  <2>2. x.has = a.has /\ x.rest = a.rest
    BY ONLY <1>1, <1>3, <1>4, <2>1, Zenon
  <2>3. x = a
    BY <2>1, <2>2, SameMessage
  <2> QED
    BY <2>3 DEF x
<1> QED
  BY <1>5, <1>6

\* Merging is associative.
LEMMA MergedAssociative ==
  ASSUME NEW a \in AnyMessage, NEW b \in AnyMessage, NEW c \in AnyMessage
  PROVE  Merged(Merged(a, b), c) = Merged(a, Merged(b, c))
<1> DEFINE ab == Merged(a, b)
           bc == Merged(b, c)
           x == Merged(ab, c)
           y == Merged(a, bc)
<1>1. ab \in AnyMessage /\ ab.has = Over(b.has, a.has) /\ ab.rest = a.rest \o b.rest
  BY MergedIs
<1>2. bc \in AnyMessage /\ bc.has = Over(c.has, b.has) /\ bc.rest = b.rest \o c.rest
  BY MergedIs
<1> HIDE DEF ab, bc
<1>3. x \in AnyMessage /\ x.has = Over(c.has, ab.has) /\ x.rest = ab.rest \o c.rest
  BY <1>1, MergedIs
<1>4. y \in AnyMessage /\ y.has = Over(bc.has, a.has) /\ y.rest = a.rest \o bc.rest
  BY <1>2, MergedIs
<1> HIDE DEF x, y
<1>5. /\ a.has \in AnyHas /\ b.has \in AnyHas /\ c.has \in AnyHas
      /\ a.rest \in Seq(Byte) /\ b.rest \in Seq(Byte) /\ c.rest \in Seq(Byte)
  BY MessageIs
<1>6. Over(Over(c.has, b.has), a.has) = Over(c.has, Over(b.has, a.has))
  BY ONLY <1>5, OverAssociative, Zenon
<1>7. (a.rest \o b.rest) \o c.rest = a.rest \o (b.rest \o c.rest)
  <2> DEFINE u == a.rest
             v == b.rest
             w == c.rest
  <2>1. u \in Seq(Byte) /\ v \in Seq(Byte) /\ w \in Seq(Byte)
    BY <1>5
  <2> HIDE DEF u, v, w
  <2>2. (u \o v) \o w = u \o (v \o w)
    BY ONLY <2>1, ConcatAssociative
  <2> QED
    BY ONLY <2>2 DEF u, v, w
<1>8. x.has = y.has /\ x.rest = y.rest
  BY ONLY <1>1, <1>2, <1>3, <1>4, <1>6, <1>7, Zenon
<1>9. x = y
  BY <1>3, <1>4, <1>8, SameMessage
<1> QED
  BY <1>9 DEF x, y, ab, bc

\* The one value of a number.
Single(n, v) == [x \in {n} |-> v]

\* What a message becomes when a field is read.
LEMMA TookIs ==
  ASSUME NEW fs, FieldList(fs), NEW m \in AnyMessage, NEW tag, NEW value, NEW bytes \in Seq(Byte)
  PROVE  /\ (\A i \in 1..Len(fs) : Tag(fs[i]) # tag)
               => TookField(fs, m, tag, value, bytes) = [has |-> m.has, rest |-> m.rest \o bytes]
         /\ \A i \in 1..Len(fs) : Tag(fs[i]) = tag =>
              TookField(fs, m, tag, value, bytes)
                = [has |-> Over(Single(fs[i].number, ValueTaken(fs[i], value)), m.has), rest |-> m.rest]
<1>1. m = [has |-> m.has, rest |-> m.rest]
  BY MessageIs
<1>2. ASSUME \A i \in 1..Len(fs) : Tag(fs[i]) # tag
      PROVE  TookField(fs, m, tag, value, bytes) = [has |-> m.has, rest |-> m.rest \o bytes]
  <2>1. Mine(fs, tag) = {}
    BY <1>2 DEF Mine
  <2>2. TookField(fs, m, tag, value, bytes) = [m EXCEPT !.rest = m.rest \o bytes]
    BY <2>1 DEF TookField
  <2>3. \A x : [m EXCEPT !.rest = x] = [has |-> m.has, rest |-> x]
    BY <1>1
  <2> QED
    BY ONLY <2>2, <2>3, Zenon
<1>3. ASSUME NEW i \in 1..Len(fs), Tag(fs[i]) = tag
      PROVE  TookField(fs, m, tag, value, bytes)
               = [has |-> Over(Single(fs[i].number, ValueTaken(fs[i], value)), m.has), rest |-> m.rest]
  <2>1. \A j \in 1..Len(fs) : fs[j] \in FieldTypes
    BY ElementOfSeq DEF FieldList
  <2>2. \A j \in 1..Len(fs) : Tag(fs[j]) = tag => j = i
    <3> SUFFICES ASSUME NEW j \in 1..Len(fs), Tag(fs[j]) = tag PROVE j = i
      OBVIOUS
    <3>1. fs[j].number = fs[i].number
      BY <1>3, <2>1, TagIs
    <3> QED
      BY <3>1 DEF FieldList
  <2>3. Mine(fs, tag) = {i}
    BY <1>3, <2>2 DEF Mine
  <2>4. (CHOOSE j \in {i} : TRUE) = i
    OBVIOUS
  <2> DEFINE f == fs[i]
             s == Single(f.number, ValueTaken(f, value))
  <2>5. TookField(fs, m, tag, value, bytes) = SetField(m, f, ValueTaken(f, value))
    <3>1. Mine(fs, tag) # {}
      BY <2>3
    <3> QED
      BY ONLY <2>3, <2>4, <3>1, Zenon DEF TookField, ValueTaken
  <2>6. SetField(m, f, ValueTaken(f, value)) = [m EXCEPT !.has = Over(s, m.has)]
    BY DEF SetField, Single
  <2>7. \A x : [m EXCEPT !.has = x] = [has |-> x, rest |-> m.rest]
    BY <1>1
  <2> QED
    BY ONLY <2>5, <2>6, <2>7, Zenon
<1> QED
  BY <1>2, <1>3

\* One value is one.
LEMMA SingleIs ==
  ASSUME NEW n \in 1..15, NEW v \in AnyValue
  PROVE  Single(n, v) \in AnyHas /\ DOMAIN Single(n, v) = {n} /\ Single(n, v)[n] = v
<1>1. DOMAIN Single(n, v) = {n} /\ Single(n, v)[n] = v /\ Single(n, v) = [x \in {n} |-> Single(n, v)[x]]
  BY DEF Single
<1> QED
  BY <1>1, IsHas

\* What is read for a tag is a value of the field that has the tag.
Fitting(tag, value) == (tag % 8 = 0 => value \in Int32) /\ (tag % 8 = 2 => value \in Text)

\* So a field takes a value of its kind.
LEMMA TakenIs ==
  ASSUME NEW f \in FieldTypes, NEW value, Fitting(Tag(f), value)
  PROVE  ValueTaken(f, value) \in AnyValue /\ IsValue(f, ValueTaken(f, value))
<1>1. f.kind = "int32" \/ f.kind = "string"
  BY DEF FieldTypes
<1>2. CASE f.kind = "int32"
  <2>1. value \in Int32
    BY <1>2, TagIs DEF Fitting
  <2> QED
    BY <1>2, <2>1 DEF ValueTaken, AnyValue, IsValue
<1>3. CASE f.kind = "string"
  <2>1. value \in Text
    BY <1>3, TagIs DEF Fitting
  <2> QED
    BY <1>3, <2>1 DEF ValueTaken, AnyValue, IsValue
<1> QED
  BY <1>1, <1>2, <1>3

\* Reading a field into a message merges into it what the field alone gives.
LEMMA TookMerges ==
  ASSUME NEW fs, FieldList(fs), NEW m \in AnyMessage, NEW tag, NEW value, Fitting(tag, value),
         NEW bytes \in Seq(Byte)
  PROVE  LET t == TookField(fs, New, tag, value, bytes) IN
         t \in AnyMessage /\ TookField(fs, m, tag, value, bytes) = Merged(m, t)
<1> DEFINE t == TookField(fs, New, tag, value, bytes)
           x == TookField(fs, m, tag, value, bytes)
<1>1. New \in AnyMessage /\ New.has = <<>> /\ New.rest = <<>> /\ <<>> \in AnyHas
  BY NewIs, NothingIsHas
<1>2. m.has \in AnyHas /\ m.rest \in Seq(Byte) /\ m = [has |-> m.has, rest |-> m.rest]
  BY MessageIs
<1>3. CASE \A i \in 1..Len(fs) : Tag(fs[i]) # tag
  <2>1. t = [has |-> New.has, rest |-> New.rest \o bytes]
    BY <1>1, <1>3, TookIs
  <2>2. x = [has |-> m.has, rest |-> m.rest \o bytes]
    BY <1>3, TookIs
  <2>3. New.rest \o bytes = bytes
    BY ONLY <1>1, ConcatEmptySeq, bytes \in Seq(Byte), Zenon
  <2>4. t = [has |-> <<>>, rest |-> bytes]
    BY ONLY <1>1, <2>1, <2>3, Zenon
  <2> HIDE DEF t, x
  <2> DEFINE e == <<>>
  <2>5. e \in AnyHas /\ t = [has |-> e, rest |-> bytes]
    BY <1>1, <2>4
  <2> HIDE DEF e
  <2>6. t \in AnyMessage /\ t.has = e /\ t.rest = bytes
    BY ONLY <2>5, bytes \in Seq(Byte) DEF AnyMessage
  <2>7. Merged(m, t) = [has |-> Over(t.has, m.has), rest |-> m.rest \o t.rest]
    BY ONLY Zenon DEF Merged
  <2>8. Over(e, m.has) = m.has
    BY <1>2, OverNothing DEF e
  <2>9. Merged(m, t) = x
    BY ONLY <2>2, <2>6, <2>7, <2>8, Zenon
  <2> QED
    BY <2>6, <2>9 DEF t, x
<1>4. ASSUME NEW i \in 1..Len(fs), Tag(fs[i]) = tag PROVE t \in AnyMessage /\ x = Merged(m, t)
  <2> DEFINE f == fs[i]
             v == ValueTaken(f, value)
             s == Single(f.number, v)
  <2>1. f \in FieldTypes
    BY ElementOfSeq DEF FieldList
  <2>2. v \in AnyValue /\ f.number \in 1..15
    <3>1. Fitting(Tag(f), value)
      BY <1>4
    <3> HIDE DEF f
    <3> QED
      BY <2>1, <3>1, TakenIs DEF FieldTypes
  <2>3. s \in AnyHas
    BY <2>2, SingleIs
  <2>4. t = [has |-> Over(s, New.has), rest |-> New.rest]
    BY <1>1, <1>4, TookIs
  <2>5. x = [has |-> Over(s, m.has), rest |-> m.rest]
    BY <1>4, TookIs
  <2> HIDE DEF s, t, x
  <2> DEFINE e == <<>>
  <2>6. Over(s, New.has) = s /\ New.rest = e
    BY <1>1, <2>3, OverNothing
  <2>7. e \in Seq(Byte) /\ m.rest \o e = m.rest
    <3>1. e \in Seq(Byte)
      OBVIOUS
    <3>2. m.rest \o <<>> = m.rest
      BY ONLY <1>2, ConcatEmptySeq, Zenon
    <3> QED
      BY <3>1, <3>2
  <2> HIDE DEF e
  <2>8. t = [has |-> s, rest |-> e]
    BY ONLY <2>4, <2>6, Zenon
  <2>9. t \in AnyMessage /\ t.has = s /\ t.rest = e
    BY ONLY <2>3, <2>7, <2>8 DEF AnyMessage
  <2>10. Merged(m, t) = [has |-> Over(t.has, m.has), rest |-> m.rest \o t.rest]
    BY ONLY Zenon DEF Merged
  <2>11. Merged(m, t) = x
    BY ONLY <2>5, <2>7, <2>9, <2>10, Zenon
  <2> QED
    BY <2>9, <2>11
<1> QED
  BY <1>3, <1>4

\* What the loop over the fields carries along.
LoopStates == [end : {"open", "stopped", "failed", "whole"}, at : Nat \ {0}, m : AnyMessage]

\* What a field that was read, or half read, does to a message.
Effect(fs, m, f, bytes) ==
  IF \/ f.end = "open"
     \/ f.end = "failed" /\ f.tag % 8 = 2 /\ Mine(fs, f.tag) # {}
  THEN TookField(fs, m, f.tag, f.value, bytes) ELSE m

\* It leaves a message.
LEMMA EffectIs ==
  ASSUME NEW fs, FieldList(fs), NEW d \in Seq(Byte), NEW p \in Nat \ {0}, p <= Len(d), NEW m \in AnyMessage
  PROVE  LET f == FieldAt(d, p) IN
         /\ f.end # "stopped" => Fitting(f.tag, f.value)
         /\ SubSeq(d, p, f.next - 1) \in Seq(Byte)
         /\ Effect(fs, m, f, SubSeq(d, p, f.next - 1)) \in AnyMessage
<1> DEFINE f == FieldAt(d, p)
           b == SubSeq(d, p, f.next - 1)
<1>1. /\ f.end \in {"open", "stopped", "failed"} /\ f.tag \in Int32
      /\ f.end = "open" => f.next \in Nat /\ p + 1 <= f.next /\ f.next <= Len(d) + 1
      /\ f.end # "open" => f.next = p
      /\ f.end # "stopped" /\ f.tag % 8 = 0 => f.value \in Int32
      /\ f.end # "stopped" /\ f.tag % 8 = 2 => f.value \in Text
  BY FieldIs
<1> HIDE DEF f
<1>2. f.end # "stopped" => Fitting(f.tag, f.value)
  BY <1>1 DEF Fitting
<1>3. b \in Seq(Byte)
  <2>1. f.next - 1 \in Int /\ f.next - 1 <= Len(d)
    <3>1. f.next \in Nat /\ f.next <= Len(d) + 1
      <4>1. CASE f.end = "open"
        BY <1>1, <4>1
      <4>2. CASE f.end # "open"
        BY <1>1, <4>2
      <4> QED
        BY <4>1, <4>2
    <3> QED
      BY <3>1
  <2> QED
    BY <2>1, PartIs
<1> HIDE DEF b
<1>4. f.end # "stopped" => TookField(fs, m, f.tag, f.value, b) \in AnyMessage
  <2> SUFFICES ASSUME f.end # "stopped" PROVE TookField(fs, m, f.tag, f.value, b) \in AnyMessage
    OBVIOUS
  <2> DEFINE t == TookField(fs, New, f.tag, f.value, b)
  <2>1. Fitting(f.tag, f.value)
    BY <1>2
  <2>2. t \in AnyMessage /\ TookField(fs, m, f.tag, f.value, b) = Merged(m, t)
    BY <1>3, <2>1, TookMerges
  <2> HIDE DEF t
  <2> QED
    BY <2>2, MergedIs
<1>5. Effect(fs, m, f, b) \in AnyMessage
  <2>1. CASE f.end = "open" \/ (f.end = "failed" /\ f.tag % 8 = 2 /\ Mine(fs, f.tag) # {})
    <3>1. f.end # "stopped"
      BY <2>1
    <3> QED
      BY <1>4, <2>1, <3>1, Zenon DEF Effect
  <2>2. CASE ~(f.end = "open" \/ (f.end = "failed" /\ f.tag % 8 = 2 /\ Mine(fs, f.tag) # {}))
    BY <2>2, Zenon DEF Effect
  <2> QED
    BY <2>1, <2>2
<1> QED
  BY <1>2, <1>3, <1>5 DEF b, f

\* What a round does.
LEMMA RoundIs ==
  ASSUME NEW fs, FieldList(fs), NEW d \in Seq(Byte), NEW r \in LoopStates
  PROVE  /\ Round(fs, d, r) \in LoopStates
         /\ r.end # "open" => Round(fs, d, r) = r
         /\ r.end = "open" /\ r.at > Len(d) =>
              Round(fs, d, r).end = "whole" /\ Round(fs, d, r).at = r.at /\ Round(fs, d, r).m = r.m
         /\ r.end = "open" /\ r.at <= Len(d) =>
              LET f == FieldAt(d, r.at)
              IN Round(fs, d, r)
                   = [end |-> f.end, at |-> f.next, m |-> Effect(fs, r.m, f, SubSeq(d, r.at, f.next - 1))]
<1> DEFINE s == Round(fs, d, r)
           f == FieldAt(d, r.at)
           x == Effect(fs, r.m, f, SubSeq(d, r.at, f.next - 1))
<1>1. r.end \in {"open", "stopped", "failed", "whole"} /\ r.at \in Nat \ {0} /\ r.m \in AnyMessage
  BY DEF LoopStates
<1>2. CASE r.end # "open"
  BY <1>2 DEF Round
<1>3. CASE r.end = "open" /\ r.at > Len(d)
  <2>1. s = [r EXCEPT !.end = "whole"]
    BY <1>3 DEF Round
  <2> HIDE DEF s
  <2>2. s \in LoopStates /\ s.end = "whole" /\ s.at = r.at /\ s.m = r.m
    BY <2>1 DEF LoopStates
  <2>3. ~(r.at <= Len(d))
    BY <1>1, <1>3
  <2> QED
    BY <1>3, <2>2, <2>3 DEF s
<1>4. CASE r.end = "open" /\ r.at <= Len(d)
  <2>1. ~(r.at > Len(d)) /\ ~(r.end # "open")
    BY <1>1, <1>4
  <2>2. s = [end |-> f.end, at |-> f.next, m |-> x]
    BY ONLY <2>1, Zenon DEF Round, BehindField, Effect
  <2>3. x \in AnyMessage
    BY <1>1, <1>4, EffectIs
  <2>4. f.end \in {"open", "stopped", "failed"} /\ f.next \in Nat \ {0}
    <3>1. /\ f.end \in {"open", "stopped", "failed"}
          /\ f.end = "open" => f.next \in Nat /\ r.at + 1 <= f.next
          /\ f.end # "open" => f.next = r.at
      BY <1>1, FieldIs
    <3> HIDE DEF f
    <3>2. CASE f.end = "open"
      BY <1>1, <3>1, <3>2
    <3>3. CASE f.end # "open"
      BY <1>1, <3>1, <3>3
    <3> QED
      BY <3>2, <3>3
  <2> HIDE DEF x, f, s
  <2>5. s \in LoopStates
    BY ONLY <2>2, <2>3, <2>4 DEF LoopStates
  <2> QED
    BY <2>1, <2>2, <2>5 DEF s, f, x
<1> QED
  BY <1>1, <1>2, <1>3, <1>4

\* The rounds of a reader.
Rounds(fs, m, d, h) ==
  /\ h \in [0..Len(d) + 1 -> LoopStates]
  /\ h[0] = [end |-> "open", at |-> 1, m |-> m]
  /\ \A k \in 1..Len(d) + 1 : h[k] = Round(fs, d, h[k - 1])

\* A reader has its rounds, and answers with the last.
LEMMA RoundsAre ==
  ASSUME NEW fs, FieldList(fs), NEW m \in AnyMessage, NEW d \in Seq(Byte)
  PROVE  \E h : Rounds(fs, m, d, h) /\ MessageParsed(fs, m, d) = Returned(h[Len(d) + 1])
<1> DEFINE N == Len(d) + 1
           V == LoopStates
           base == [end |-> "open", at |-> 1, m |-> m]
           loop[k \in 0..N] == IF k = 0 THEN base ELSE Round(fs, d, loop[k - 1])
           step == [k \in 1..N |-> [t \in V |-> Round(fs, d, t)]]
<1>1. MessageParsed(fs, m, d) = Returned(loop[N])
  BY Zenon DEF MessageParsed
<1>2. N \in Nat /\ base \in V
  BY DEF LoopStates
<1>3. ASSUME NEW t \in V PROVE Round(fs, d, t) \in V
  BY RoundIs
<1> HIDE DEF N, V, base
<1>4. step \in [1..N -> [V -> V]]
  BY <1>3
<1>5. PICK h : IsLoop(h, N, V, base, step)
  <2> HIDE DEF step
  <2> QED
    BY <1>2, <1>4, LoopExists
<1>6. h \in [0..N -> V] /\ h[0] = base
  BY <1>5 DEF IsLoop
<1>7. ASSUME NEW k \in 1..N PROVE h[k] = Round(fs, d, h[k - 1])
  <2>1. k - 1 \in 0..N
    BY <1>2
  <2>2. h[k] = step[k][h[k - 1]] /\ h[k - 1] \in V
    BY <1>5, <1>6, <2>1 DEF IsLoop
  <2> QED
    BY <2>2
<1>8. h = [k \in 0..N |-> IF k = 0 THEN base ELSE Round(fs, d, h[k - 1])]
  <2>1. \A k \in 0..N : k # 0 => k \in 1..N
    BY <1>2
  <2> HIDE DEF step
  <2> QED
    BY <1>6, <1>7, <2>1
<1>9. loop = [k \in 0..N |-> IF k = 0 THEN base ELSE Round(fs, d, loop[k - 1])]
  BY <1>8
<1> HIDE DEF loop, step
<1>10. N \in 0..N /\ 0 \in 0..N /\ \A k \in 1..N : k \in 0..N /\ k # 0
  BY <1>2
<1>11. loop[0] = base /\ \A k \in 1..N : loop[k] = Round(fs, d, loop[k - 1])
  BY <1>9, <1>10
<1> DEFINE C == {k \in 0..N : loop[k] \in V}
<1>12. 0..N \subseteq C
  <2>1. 0 \in C
    BY <1>2, <1>10, <1>11
  <2>2. ASSUME NEW k \in 1..N, k - 1 \in C PROVE k \in C
    BY <1>3, <1>10, <1>11, <2>2
  <2> HIDE DEF C
  <2> QED
    BY <1>2, <2>1, <2>2, RoundInduction
<1>13. loop \in [0..N -> V]
  <2>1. \A k \in 0..N : loop[k] \in V
    BY <1>12
  <2>2. loop = [k \in 0..N |-> loop[k]]
    BY ONLY <1>9
  <2> QED
    BY <2>1, <2>2
<1>14. Rounds(fs, m, d, loop)
  BY <1>11, <1>13, Zenon DEF Rounds, N, V, base
<1>15. MessageParsed(fs, m, d) = Returned(loop[Len(d) + 1])
  BY <1>1 DEF N
<1> QED
  BY ONLY <1>14, <1>15, Zenon

\* What is no longer open stays as it is.
LEMMA StaysAsItIs ==
  ASSUME NEW fs, FieldList(fs), NEW m \in AnyMessage, NEW d \in Seq(Byte), NEW h, Rounds(fs, m, d, h),
         NEW j \in 0..Len(d) + 1, h[j].end # "open", NEW l \in j..Len(d) + 1
  PROVE  h[l] = h[j]
<1> DEFINE N == Len(d) + 1
           C == {k \in 0..N : k >= j => h[k] = h[j]}
<1>1. N \in Nat
  OBVIOUS
<1>2. 0 \in C
  BY <1>1
<1>3. ASSUME NEW k \in 1..N, k - 1 \in C PROVE k \in C
  <2>1. k \in 0..N /\ k - 1 \in 0..N
    BY <1>1
  <2>2. CASE k - 1 >= j
    <3>1. h[k - 1] = h[j]
      BY <1>3, <2>2
    <3>2. h[k] = Round(fs, d, h[k - 1]) /\ h[k - 1] \in LoopStates
      BY <2>1 DEF Rounds
    <3>3. Round(fs, d, h[k - 1]) = h[k - 1]
      BY <3>1, <3>2, RoundIs
    <3> QED
      BY <2>1, <3>1, <3>2, <3>3
  <2>3. CASE ~(k - 1 >= j)
    <3>1. k >= j => k = j
      BY <2>1, <2>3
    <3> QED
      BY <2>1, <3>1
  <2> QED
    BY <2>2, <2>3
<1>4. 0..N \subseteq C
  <2> HIDE DEF N, C
  <2> QED
    BY <1>1, <1>2, <1>3, RoundInduction
<1>5. l \in 0..N /\ l >= j
  BY <1>1
<1> QED
  BY <1>4, <1>5

\* A reader gets on by a byte a round at least, and so is through behind the last.
LEMMA EndIsReached ==
  ASSUME NEW fs, FieldList(fs), NEW m \in AnyMessage, NEW d \in Seq(Byte), NEW h, Rounds(fs, m, d, h)
  PROVE  h[Len(d) + 1].end # "open"
<1> DEFINE N == Len(d) + 1
           C == {k \in 0..N : h[k].end = "open" => h[k].at >= k + 1}
<1>1. N \in Nat /\ N = Len(d) + 1 /\ Len(d) \in Nat
  OBVIOUS
<1>2. \A k \in 0..N : h[k] \in LoopStates
  BY DEF Rounds
<1>3. \A k \in 1..N : h[k] = Round(fs, d, h[k - 1]) /\ k - 1 \in 0..N /\ k \in 0..N
  BY <1>1 DEF Rounds
<1> HIDE DEF N
<1>4. 0 \in C
  <2>1. h[0].at = 1 /\ 0 \in 0..N
    BY <1>1 DEF Rounds
  <2> QED
    BY <2>1
<1>5. ASSUME NEW k \in 1..N, h[k].end = "open"
      PROVE  h[k - 1].end = "open" /\ h[k - 1].at <= Len(d) /\ h[k].at \in Nat /\ h[k].at >= h[k - 1].at + 1
  <2> DEFINE r == h[k - 1]
             s == h[k]
  <2>1. r \in LoopStates /\ s = Round(fs, d, r) /\ s \in LoopStates
    BY <1>2, <1>3
  <2> HIDE DEF r, s
  <2>2. s.end = "open"
    BY <1>5 DEF s
  <2>3. r.end = "open"
    BY <2>1, <2>2, RoundIs
  <2>4. r.at \in Nat \ {0}
    BY <2>1 DEF LoopStates
  <2>5. ~(r.at > Len(d))
    BY <2>1, <2>2, <2>3, RoundIs
  <2>6. r.at <= Len(d)
    BY <1>1, <2>4, <2>5
  <2> DEFINE f == FieldAt(d, r.at)
             x == Effect(fs, r.m, f, SubSeq(d, r.at, f.next - 1))
  <2>7. s = [end |-> f.end, at |-> f.next, m |-> x]
    BY <2>1, <2>3, <2>6, RoundIs
  <2>8. f.end = "open" => f.next \in Nat /\ r.at + 1 <= f.next
    BY <2>4, FieldIs
  <2> HIDE DEF f, x
  <2>9. s.at \in Nat /\ s.at >= r.at + 1
    BY ONLY <2>2, <2>4, <2>7, <2>8
  <2> QED
    BY <2>3, <2>6, <2>9 DEF r, s
<1>6. ASSUME NEW k \in 1..N, k - 1 \in C PROVE k \in C
  <2> SUFFICES ASSUME h[k].end = "open" PROVE h[k].at >= k + 1
    BY <1>3
  <2>1. h[k - 1].end = "open" /\ h[k].at \in Nat /\ h[k].at >= h[k - 1].at + 1
    BY <1>5
  <2>2. h[k - 1].at >= (k - 1) + 1 /\ h[k - 1].at \in Nat
    <3>1. h[k - 1] \in LoopStates
      BY <1>2, <1>3
    <3> QED
      BY <1>6, <2>1, <3>1 DEF LoopStates
  <2> DEFINE a == h[k].at
             b == h[k - 1].at
  <2>3. a \in Nat /\ b \in Nat /\ a >= b + 1 /\ b >= (k - 1) + 1
    BY <2>1, <2>2
  <2> HIDE DEF a, b
  <2>4. a >= k + 1
    BY <1>1, <2>3
  <2> QED
    BY <2>4 DEF a
<1>7. 0..N \subseteq C
  <2> HIDE DEF C
  <2> QED
    BY <1>1, <1>4, <1>6, RoundInduction
<1>8. h[N].end # "open"
  <2> SUFFICES ASSUME h[N].end = "open" PROVE FALSE
    OBVIOUS
  <2>1. N \in 1..N /\ N - 1 \in 0..N
    BY <1>1
  <2>2. h[N - 1].end = "open" /\ h[N - 1].at <= Len(d)
    BY <1>5, <2>1
  <2>3. h[N - 1].at >= (N - 1) + 1 /\ h[N - 1] \in LoopStates
    BY <1>2, <1>7, <2>1, <2>2
  <2>4. h[N - 1].at \in Nat
    BY <2>3 DEF LoopStates
  <2> QED
    BY <1>1, <2>2, <2>3, <2>4
<1> QED
  BY <1>8 DEF N

\* Without bytes there is nothing to read.
LEMMA NothingParsed ==
  ASSUME NEW fs, FieldList(fs), NEW m \in AnyMessage
  PROVE  MessageParsed(fs, m, <<>>) = [ok |-> TRUE, whole |-> TRUE, m |-> m]
<1> DEFINE d == <<>>
<1>1. d \in Seq(Byte) /\ Len(d) = 0
  OBVIOUS
<1> HIDE DEF d
<1>2. PICK h : Rounds(fs, m, d, h) /\ MessageParsed(fs, m, d) = Returned(h[Len(d) + 1])
  BY <1>1, RoundsAre
<1>3. 1 \in 1..Len(d) + 1 /\ 0 \in 0..Len(d) + 1 /\ Len(d) + 1 = 1 /\ 1 - 1 = 0
  BY <1>1
<1>4. h[0] \in LoopStates /\ h[0] = [end |-> "open", at |-> 1, m |-> m] /\ h[1] = Round(fs, d, h[0])
  BY <1>2, <1>3 DEF Rounds
<1>5. h[0].end = "open" /\ h[0].at > Len(d) /\ h[0].m = m
  BY <1>1, <1>4
<1>6. h[1].end = "whole" /\ h[1].m = m
  <2> DEFINE r == h[0]
             s == h[1]
  <2>1. r \in LoopStates /\ s = Round(fs, d, r) /\ r.end = "open" /\ r.at > Len(d) /\ r.m = m
    BY ONLY <1>4, <1>5
  <2> HIDE DEF r, s
  <2>2. Round(fs, d, r).end = "whole" /\ Round(fs, d, r).m = r.m
    BY ONLY <1>1, <2>1, RoundIs, FieldList(fs), Zenon
  <2>3. s.end = "whole" /\ s.m = m
    BY ONLY <2>1, <2>2, Zenon
  <2> QED
    BY <2>3 DEF r, s
<1>7. Returned(h[1]) = [ok |-> TRUE, whole |-> TRUE, m |-> m]
  BY <1>6 DEF Returned
<1> QED
  BY <1>2, <1>3, <1>7 DEF d

\* A loop state s bytes further on.
Further(r, s) == [end |-> r.end, at |-> r.at + s, m |-> r.m]

\* A round there does what it does here.
LEMMA RoundThere ==
  ASSUME NEW fs, FieldList(fs), NEW e \in Seq(Byte), NEW d \in Seq(Byte), NEW s \in Nat,
         Behind(e, 1, d, 1 + s), Len(d) = Len(e) + s, NEW r \in LoopStates
  PROVE  Further(r, s) \in LoopStates /\ Round(fs, d, Further(r, s)) = Further(Round(fs, e, r), s)
<1> DEFINE u == Further(r, s)
<1>1. r.end \in {"open", "stopped", "failed", "whole"} /\ r.at \in Nat \ {0} /\ r.m \in AnyMessage
  BY DEF LoopStates
<1>2. u \in LoopStates /\ u.end = r.end /\ u.at = r.at + s /\ u.m = r.m /\ r.at + s \in Nat \ {0}
  BY <1>1 DEF Further, LoopStates
<1>3. Len(d) \in Nat /\ Len(e) \in Nat
  OBVIOUS
<1> HIDE DEF u
<1>4. CASE r.end # "open"
  <2>1. Round(fs, e, r) = r
    BY <1>4, RoundIs
  <2>2. Round(fs, d, u) = u
    BY <1>2, <1>4, RoundIs
  <2> QED
    BY <1>2, <2>1, <2>2 DEF u
<1>5. CASE r.end = "open" /\ r.at > Len(e)
  <2> DEFINE a == Round(fs, e, r)
             b == Round(fs, d, u)
  <2>1. a.end = "whole" /\ a.at = r.at /\ a.m = r.m
    BY <1>5, RoundIs
  <2>2. u.at > Len(d)
    BY <1>1, <1>2, <1>3, <1>5
  <2>3. b \in LoopStates /\ b.end = "whole" /\ b.at = u.at /\ b.m = u.m
    BY <1>2, <1>5, <2>2, RoundIs
  <2> HIDE DEF a, b
  <2>4. b = Further(a, s)
    BY <1>2, <2>1, <2>3 DEF Further, LoopStates
  <2> QED
    BY <1>2, <2>4 DEF a, b, u
<1>6. CASE r.end = "open" /\ r.at <= Len(e)
  <2> DEFINE p == r.at
             q == r.at + s
             f == FieldAt(e, p)
             g == FieldAt(d, q)
             y == f.next - 1
             z == g.next - 1
  <2>1. u.at <= Len(d) /\ u.end = "open" /\ u.at = q /\ u.m = r.m
    BY <1>1, <1>2, <1>3, <1>6
  <2>2. Behind(e, p, d, q) /\ q + (Len(e) - p) = Len(d)
    <3>1. p \in Nat /\ 1 <= p /\ p <= Len(e) + 1
      BY <1>1, <1>3, <1>6
    <3> HIDE DEF p, q
    <3>2. Behind(e, p, d, (1 + s) + (p - 1))
      <4> DEFINE o == 1
                 v == 1 + s
      <4>1. Behind(e, o, d, v) /\ o <= p
        BY <3>1
      <4> HIDE DEF o, v
      <4>2. Behind(e, p, d, v + (p - o))
        BY ONLY <3>1, <4>1, BehindMoved, d \in Seq(Byte), e \in Seq(Byte)
      <4> QED
        BY ONLY <4>2 DEF o, v
    <3>3. (1 + s) + (p - 1) = q
      BY <3>1, SMTT(30) DEF q, p
    <3>4. q + (Len(e) - p) = Len(d)
      BY <1>3, <3>1, <3>3
    <3> QED
      BY ONLY <3>2, <3>3, <3>4
  <2>3. p \in Nat \ {0} /\ q = p + s
    BY <1>1
  <2> HIDE DEF p, q
  <2>4. /\ g.end = f.end /\ g.tag = f.tag /\ g.value = f.value
        /\ f.end = "open" => g.next = q + (f.next - p)
    BY ONLY <2>2, FieldThere, d \in Seq(Byte), e \in Seq(Byte)
  <2>5. /\ f.end = "open" => f.next \in Nat /\ p + 1 <= f.next /\ f.next <= Len(e) + 1
        /\ f.end # "open" => f.next = p
    BY <2>3, FieldIs
  <2>6. g.end # "open" => g.next = q
    <3>1. q \in Nat \ {0}
      BY <2>3
    <3> QED
      BY <3>1, FieldIs
  <2> HIDE DEF f, g
  <2>7. f.next \in Nat /\ p <= f.next /\ f.next <= Len(e) + 1 /\ g.next = f.next + s
    <3>1. CASE f.end = "open"
      BY <2>3, <2>4, <2>5, <3>1
    <3>2. CASE f.end # "open"
      <4>1. p <= Len(e) + 1
        BY <1>3, <1>6, <2>3 DEF p
      <4> QED
        BY <2>3, <2>4, <2>5, <2>6, <3>2, <4>1
    <3> QED
      BY <3>1, <3>2
  <2>8. SubSeq(d, q, z) = SubSeq(e, p, y)
    <3>1. y \in Int /\ y <= Len(e) /\ z = q + (y - p)
      BY <1>3, <2>3, <2>7
    <3> HIDE DEF y, z
    <3>2. SamePart(d, q, z, e, p, y)
      BY <2>2, <3>1, PartThere
    <3> QED
      BY <3>2 DEF SamePart
  <2> HIDE DEF y, z
  <2> DEFINE x == Effect(fs, r.m, f, SubSeq(e, p, y))
             w == Effect(fs, r.m, g, SubSeq(d, q, z))
  <2>9. w = x
    BY ONLY <2>4, <2>8, Zenon DEF Effect
  <2>10. Round(fs, e, r) = [end |-> f.end, at |-> f.next, m |-> x]
    BY <1>6, RoundIs DEF p, f, y
  <2>11. Round(fs, d, u) = [end |-> g.end, at |-> g.next, m |-> w]
    <3>1. Round(fs, d, u)
            = [end |-> FieldAt(d, u.at).end, at |-> FieldAt(d, u.at).next,
               m |-> Effect(fs, u.m, FieldAt(d, u.at), SubSeq(d, u.at, FieldAt(d, u.at).next - 1))]
      BY <1>2, <2>1, RoundIs
    <3> QED
      BY ONLY <2>1, <3>1, Zenon DEF g, z
  <2> HIDE DEF x, w
  <2>12. Round(fs, d, u) = Further(Round(fs, e, r), s)
    BY ONLY <2>4, <2>7, <2>9, <2>10, <2>11 DEF Further
  <2> QED
    BY <1>2, <2>12 DEF u
<1>7. r.at > Len(e) \/ r.at <= Len(e)
  BY <1>1, <1>3
<1> QED
  BY <1>4, <1>5, <1>6, <1>7

\* Where the first field does not come to an end, the reader stops.
LEMMA StoppedParsed ==
  ASSUME NEW fs, FieldList(fs), NEW m \in AnyMessage, NEW d \in Seq(Byte), d # <<>>, FieldAt(d, 1).end # "open"
  PROVE  MessageParsed(fs, m, d)
           = [ok |-> FieldAt(d, 1).end # "failed", whole |-> FALSE, m |-> Effect(fs, m, FieldAt(d, 1), <<>>)]
<1> DEFINE N == Len(d) + 1
           f == FieldAt(d, 1)
<1>1. PICK h : Rounds(fs, m, d, h) /\ MessageParsed(fs, m, d) = Returned(h[N])
  BY RoundsAre
<1>2. Len(d) \in Nat /\ Len(d) >= 1 /\ 0 \in 0..N /\ 1 \in 0..N /\ 1 \in 1..N /\ N \in 1..N /\ 1 - 1 = 0
  BY EmptySeq
<1>3. f.end \in {"stopped", "failed"} /\ f.next = 1
  BY FieldIs
<1>4. h[0] \in LoopStates /\ h[0] = [end |-> "open", at |-> 1, m |-> m] /\ h[1] = Round(fs, d, h[0])
  BY <1>1, <1>2 DEF Rounds
<1> HIDE DEF f
<1>5. SubSeq(d, 1, f.next - 1) = <<>>
  <2>1. f.next - 1 = 0
    BY <1>3
  <2> QED
    BY ONLY <2>1, d \in Seq(Byte)
<1> DEFINE x == Effect(fs, m, f, <<>>)
<1>6. h[1] = [end |-> f.end, at |-> 1, m |-> x]
  <2> DEFINE r == h[0]
  <2>1. r \in LoopStates /\ r.end = "open" /\ r.at = 1 /\ r.m = m /\ r.at <= Len(d)
    BY <1>2, <1>4
  <2> HIDE DEF r
  <2>2. Round(fs, d, r)
          = [end |-> FieldAt(d, r.at).end, at |-> FieldAt(d, r.at).next,
             m |-> Effect(fs, r.m, FieldAt(d, r.at), SubSeq(d, r.at, FieldAt(d, r.at).next - 1))]
    BY <2>1, RoundIs
  <2>3. Round(fs, d, r) = [end |-> f.end, at |-> f.next, m |-> Effect(fs, m, f, SubSeq(d, 1, f.next - 1))]
    BY ONLY <2>1, <2>2, Zenon DEF f
  <2> QED
    BY ONLY <1>3, <1>4, <1>5, <2>3, Zenon DEF r
<1> HIDE DEF x
<1>7. h[N] = h[1]
  <2>1. h[1].end # "open"
    BY ONLY <1>3, <1>6
  <2> HIDE DEF N
  <2>2. N = Len(d) + 1 /\ 1 \in 0..Len(d) + 1 /\ N \in 1..Len(d) + 1
    BY <1>2 DEF N
  <2> QED
    BY <1>1, <2>1, <2>2, StaysAsItIs
<1>8. Returned(h[1]) = [ok |-> f.end # "failed", whole |-> FALSE, m |-> x]
  <2> DEFINE b == f.end # "failed"
             c == f.end = "whole"
  <2>1. c = FALSE /\ Returned(h[1]) = [ok |-> b, whole |-> c, m |-> x]
    <3>1. ~c
      BY <1>3
    <3>2. c = FALSE
      BY ONLY <3>1, Zenon
    <3>3. h[1].end = f.end /\ h[1].m = x
      BY ONLY <1>6
    <3> QED
      BY ONLY <3>2, <3>3, Zenon DEF Returned
  <2> HIDE DEF b, c
  <2>2. Returned(h[1]) = [ok |-> b, whole |-> FALSE, m |-> x]
    BY ONLY <2>1
  <2> QED
    BY ONLY <2>2, Zenon DEF b
<1> QED
  BY ONLY <1>1, <1>7, <1>8, Zenon DEF f, x

\* The bytes of one field.
Token(a, t, v) ==
  a \in Seq(Byte) /\ a # <<>> /\ FieldAt(a, 1) = [end |-> "open", tag |-> t, value |-> v, next |-> Len(a) + 1]

\* Bytes with others behind them.
LEMMA InFront ==
  ASSUME NEW a \in Seq(Byte), NEW b \in Seq(Byte)
  PROVE  /\ a \o b \in Seq(Byte) /\ Len(a \o b) = Len(a) + Len(b)
         /\ Behind(a, 1, a \o b, 1) /\ Behind(b, 1, a \o b, 1 + Len(a))
<1> DEFINE d == a \o b
           l == Len(a)
           n == Len(b)
<1>1. d \in Seq(Byte) /\ Len(d) = l + n /\ l \in Nat /\ n \in Nat
  BY ConcatProperties
<1>2. \A k \in 1..l : d[k] = a[k]
  OBVIOUS
<1>3. \A k \in 1..n : d[l + k] = b[k]
  OBVIOUS
<1> HIDE DEF d, l, n
<1>5. Behind(a, 1, d, 1)
  <2>1. \A k \in 0..Len(a) - 1 : d[1 + k] = a[1 + k]
    BY <1>1, <1>2 DEF l
  <2>2. 1 <= Len(a) + 1 /\ 1 + (Len(a) - 1) <= Len(d)
    BY <1>1 DEF l
  <2> QED
    BY <2>1, <2>2 DEF Behind
<1>6. Behind(b, 1, d, 1 + l)
  <2>1. \A k \in 0..n - 1 : d[(1 + l) + k] = b[1 + k]
    <3> SUFFICES ASSUME NEW k \in 0..n - 1 PROVE d[(1 + l) + k] = b[1 + k]
      OBVIOUS
    <3>1. 1 + k \in 1..n /\ l + (1 + k) = (1 + l) + k
      BY <1>1
    <3>2. d[l + (1 + k)] = b[1 + k]
      BY <1>3, <3>1
    <3> QED
      BY ONLY <3>1, <3>2
  <2>2. 1 <= n + 1 /\ (1 + l) + (n - 1) <= Len(d) /\ 1 + l \in Nat \ {0}
    BY <1>1
  <2> QED
    BY <2>1, <2>2 DEF Behind, n
<1> QED
  BY <1>1, <1>5, <1>6 DEF d, l, n

\* A field in front is read first, and what follows is read into what it leaves.
LEMMA TokenParsed ==
  ASSUME NEW fs, FieldList(fs), NEW m \in AnyMessage, NEW a, NEW t, NEW v, Token(a, t, v), NEW b \in Seq(Byte)
  PROVE  /\ Fitting(t, v) /\ a \in Seq(Byte) /\ a \o b \in Seq(Byte) /\ TookField(fs, m, t, v, a) \in AnyMessage
         /\ MessageParsed(fs, m, a \o b) = MessageParsed(fs, TookField(fs, m, t, v, a), b)
<1> DEFINE d == a \o b
           l == Len(a)
           n == Len(b)
           x == TookField(fs, m, t, v, a)
           f == FieldAt(d, 1)
           N == Len(d) + 1
<1>1. /\ a \in Seq(Byte) /\ a # <<>> /\ FieldAt(a, 1) = [end |-> "open", tag |-> t, value |-> v, next |-> l + 1]
  BY DEF Token
<1>2. /\ d \in Seq(Byte) /\ Len(d) = l + n /\ Behind(a, 1, d, 1) /\ Behind(b, 1, d, 1 + l)
      /\ l \in Nat /\ l >= 1 /\ n \in Nat
  BY <1>1, InFront, EmptySeq
<1>3. f.end = "open" /\ f.tag = t /\ f.value = v /\ f.next = l + 1
  <2> DEFINE e == FieldAt(a, 1)
  <2>1. e.end = "open" /\ e.tag = t /\ e.value = v /\ e.next = l + 1
    BY ONLY <1>1
  <2> HIDE DEF e, d, l
  <2> DEFINE o == 1
  <2>2. Behind(a, o, d, o) /\ o \in Nat
    BY <1>2
  <2> HIDE DEF o
  <2>3. FieldAt(a, o) = e /\ FieldAt(d, o) = f
    BY ONLY Zenon DEF e, o
  <2> HIDE DEF f
  <2>4. f.end = "open" /\ f.tag = t /\ f.value = v /\ f.next = o + (e.next - o)
    BY ONLY <1>1, <1>2, <2>1, <2>2, <2>3, FieldThere
  <2>5. o + (e.next - o) = l + 1
    BY <1>2, <2>1, <2>2
  <2> QED
    BY ONLY <2>4, <2>5 DEF f
<1>4. SubSeq(d, 1, f.next - 1) = a
  <2>1. f.next - 1 = l
    BY <1>2, <1>3
  <2>2. SubSeq(d, 1, l) = a
    BY ONLY <1>1 DEF d, l
  <2> QED
    BY ONLY <2>1, <2>2, Zenon
<1>5. Fitting(t, v) /\ x \in AnyMessage
  <2>1. Fitting(f.tag, f.value)
    <3> DEFINE o == 1
    <3>1. o \in Nat \ {0} /\ o <= Len(d) /\ f.end # "stopped"
      BY <1>2, <1>3
    <3> HIDE DEF o, d
    <3>2. FieldAt(d, o).end # "stopped" => Fitting(FieldAt(d, o).tag, FieldAt(d, o).value)
      BY <1>2, <3>1, EffectIs
    <3> QED
      BY ONLY <3>1, <3>2, Zenon DEF o
  <2>2. Fitting(t, v)
    BY ONLY <1>3, <2>1, Zenon
  <2>3. x = Merged(m, TookField(fs, New, t, v, a)) /\ TookField(fs, New, t, v, a) \in AnyMessage
    BY <1>1, <2>2, TookMerges
  <2> HIDE DEF x
  <2>4. x \in AnyMessage
    BY <2>3, MergedIs
  <2> QED
    BY <2>2, <2>4
<1>6. PICK h : Rounds(fs, m, d, h) /\ MessageParsed(fs, m, d) = Returned(h[N])
  BY <1>2, RoundsAre
<1> HIDE DEF d, l, n, f, x
<1>7. PICK g : Rounds(fs, x, b, g) /\ MessageParsed(fs, x, b) = Returned(g[n + 1])
  BY <1>5, RoundsAre DEF n
<1>8. h[1] = [end |-> "open", at |-> l + 1, m |-> x]
  <2> DEFINE r == h[0]
  <2>1. h[1] = Round(fs, d, r) /\ r \in LoopStates /\ r = [end |-> "open", at |-> 1, m |-> m]
    <3>1. 1 \in 1..Len(d) + 1 /\ 0 \in 0..Len(d) + 1 /\ 1 - 1 = 0
      BY <1>2
    <3> QED
      BY <1>6, <3>1 DEF Rounds
  <2> HIDE DEF r
  <2>2. r.end = "open" /\ r.at = 1 /\ r.m = m
    BY ONLY <2>1
  <2>3. r.at <= Len(d)
    BY <1>2, <2>2
  <2>4. Round(fs, d, r)
          = [end |-> FieldAt(d, r.at).end, at |-> FieldAt(d, r.at).next,
             m |-> Effect(fs, r.m, FieldAt(d, r.at), SubSeq(d, r.at, FieldAt(d, r.at).next - 1))]
    BY <1>2, <2>1, <2>2, <2>3, RoundIs
  <2>5. Round(fs, d, r) = [end |-> f.end, at |-> f.next, m |-> Effect(fs, m, f, SubSeq(d, 1, f.next - 1))]
    BY ONLY <2>2, <2>4, Zenon DEF f
  <2>6. Effect(fs, m, f, SubSeq(d, 1, f.next - 1)) = x
    BY ONLY <1>3, <1>4, Zenon DEF Effect, x
  <2> QED
    BY ONLY <1>3, <2>1, <2>5, <2>6, Zenon
<1> DEFINE M == n + 1
           C == {k \in 0..M : h[k + 1] = Further(g[k], l)}
<1>9. /\ N = l + n + 1 /\ N \in Nat /\ M \in Nat /\ M + 1 <= N /\ M + 1 \in 0..N /\ N \in M + 1..N /\ M = Len(b) + 1
      /\ \A k \in 1..M : k \in 0..M /\ k - 1 \in 0..M /\ k + 1 \in 1..N /\ (k + 1) - 1 = (k - 1) + 1
  BY <1>2 DEF n
<1>10. 0 \in C
  <2>1. g[0] = [end |-> "open", at |-> 1, m |-> x] /\ 0 \in 0..M /\ 0 + 1 = 1
    BY <1>7, <1>9 DEF Rounds
  <2> QED
    BY <1>2, <1>8, <2>1 DEF Further
<1>11. /\ \A k \in 1..N : h[k] = Round(fs, d, h[k - 1])
       /\ \A k \in 1..M : g[k] = Round(fs, b, g[k - 1])
       /\ \A k \in 0..M : g[k] \in LoopStates
  BY <1>6, <1>7, <1>9 DEF Rounds
<1> HIDE DEF N, M
<1>12. ASSUME NEW k \in 1..M, k - 1 \in C PROVE k \in C
  <2> DEFINE r == g[k - 1]
  <2>1. r \in LoopStates /\ g[k] = Round(fs, b, r)
    BY <1>9, <1>11
  <2>2. h[(k - 1) + 1] = Further(r, l)
    BY <1>12
  <2>3. h[k + 1] = Round(fs, d, h[(k - 1) + 1])
    BY <1>9, <1>11
  <2> HIDE DEF r
  <2>4. Round(fs, d, Further(r, l)) = Further(Round(fs, b, r), l)
    <3>1. Len(d) = Len(b) + l
      BY <1>2 DEF n
    <3> QED
      BY <1>2, <2>1, <3>1, RoundThere
  <2>5. h[k + 1] = Further(g[k], l)
    BY ONLY <2>1, <2>2, <2>3, <2>4, Zenon
  <2> QED
    BY <1>9, <2>5
<1>13. 0..M \subseteq C
  <2> HIDE DEF C
  <2> QED
    BY <1>9, <1>10, <1>12, RoundInduction
<1>14. h[M + 1] = Further(g[M], l)
  BY <1>9, <1>13
<1>15. h[M + 1].end # "open"
  <2>1. g[M].end # "open"
    BY <1>5, <1>7, <1>9, EndIsReached
  <2> QED
    BY ONLY <1>14, <2>1 DEF Further
<1>16. h[N] = h[M + 1]
  <2> DEFINE j == M + 1
  <2>1. j \in 0..Len(d) + 1 /\ N \in j..Len(d) + 1 /\ h[j].end # "open"
    BY <1>9, <1>15 DEF N
  <2> HIDE DEF j
  <2>2. h[N] = h[j]
    BY <1>2, <1>6, <2>1, StaysAsItIs
  <2> QED
    BY <2>2 DEF j
<1>17. Returned(h[N]) = Returned(g[M])
  <2>1. h[N].end = g[M].end /\ h[N].m = g[M].m
    BY ONLY <1>14, <1>16 DEF Further
  <2> QED
    BY ONLY <2>1, Zenon DEF Returned
<1> QED
  BY <1>1, <1>2, <1>5, <1>6, <1>7, <1>17, Zenon DEF d, x, M

\* A varint that ends within the front of some bytes is read from the front alone.
LEMMA VarintWithin ==
  ASSUME NEW e \in Seq(Byte), NEW d \in Seq(Byte), NEW p \in Nat \ {0}, Behind(e, p, d, p),
         ReadVarint(d, p).ok, ReadVarint(d, p).next <= Len(e) + 1
  PROVE  ReadVarint(e, p) = ReadVarint(d, p)
<1> DEFINE r == ReadVarint(d, p)
           s == ReadVarint(e, p)
<1>1. /\ r.ok = TRUE /\ r.value \in Int32 /\ r.next \in Nat /\ p + 1 <= r.next
      /\ r = [ok |-> TRUE, value |-> r.value, next |-> r.next] /\ Ends(d, p, r.next - 1)
  <2>1. Fail.ok = FALSE
    BY DEF Fail
  <2>2. r # Fail
    BY ONLY <2>1, ReadVarint(d, p).ok, Zenon
  <2> QED
    BY <2>2, ReadVarintType
<1> DEFINE x == r.next - 1
<1>2. x \in p..p + 9 /\ x \in p..Len(e) /\ d[x] < 128
  <2>1. r.next <= Len(e) + 1
    OBVIOUS
  <2> QED
    BY <1>1, <2>1 DEF Ends
<1> HIDE DEF r, s, x
<1>3. e[x] = d[x]
  <2>1. \A k \in 0..Len(e) - p : d[p + k] = e[p + k]
    BY DEF Behind
  <2>2. x - p \in 0..Len(e) - p /\ p + (x - p) = x
    BY <1>2
  <2> QED
    BY <2>1, <2>2
<1>4. s # Fail
  <2>1. ~(\A q \in p..p + 9 : q <= Len(e) => ~(e[q] < 128))
    BY <1>2, <1>3
  <2>2. (\E q \in Nat : Ends(e, p, q)) => s # Fail
    <3> SUFFICES ASSUME NEW q \in Nat, Ends(e, p, q) PROVE s # Fail
      OBVIOUS
    <3>1. s = [ok |-> TRUE, value |-> VarintTo(e, p, q), next |-> q + 1]
      BY VarintEnds DEF s
    <3> QED
      BY ONLY <3>1 DEF Fail
  <2> QED
    BY <2>1, <2>2, ReadVarintIs, Zenon DEF s
<1>5. s.ok = TRUE /\ s.next \in Nat /\ s = [ok |-> TRUE, value |-> s.value, next |-> s.next]
  BY <1>4, ReadVarintType DEF s
<1>6. r = [ok |-> TRUE, value |-> s.value, next |-> p + (s.next - p)]
  BY <1>5, VarintThere DEF r, s
<1>7. p + (s.next - p) = s.next
  BY <1>5
<1> QED
  BY ONLY <1>5, <1>6, <1>7, Zenon DEF r, s

\* So is a value that ends there.
LEMMA ValueWithin ==
  ASSUME NEW e \in Seq(Byte), NEW d \in Seq(Byte), NEW p \in Nat \ {0}, Behind(e, p, d, p), NEW w \in 0..7,
         ReadValue(d, p, w).ok, ReadValue(d, p, w).next <= Len(e) + 1
  PROVE  ReadValue(e, p, w).ok
<1> DEFINE r == ReadValue(d, p, w)
           s == ReadValue(e, p, w)
<1>0. r.ok /\ r.next <= Len(e) + 1 /\ Len(e) \in Nat
  OBVIOUS
<1>1. CASE w = 0
  <2>1. r = ReadVarint(d, p) /\ s = ReadVarint(e, p)
    <3>1. ~(w = 1) /\ ~(w = 2) /\ ~(w = 5)
      BY <1>1
    <3> QED
      BY <1>1, <3>1, Zenon DEF ReadValue
  <2> HIDE DEF r, s
  <2>2. ReadVarint(d, p).ok /\ ReadVarint(d, p).next <= Len(e) + 1
    BY ONLY <1>0, <2>1
  <2>3. s = r
    BY <2>1, <2>2, VarintWithin
  <2> QED
    BY <1>0, <2>3 DEF s
<1>2. CASE w = 2
  <2> DEFINE c == ReadVarint(d, p)
             b == ReadVarint(e, p)
  <2>1. r = Counted(d, c) /\ s = Counted(e, b)
    <3>1. ~(w = 0) /\ ~(w = 1) /\ ~(w = 5)
      BY <1>2
    <3> QED
      BY <1>2, <3>1, Zenon DEF ReadValue
  <2>2. c = Fail \/ (c.ok = TRUE /\ c.value \in Int32 /\ c.next \in Nat)
    BY ReadVarintType
  <2> HIDE DEF c, b, r, s
  <2>3. ~(~c.ok \/ c.value < 0)
    <3> SUFFICES ASSUME ~c.ok \/ c.value < 0 PROVE FALSE
      OBVIOUS
    <3> DEFINE z == <<>>
    <3>1. r = [Fail EXCEPT !.value = z]
      BY ONLY <2>1, ~c.ok \/ c.value < 0, Zenon DEF Counted
    <3> HIDE DEF z
    <3>2. r.ok = FALSE
      BY ONLY <3>1 DEF Fail
    <3> QED
      BY <1>0, <3>2
  <2>4. c.ok = TRUE /\ c.value \in Nat /\ c.next \in Nat
    <3>1. Fail.ok = FALSE
      BY DEF Fail
    <3>2. c # Fail
      BY ONLY <2>3, <3>1, Zenon
    <3> QED
      BY <2>2, <2>3, <3>2, Int32Is
  <2>5. r.next = c.next + c.value
    <3> DEFINE v == SubSeq(d, c.next, Min({c.next + c.value - 1, Len(d)}))
               k == c.next + c.value <= Len(d) + 1
    <3>1. r = [ok |-> k, next |-> c.next + c.value, value |-> v]
      BY ONLY <2>1, <2>3, Zenon DEF Counted
    <3> HIDE DEF v, k
    <3> QED
      BY ONLY <3>1
  <2>6. c.next + c.value <= Len(e) + 1
    BY ONLY <1>0, <2>5
  <2>7. c.ok /\ c.next <= Len(e) + 1
    BY ONLY <1>0, <2>4, <2>6
  <2>8. b = c
    BY <2>7, VarintWithin DEF b, c
  <2>9. s.ok
    <3> DEFINE v == SubSeq(e, b.next, Min({b.next + b.value - 1, Len(e)}))
               k == b.next + b.value <= Len(e) + 1
    <3>1. s = [ok |-> k, next |-> b.next + b.value, value |-> v]
      <4>1. ~(~b.ok \/ b.value < 0)
        BY ONLY <2>3, <2>8, Zenon
      <4> QED
        BY ONLY <2>1, <4>1, Zenon DEF Counted
    <3>2. k
      BY ONLY <2>6, <2>8
    <3> HIDE DEF v, k
    <3> QED
      BY ONLY <3>1, <3>2
  <2> QED
    BY ONLY <2>9 DEF s
<1>3. ASSUME NEW n \in Nat, r = [ok |-> p + n <= Len(d), value |-> 0, next |-> p + (n + 1)],
             s = [ok |-> p + n <= Len(e), value |-> 0, next |-> p + (n + 1)]
      PROVE  s.ok
  <2> DEFINE g == p + n <= Len(d)
             h == p + n <= Len(e)
  <2>1. r = [ok |-> g, value |-> 0, next |-> p + (n + 1)] /\ s = [ok |-> h, value |-> 0, next |-> p + (n + 1)]
    BY ONLY <1>3, Zenon
  <2> HIDE DEF r, s, g, h
  <2>2. r.next = p + (n + 1) /\ s.ok = h
    BY ONLY <2>1
  <2>3. h
    BY <1>0, <2>2 DEF h
  <2> QED
    BY ONLY <2>2, <2>3
<1>4. CASE w = 1
  <2>1. /\ r = [ok |-> p + 7 <= Len(d), value |-> 0, next |-> p + 8]
        /\ s = [ok |-> p + 7 <= Len(e), value |-> 0, next |-> p + 8]
    <3>1. ~(w = 0) /\ ~(w = 2) /\ ~(w = 5)
      BY <1>4
    <3> QED
      BY <1>4, <3>1, Zenon DEF ReadValue
  <2>2. p + 8 = p + (7 + 1)
    OBVIOUS
  <2> HIDE DEF r, s
  <2>3. s.ok
    BY <1>3, <2>1, <2>2, 7 \in Nat
  <2> QED
    BY <2>3 DEF s
<1>5. CASE w = 5
  <2>1. /\ r = [ok |-> p + 3 <= Len(d), value |-> 0, next |-> p + 4]
        /\ s = [ok |-> p + 3 <= Len(e), value |-> 0, next |-> p + 4]
    <3>1. ~(w = 0) /\ ~(w = 1) /\ ~(w = 2)
      BY <1>5
    <3> QED
      BY <1>5, <3>1, Zenon DEF ReadValue
  <2>2. p + 4 = p + (3 + 1)
    OBVIOUS
  <2> HIDE DEF r, s
  <2>3. s.ok
    BY <1>3, <2>1, <2>2, 3 \in Nat
  <2> QED
    BY <2>3 DEF s
<1>6. CASE ~(w = 0) /\ ~(w = 1) /\ ~(w = 2) /\ ~(w = 5)
  <2>1. r = Fail
    BY <1>6, Zenon DEF ReadValue
  <2> HIDE DEF r
  <2> QED
    BY <1>0, <2>1 DEF Fail
<1> QED
  BY <1>1, <1>2, <1>4, <1>5, <1>6

\* So is a field.
LEMMA FieldWithin ==
  ASSUME NEW e \in Seq(Byte), NEW d \in Seq(Byte), NEW o \in Nat \ {0}, Behind(e, o, d, o),
         FieldAt(d, o).end = "open", FieldAt(d, o).next <= Len(e) + 1
  PROVE  LET f == FieldAt(d, o) IN
         FieldAt(e, o) = f /\ f = [end |-> "open", tag |-> f.tag, value |-> f.value, next |-> f.next]
<1> DEFINE f == FieldAt(d, o)
           g == FieldAt(e, o)
           t == ReadVarint(d, o)
           u == ReadVarint(e, o)
           w == t.value % 8
           c == t.next
           r == ReadValue(d, c, w)
           s == ReadValue(e, c, w)
<1>0. f.end = "open" /\ f.next <= Len(e) + 1
  OBVIOUS
<1>1. f = IF ~t.ok \/ t.value = 0 \/ w = 4 THEN [end |-> "stopped", tag |-> 0, value |-> 0, next |-> o]
          ELSE [end |-> IF r.ok THEN "open" ELSE "failed", tag |-> t.value, value |-> r.value,
                next |-> IF r.ok THEN r.next ELSE o]
  BY Zenon DEF FieldAt, FieldRead
<1>2. ~(~t.ok \/ t.value = 0 \/ w = 4)
  <2> SUFFICES ASSUME ~t.ok \/ t.value = 0 \/ w = 4 PROVE FALSE
    OBVIOUS
  <2>1. f = [end |-> "stopped", tag |-> 0, value |-> 0, next |-> o]
    BY ONLY <1>1, ~t.ok \/ t.value = 0 \/ w = 4, Zenon
  <2> HIDE DEF f
  <2> QED
    BY ONLY <1>0, <2>1
<1>3. f = [end |-> IF r.ok THEN "open" ELSE "failed", tag |-> t.value, value |-> r.value,
           next |-> IF r.ok THEN r.next ELSE o]
  BY ONLY <1>1, <1>2, Zenon
<1>4. r.ok
  <2> HIDE DEF f, r, t
  <2> QED
    BY ONLY <1>0, <1>3
<1>5. f = [end |-> "open", tag |-> t.value, value |-> r.value, next |-> r.next]
  BY ONLY <1>3, <1>4, Zenon
<1>6. t.value \in Int32 /\ c \in Nat /\ o + 1 <= c /\ c <= Len(d) + 1
  <2>1. t # Fail
    BY <1>2 DEF Fail
  <2> QED
    BY <2>1, ReadVarintType
<1>7. w \in 0..7 /\ c \in Nat \ {0}
  <2>1. t.value \in Int
    BY <1>6, Int32Is
  <2>2. c \in Nat \ {0}
    BY <1>6
  <2> HIDE DEF t, c
  <2>3. w \in 0..7
    BY ONLY <2>1, SMTT(30)
  <2> QED
    BY ONLY <2>2, <2>3
<1>8. r.next \in Nat /\ c <= r.next
  <2> HIDE DEF t, w, c
  <2> QED
    BY <1>4, <1>7, ReadValueIs
<1>9. r.next <= Len(e) + 1 /\ c <= Len(e) + 1
  <2> HIDE DEF f, r, t, c
  <2>1. f.next = r.next
    BY ONLY <1>5
  <2> QED
    BY <1>0, <1>6, <1>8, <2>1
<1>10. u = t
  BY <1>2, <1>9, VarintWithin
<1>11. Behind(e, c, d, c)
  <2> HIDE DEF t, c
  <2>1. o <= c /\ c \in Nat
    BY <1>6
  <2>2. Behind(e, c, d, o + (c - o))
    BY ONLY <1>9, <2>1, BehindMoved, e \in Seq(Byte), d \in Seq(Byte), Behind(e, o, d, o)
  <2>3. o + (c - o) = c
    BY <2>1
  <2> QED
    BY ONLY <2>2, <2>3
<1>12. s.ok
  <2> HIDE DEF t, w, c
  <2> QED
    BY <1>4, <1>7, <1>9, <1>11, ValueWithin
<1>13. s.value = r.value /\ s.next = r.next
  <2> HIDE DEF t, w, c
  <2>1. Moved(s, r, c, c)
    BY ONLY <1>7, <1>11, ValueThere, e \in Seq(Byte), d \in Seq(Byte), Zenon
  <2>2. s.next \in Nat
    BY <1>7, <1>12, ReadValueIs
  <2> HIDE DEF s, r
  <2>3. r.value = s.value /\ r.next = c + (s.next - c)
    BY ONLY <1>12, <2>1, Zenon DEF Moved
  <2>4. c + (s.next - c) = s.next
    BY <1>7, <2>2
  <2> QED
    BY ONLY <2>3, <2>4
<1>14. g = [end |-> IF s.ok THEN "open" ELSE "failed", tag |-> t.value, value |-> s.value,
            next |-> IF s.ok THEN s.next ELSE o]
  <2>1. g = IF ~u.ok \/ u.value = 0 \/ u.value % 8 = 4
            THEN [end |-> "stopped", tag |-> 0, value |-> 0, next |-> o]
            ELSE [end |-> IF ReadValue(e, u.next, u.value % 8).ok THEN "open" ELSE "failed", tag |-> u.value,
                  value |-> ReadValue(e, u.next, u.value % 8).value,
                  next |-> IF ReadValue(e, u.next, u.value % 8).ok THEN ReadValue(e, u.next, u.value % 8).next
                           ELSE o]
    BY ONLY Zenon DEF FieldAt, FieldRead
  <2> HIDE DEF g, u, t
  <2> QED
    BY ONLY <1>2, <1>10, <2>1, Zenon
<1>15. g = f
  <2> HIDE DEF g, f, t, s, r
  <2> QED
    BY ONLY <1>5, <1>12, <1>13, <1>14, Zenon
<1>16. f.tag = t.value /\ f.value = r.value /\ f.next = r.next
  <2> HIDE DEF f, t, r
  <2> QED
    BY ONLY <1>5
<1> HIDE DEF f, g, t, r
<1> QED
  BY ONLY <1>5, <1>15, <1>16, Zenon DEF f, g

\* Bytes are a field and others behind it, unless the first field does not come to an end.
LEMMA FieldsApart ==
  ASSUME NEW d \in Seq(Byte), d # <<>>, FieldAt(d, 1).end = "open"
  PROVE  \E a, b, t, v : Token(a, t, v) /\ b \in Seq(Byte) /\ d = a \o b /\ Len(b) < Len(d)
<1> DEFINE f == FieldAt(d, 1)
           l == f.next - 1
           a == SubSeq(d, 1, l)
           b == SubSeq(d, l + 1, Len(d))
<1>1. f.next \in Nat /\ 2 <= f.next /\ f.next <= Len(d) + 1
  <2>1. f.next \in Nat /\ 1 + 1 <= f.next /\ f.next <= Len(d) + 1
    BY FieldIs
  <2> QED
    BY <2>1
<1>2. l \in Nat /\ 1 <= l /\ l <= Len(d) /\ f.next = l + 1 /\ Len(d) \in Nat
  BY <1>1
<1> HIDE DEF l
<1>3. /\ a \in Seq(Byte) /\ b \in Seq(Byte) /\ Len(a) = l /\ Len(b) = Len(d) - l
      /\ \A k \in 1..l : a[k] = d[k]
      /\ \A k \in 1..Len(d) - l : b[k] = d[l + k]
  <2>1. /\ a \in Seq(Byte) /\ Len(a) = l
        /\ \A k \in 1..l : a[k] = d[k]
    <3>1. \A k \in 1..l : a[k] = d[1 + k - 1]
      BY <1>2
    <3>2. \A k \in 1..l : 1 + k - 1 = k
      BY <1>2
    <3> QED
      BY <1>2, <3>1, <3>2
  <2>2. /\ b \in Seq(Byte) /\ Len(b) = Len(d) - l
        /\ \A k \in 1..Len(d) - l : b[k] = d[l + k]
    BY <1>2
  <2> QED
    BY <2>1, <2>2
<1> HIDE DEF a, b
<1>4. d = a \o b
  <2> DEFINE x == a \o b
  <2>1. x \in Seq(Byte) /\ Len(x) = Len(d)
    <3>1. x \in Seq(Byte) /\ Len(x) = Len(a) + Len(b)
      BY <1>3, ConcatProperties
    <3> HIDE DEF x
    <3> QED
      BY <1>2, <1>3, <3>1
  <2>2. \A k \in 1..Len(d) : x[k] = d[k]
    <3> SUFFICES ASSUME NEW k \in 1..Len(d) PROVE x[k] = d[k]
      OBVIOUS
    <3>1. CASE k <= l
      <4>1. k \in 1..l
        BY <1>2, <3>1
      <4> QED
        BY <1>3, <4>1
    <3>2. CASE k > l
      <4> DEFINE j == k - l
      <4>1. j \in 1..Len(d) - l /\ k = l + j
        BY <1>2, <3>2
      <4> HIDE DEF j
      <4>2. x[l + j] = b[j]
        BY <1>2, <1>3, <4>1
      <4> QED
        BY <1>3, <4>1, <4>2
    <3>3. k <= l \/ k > l
      BY <1>2
    <3> QED
      BY ONLY <3>1, <3>2, <3>3
  <2> HIDE DEF x
  <2>3. x = d
    BY <2>1, <2>2, SeqEqual
  <2> QED
    BY <2>3 DEF x
<1>5. Token(a, f.tag, f.value)
  <2> DEFINE o == 1
  <2>1. FieldAt(d, o).end = "open" /\ FieldAt(d, o).next <= Len(a) + 1 /\ o \in Nat \ {0}
    BY <1>2, <1>3
  <2>2. Behind(a, o, d, o)
    BY <1>3, <1>4, InFront
  <2>3. a # <<>>
    BY <1>2, <1>3
  <2> HIDE DEF o
  <2>4. FieldAt(a, o) = FieldAt(d, o)
        /\ FieldAt(d, o) = [end |-> "open", tag |-> FieldAt(d, o).tag, value |-> FieldAt(d, o).value,
                            next |-> FieldAt(d, o).next]
    BY <1>3, <2>1, <2>2, FieldWithin
  <2>5. FieldAt(a, 1) = [end |-> "open", tag |-> f.tag, value |-> f.value, next |-> f.next]
    BY ONLY <2>4, Zenon DEF o, f
  <2> HIDE DEF f
  <2> QED
    BY ONLY <1>2, <1>3, <2>3, <2>5, Zenon DEF Token
<1>6. Len(b) < Len(d)
  BY <1>2, <1>3
<1> QED
  BY <1>3, <1>4, <1>5, <1>6, Zenon

\* What holds for bytes whenever it holds for all shorter ones holds for all.
LEMMA BytesInduction ==
  ASSUME NEW C, \A d \in Seq(Byte) : (\A e \in Seq(Byte) : Len(e) < Len(d) => e \in C) => d \in C
  PROVE  Seq(Byte) \subseteq C
<1> DEFINE S == {n \in Nat : \A d \in Seq(Byte) : Len(d) < n => d \in C}
<1>1. \A d \in Seq(Byte) : Len(d) \in Nat
  OBVIOUS
<1>2. 0 \in S
  BY <1>1
<1>3. ASSUME NEW n \in S PROVE n + 1 \in S
  <2>1. n \in Nat /\ n + 1 \in Nat /\ \A d \in Seq(Byte) : Len(d) < n => d \in C
    OBVIOUS
  <2>2. ASSUME NEW d \in Seq(Byte), Len(d) < n + 1 PROVE d \in C
    <3>1. \A e \in Seq(Byte) : Len(e) < Len(d) => e \in C
      <4> SUFFICES ASSUME NEW e \in Seq(Byte), Len(e) < Len(d) PROVE e \in C
        OBVIOUS
      <4>1. Len(e) < n
        <5> DEFINE x == Len(e)
                   y == Len(d)
        <5>1. x \in Nat /\ y \in Nat /\ x < y /\ y < n + 1
          BY <2>2
        <5> HIDE DEF x, y
        <5>2. x < n
          BY <2>1, <5>1
        <5> QED
          BY <5>2 DEF x
      <4> QED
        BY <2>1, <4>1
    <3> QED
      BY <3>1
  <2> QED
    BY <2>1, <2>2
<1>4. S = Nat
  <2>1. S \subseteq Nat
    OBVIOUS
  <2> HIDE DEF S
  <2> QED
    BY <1>2, <1>3, <2>1, NatSet
<1>5. ASSUME NEW d \in Seq(Byte) PROVE d \in C
  <2> DEFINE n == Len(d) + 1
  <2>1. n \in Nat /\ Len(d) < n
    BY <1>1
  <2> HIDE DEF n
  <2>2. n \in S
    BY ONLY <1>4, <2>1, Zenon
  <2> QED
    BY <2>1, <2>2
<1> QED
  BY <1>5

\* Bytes that are fields to the end.
WholeFields(d) == d \in Seq(Byte) /\ MessageParsed(<<>>, New, d).whole

\* No list of fields is one, and so is a list of one.
LEMMA FieldListIs == FieldList(<<>>) /\ \A f \in FieldTypes : FieldList(<<f>>)
<1>1. FieldList(<<>>)
  BY DEF FieldList
<1>2. ASSUME NEW f \in FieldTypes PROVE FieldList(<<f>>)
  <2>1. <<f>> \in Seq(FieldTypes) /\ Len(<<f>>) = 1
    OBVIOUS
  <2>2. \A i, j \in 1..1 : i = j
    OBVIOUS
  <2> QED
    BY <2>1, <2>2, Zenon DEF FieldList
<1> QED
  BY <1>1, <1>2

\* Whether a reader gets to the end does not depend on the fields it knows, and not on
\* what it has read before.
LEMMA WholeIs ==
  ASSUME NEW fs, FieldList(fs), NEW m \in AnyMessage, NEW d \in Seq(Byte)
  PROVE  MessageParsed(fs, m, d).whole <=> WholeFields(d)
<1> DEFINE none == <<>>
           C == {e \in Seq(Byte) : \A x \in AnyMessage : \A y \in AnyMessage :
                   MessageParsed(fs, x, e).whole <=> MessageParsed(none, y, e).whole}
<1>0. FieldList(none) /\ New \in AnyMessage
  BY FieldListIs, NewIs
<1> HIDE DEF none
<1>1. ASSUME NEW e \in Seq(Byte), \A b \in Seq(Byte) : Len(b) < Len(e) => b \in C PROVE e \in C
  <2> SUFFICES ASSUME NEW x \in AnyMessage, NEW y \in AnyMessage
               PROVE  MessageParsed(fs, x, e).whole <=> MessageParsed(none, y, e).whole
    OBVIOUS
  <2>1. CASE e = <<>>
    <3>1. /\ MessageParsed(fs, x, <<>>) = [ok |-> TRUE, whole |-> TRUE, m |-> x]
          /\ MessageParsed(none, y, <<>>) = [ok |-> TRUE, whole |-> TRUE, m |-> y]
      BY <1>0, NothingParsed
    <3>2. MessageParsed(fs, x, <<>>).whole = TRUE /\ MessageParsed(none, y, <<>>).whole = TRUE
      BY ONLY <3>1
    <3> QED
      BY ONLY <2>1, <3>2, Zenon
  <2>2. CASE e # <<>> /\ FieldAt(e, 1).end # "open"
    <3>1. MessageParsed(fs, x, e).whole = FALSE
      <4>1. MessageParsed(fs, x, e)
              = [ok |-> FieldAt(e, 1).end # "failed", whole |-> FALSE, m |-> Effect(fs, x, FieldAt(e, 1), <<>>)]
        BY <2>2, StoppedParsed
      <4> DEFINE g == FieldAt(e, 1).end # "failed"
                 w == Effect(fs, x, FieldAt(e, 1), <<>>)
                 r == MessageParsed(fs, x, e)
      <4>2. r = [ok |-> g, whole |-> FALSE, m |-> w]
        BY ONLY <4>1, Zenon
      <4> HIDE DEF g, w, r
      <4>3. r.whole = FALSE
        BY ONLY <4>2
      <4> QED
        BY ONLY <4>3 DEF r
    <3>2. MessageParsed(none, y, e).whole = FALSE
      <4>1. MessageParsed(none, y, e)
              = [ok |-> FieldAt(e, 1).end # "failed", whole |-> FALSE, m |-> Effect(none, y, FieldAt(e, 1), <<>>)]
        BY <1>0, <2>2, StoppedParsed
      <4> DEFINE g == FieldAt(e, 1).end # "failed"
                 w == Effect(none, y, FieldAt(e, 1), <<>>)
                 r == MessageParsed(none, y, e)
      <4>2. r = [ok |-> g, whole |-> FALSE, m |-> w]
        BY ONLY <4>1, Zenon
      <4> HIDE DEF g, w, r
      <4>3. r.whole = FALSE
        BY ONLY <4>2
      <4> QED
        BY ONLY <4>3 DEF r
    <3> QED
      BY ONLY <3>1, <3>2, Zenon
  <2>3. CASE e # <<>> /\ FieldAt(e, 1).end = "open"
    <3>1. PICK a, b, t, v : Token(a, t, v) /\ b \in Seq(Byte) /\ e = a \o b /\ Len(b) < Len(e)
      BY <2>3, FieldsApart
    <3>2. TookField(fs, x, t, v, a) \in AnyMessage /\ MessageParsed(fs, x, a \o b) = MessageParsed(fs, TookField(fs, x, t, v, a), b)
      BY <3>1, TokenParsed
    <3>3. /\ TookField(none, y, t, v, a) \in AnyMessage
          /\ MessageParsed(none, y, a \o b) = MessageParsed(none, TookField(none, y, t, v, a), b)
      BY <1>0, <3>1, TokenParsed
    <3>4. b \in C
      BY <1>1, <3>1
    <3> QED
      BY ONLY <3>1, <3>2, <3>3, <3>4, Zenon
  <2> QED
    BY <2>1, <2>2, <2>3
<1>2. Seq(Byte) \subseteq C
  <2> HIDE DEF C
  <2> QED
    BY <1>1, BytesInduction
<1>3. MessageParsed(fs, m, d).whole <=> MessageParsed(none, New, d).whole
  BY <1>0, <1>2
<1> QED
  BY <1>3, Zenon DEF WholeFields, none

\* Nothing is whole, and bytes behind a field are whole as they are with it.
LEMMA WholeToken ==
  /\ WholeFields(<<>>)
  /\ \A a, t, v : \A b \in Seq(Byte) : Token(a, t, v) => (WholeFields(a \o b) <=> WholeFields(b))
<1> DEFINE none == <<>>
<1>0. FieldList(none) /\ New \in AnyMessage
  BY FieldListIs, NewIs
<1>1. WholeFields(<<>>)
  <2>1. MessageParsed(none, New, <<>>) = [ok |-> TRUE, whole |-> TRUE, m |-> New]
    BY <1>0, NothingParsed
  <2>2. MessageParsed(none, New, <<>>).whole = TRUE
    BY ONLY <2>1
  <2>3. <<>> \in Seq(Byte)
    OBVIOUS
  <2> QED
    BY <2>2, <2>3, Zenon DEF WholeFields
<1> HIDE DEF none
<1>2. ASSUME NEW a, NEW t, NEW v, NEW b \in Seq(Byte), Token(a, t, v) PROVE WholeFields(a \o b) <=> WholeFields(b)
  <2> DEFINE x == TookField(none, New, t, v, a)
  <2>1. x \in AnyMessage /\ a \o b \in Seq(Byte) /\ MessageParsed(none, New, a \o b) = MessageParsed(none, x, b)
    BY <1>0, <1>2, TokenParsed
  <2> HIDE DEF x
  <2>2. MessageParsed(none, x, b).whole <=> WholeFields(b)
    BY <1>0, <2>1, WholeIs
  <2>3. MessageParsed(none, New, a \o b).whole <=> WholeFields(a \o b)
    BY <1>0, <2>1, WholeIs
  <2> QED
    BY ONLY <2>1, <2>2, <2>3, Zenon
<1> QED
  BY <1>1, <1>2

\* A set of bytes that a field in front does not lead out of.
TokenClosed(C) == \A a, t, v : \A b \in C : Token(a, t, v) /\ WholeFields(b) => a \o b \in C

\* Induction on the fields of some bytes.
LEMMA WholeInduction ==
  ASSUME NEW C, <<>> \in C, TokenClosed(C)
  PROVE  \A d : WholeFields(d) => d \in C
<1> DEFINE D == {d \in Seq(Byte) : WholeFields(d) => d \in C}
<1>1. ASSUME NEW d \in Seq(Byte), \A e \in Seq(Byte) : Len(e) < Len(d) => e \in D, WholeFields(d) PROVE d \in C
  <2>1. CASE d = <<>>
    BY <2>1
  <2>2. CASE d # <<>> /\ FieldAt(d, 1).end # "open"
    <3> DEFINE none == <<>>
               x == Effect(none, New, FieldAt(d, 1), <<>>)
               g == FieldAt(d, 1).end # "failed"
               r == MessageParsed(none, New, d)
    <3>1. FieldList(none) /\ New \in AnyMessage
      BY FieldListIs, NewIs
    <3>2. r = [ok |-> g, whole |-> FALSE, m |-> x]
      <4> HIDE DEF none
      <4>1. MessageParsed(none, New, d)
              = [ok |-> FieldAt(d, 1).end # "failed", whole |-> FALSE, m |-> Effect(none, New, FieldAt(d, 1), <<>>)]
        BY <2>2, <3>1, StoppedParsed
      <4> QED
        BY ONLY <4>1, Zenon DEF r, g, x
    <3>3. r.whole
      BY <1>1, Zenon DEF WholeFields
    <3> HIDE DEF g, x, r
    <3>4. r.whole = FALSE
      BY ONLY <3>2
    <3> QED
      BY <3>3, <3>4
  <2>3. CASE d # <<>> /\ FieldAt(d, 1).end = "open"
    <3>1. PICK a, b, t, v : Token(a, t, v) /\ b \in Seq(Byte) /\ d = a \o b /\ Len(b) < Len(d)
      BY <2>3, FieldsApart
    <3>2. WholeFields(b)
      BY ONLY <1>1, <3>1, WholeToken, Zenon
    <3>3. b \in C
      BY <1>1, <3>1, <3>2
    <3> QED
      BY ONLY <3>1, <3>2, <3>3, TokenClosed(C), Zenon DEF TokenClosed
  <2> QED
    BY <2>1, <2>2, <2>3
<1>2. Seq(Byte) \subseteq D
  <2>1. \A d \in Seq(Byte) : (\A e \in Seq(Byte) : Len(e) < Len(d) => e \in D) => d \in D
    BY <1>1
  <2> HIDE DEF D
  <2> QED
    BY <2>1, BytesInduction
<1> QED
  BY <1>2 DEF WholeFields

\* Whatever a reader that knows fs has, of the bytes d it merges x into it, and is content.
Reads(fs, d, x) ==
  /\ d \in Seq(Byte) /\ x \in AnyMessage
  /\ \A m \in AnyMessage : MessageParsed(fs, m, d) = [ok |-> TRUE, whole |-> TRUE, m |-> Merged(m, x)]

\* Of nothing it reads nothing.
LEMMA ReadsNothing == ASSUME NEW fs, FieldList(fs) PROVE Reads(fs, <<>>, New)
<1>1. New \in AnyMessage
  BY NewIs
<1>2. ASSUME NEW m \in AnyMessage
      PROVE  MessageParsed(fs, m, <<>>) = [ok |-> TRUE, whole |-> TRUE, m |-> Merged(m, New)]
  <2>1. Merged(m, New) = m
    BY MergedNew
  <2>2. MessageParsed(fs, m, <<>>) = [ok |-> TRUE, whole |-> TRUE, m |-> m]
    BY NothingParsed
  <2> QED
    BY ONLY <2>1, <2>2, Zenon
<1>3. <<>> \in Seq(Byte)
  OBVIOUS
<1> QED
  BY ONLY <1>1, <1>2, <1>3, Zenon DEF Reads

\* With a field in front it reads the field, and merges the others into it.
LEMMA ReadsToken ==
  ASSUME NEW fs, FieldList(fs), NEW a, NEW t, NEW v, Token(a, t, v), NEW b, NEW y, Reads(fs, b, y)
  PROVE  /\ TookField(fs, New, t, v, a) \in AnyMessage
         /\ Reads(fs, a \o b, Merged(TookField(fs, New, t, v, a), y))
<1> DEFINE w == TookField(fs, New, t, v, a)
           x == Merged(w, y)
           d == a \o b
<1>1. /\ b \in Seq(Byte) /\ y \in AnyMessage
      /\ \A m \in AnyMessage : MessageParsed(fs, m, b) = [ok |-> TRUE, whole |-> TRUE, m |-> Merged(m, y)]
  BY Zenon DEF Reads
<1>2. New \in AnyMessage
  BY NewIs
<1>3. Fitting(t, v) /\ a \in Seq(Byte) /\ d \in Seq(Byte)
  BY <1>1, <1>2, TokenParsed
<1> HIDE DEF d
<1>4. w \in AnyMessage /\ \A m \in AnyMessage : TookField(fs, m, t, v, a) = Merged(m, w)
  BY <1>2, <1>3, TookMerges
<1> HIDE DEF w
<1>5. x \in AnyMessage
  BY <1>1, <1>4, MergedIs
<1>6. ASSUME NEW m \in AnyMessage
      PROVE  MessageParsed(fs, m, d) = [ok |-> TRUE, whole |-> TRUE, m |-> Merged(m, x)]
  <2> DEFINE u == Merged(m, w)
  <2>1. TookField(fs, m, t, v, a) = u /\ u \in AnyMessage
    BY <1>4, MergedIs
  <2>2. MessageParsed(fs, m, d) = MessageParsed(fs, TookField(fs, m, t, v, a), b)
    BY <1>1, TokenParsed DEF d
  <2>3. MessageParsed(fs, u, b) = [ok |-> TRUE, whole |-> TRUE, m |-> Merged(u, y)]
    BY ONLY <1>1, <2>1, Zenon
  <2>4. Merged(u, y) = Merged(m, x)
    BY <1>1, <1>4, MergedAssociative
  <2> HIDE DEF u
  <2> QED
    BY ONLY <2>1, <2>2, <2>3, <2>4, Zenon
<1>7. Reads(fs, d, x)
  BY ONLY <1>3, <1>5, <1>6, Zenon DEF Reads
<1> QED
  BY <1>4, <1>7 DEF w, d

\* Whole bytes are read by every reader.
LEMMA WholeReads ==
  ASSUME NEW fs, FieldList(fs), NEW d, WholeFields(d)
  PROVE  \E x \in AnyMessage : Reads(fs, d, x)
<1> DEFINE C == {e \in Seq(Byte) : \E x \in AnyMessage : Reads(fs, e, x)}
<1>1. <<>> \in C
  BY ReadsNothing, NewIs
<1>2. ASSUME NEW a, NEW t, NEW v, NEW b \in C, Token(a, t, v) PROVE a \o b \in C
  <2>1. PICK y \in AnyMessage : Reads(fs, b, y)
    BY <1>2
  <2> DEFINE x == Merged(TookField(fs, New, t, v, a), y)
  <2>2. Reads(fs, a \o b, x)
    BY <1>2, <2>1, ReadsToken
  <2>3. x \in AnyMessage /\ a \o b \in Seq(Byte)
    BY ONLY <2>2, Zenon DEF Reads
  <2> QED
    BY ONLY <2>2, <2>3, Zenon
<1>3. TokenClosed(C)
  BY ONLY <1>2, Zenon DEF TokenClosed
<1> HIDE DEF C
<1>4. d \in C
  BY <1>1, <1>3, WholeInduction
<1> QED
  BY <1>4 DEF C

\* What it reads is what a new message has when it has read it.
LEMMA ReadsIs ==
  ASSUME NEW fs, FieldList(fs), NEW d, NEW x, Reads(fs, d, x)
  PROVE  /\ WholeFields(d) /\ d \in Seq(Byte) /\ x \in AnyMessage
         /\ MessageParsed(fs, New, d) = [ok |-> TRUE, whole |-> TRUE, m |-> x]
<1>1. d \in Seq(Byte) /\ x \in AnyMessage /\ New \in AnyMessage
  BY NewIs, Zenon DEF Reads
<1>2. MessageParsed(fs, New, d) = [ok |-> TRUE, whole |-> TRUE, m |-> Merged(New, x)]
  BY <1>1, Zenon DEF Reads
<1>3. Merged(New, x) = x
  BY <1>1, MergedNew
<1>4. MessageParsed(fs, New, d) = [ok |-> TRUE, whole |-> TRUE, m |-> x]
  BY ONLY <1>2, <1>3, Zenon
<1>5. MessageParsed(fs, New, d).whole
  BY ONLY <1>4
<1>6. WholeFields(d)
  BY <1>1, <1>5, WholeIs
<1> QED
  BY ONLY <1>1, <1>4, <1>6

\* So there is one such message.
LEMMA ReadsOne ==
  ASSUME NEW fs, FieldList(fs), NEW d, NEW x, NEW y, Reads(fs, d, x), Reads(fs, d, y)
  PROVE  x = y
<1>1. /\ MessageParsed(fs, New, d) = [ok |-> TRUE, whole |-> TRUE, m |-> x]
      /\ MessageParsed(fs, New, d) = [ok |-> TRUE, whole |-> TRUE, m |-> y]
  BY ReadsIs
<1> DEFINE r == MessageParsed(fs, New, d)
<1>2. r = [ok |-> TRUE, whole |-> TRUE, m |-> x] /\ r = [ok |-> TRUE, whole |-> TRUE, m |-> y]
  BY ONLY <1>1
<1> HIDE DEF r
<1>3. r.m = x /\ r.m = y
  BY ONLY <1>2
<1> QED
  BY ONLY <1>3

\* Whole bytes in front are read first.
LEMMA ReadsFront ==
  ASSUME NEW fs, FieldList(fs), NEW a, NEW x, Reads(fs, a, x), NEW b \in Seq(Byte), NEW m \in AnyMessage
  PROVE  /\ a \o b \in Seq(Byte) /\ Merged(m, x) \in AnyMessage
         /\ MessageParsed(fs, m, a \o b) = MessageParsed(fs, Merged(m, x), b)
<1> DEFINE C == {e \in Seq(Byte) : \A n \in AnyMessage :
                   MessageParsed(fs, n, e \o b) = MessageParsed(fs, MessageParsed(fs, n, e).m, b)}
<1>1. <<>> \in C
  <2> SUFFICES ASSUME NEW n \in AnyMessage
               PROVE  MessageParsed(fs, n, <<>> \o b) = MessageParsed(fs, MessageParsed(fs, n, <<>>).m, b)
    BY <<>> \in Seq(Byte)
  <2>1. <<>> \o b = b
    BY ONLY ConcatEmptySeq, b \in Seq(Byte), Zenon
  <2>2. MessageParsed(fs, n, <<>>) = [ok |-> TRUE, whole |-> TRUE, m |-> n]
    BY NothingParsed
  <2>3. MessageParsed(fs, n, <<>>).m = n
    BY ONLY <2>2
  <2> QED
    BY ONLY <2>1, <2>3, Zenon
<1>2. ASSUME NEW c, NEW t, NEW v, NEW e \in C, Token(c, t, v) PROVE c \o e \in C
  <2>1. e \in Seq(Byte) /\ c \in Seq(Byte) /\ c \o e \in Seq(Byte)
    <3>1. e \in Seq(Byte)
      OBVIOUS
    <3> QED
      BY <1>2, <3>1, TokenParsed
  <2> SUFFICES ASSUME NEW n \in AnyMessage
               PROVE  MessageParsed(fs, n, (c \o e) \o b)
                        = MessageParsed(fs, MessageParsed(fs, n, c \o e).m, b)
    BY <2>1
  <2> DEFINE w == TookField(fs, n, t, v, c)
  <2>2. w \in AnyMessage /\ MessageParsed(fs, n, c \o e) = MessageParsed(fs, w, e)
    BY <1>2, <2>1, TokenParsed
  <2>3. e \o b \in Seq(Byte)
    BY ONLY <2>1, b \in Seq(Byte), ConcatProperties, Zenon
  <2>4. MessageParsed(fs, n, c \o (e \o b)) = MessageParsed(fs, w, e \o b)
    <3> DEFINE z == e \o b
    <3>1. z \in Seq(Byte)
      BY <2>3
    <3> HIDE DEF z
    <3>2. MessageParsed(fs, n, c \o z) = MessageParsed(fs, TookField(fs, n, t, v, c), z)
      BY ONLY <1>2, <3>1, TokenParsed, FieldList(fs), n \in AnyMessage
    <3> QED
      BY ONLY <3>2, Zenon DEF z, w
  <2>5. (c \o e) \o b = c \o (e \o b)
    BY ONLY <2>1, b \in Seq(Byte), ConcatAssociative
  <2> HIDE DEF w
  <2>6. MessageParsed(fs, w, e \o b) = MessageParsed(fs, MessageParsed(fs, w, e).m, b)
    BY <2>2
  <2> QED
    BY ONLY <2>2, <2>4, <2>5, <2>6, Zenon
<1>3. TokenClosed(C)
  BY ONLY <1>2, Zenon DEF TokenClosed
<1>4. a \in C
  <2>1. WholeFields(a)
    BY ReadsIs
  <2> HIDE DEF C
  <2> QED
    BY <1>1, <1>3, <2>1, WholeInduction
<1>5. MessageParsed(fs, m, a) = [ok |-> TRUE, whole |-> TRUE, m |-> Merged(m, x)] /\ a \in Seq(Byte) /\ x \in AnyMessage
  BY Zenon DEF Reads
<1>6. MessageParsed(fs, m, a).m = Merged(m, x)
  BY ONLY <1>5
<1>7. MessageParsed(fs, m, a \o b) = MessageParsed(fs, MessageParsed(fs, m, a).m, b)
  BY <1>4
<1>8. a \o b \in Seq(Byte)
  BY ONLY <1>5, b \in Seq(Byte), ConcatProperties, Zenon
<1>9. Merged(m, x) \in AnyMessage
  BY <1>5, MergedIs
<1> QED
  BY ONLY <1>6, <1>7, <1>8, <1>9, Zenon

\* What is behind is read behind, and merged into what is in front.
LEMMA ReadsBoth ==
  ASSUME NEW fs, FieldList(fs), NEW a, NEW x, Reads(fs, a, x), NEW b, NEW y, Reads(fs, b, y)
  PROVE  Reads(fs, a \o b, Merged(x, y)) /\ Merged(x, y) \in AnyMessage
<1>1. /\ b \in Seq(Byte) /\ y \in AnyMessage /\ x \in AnyMessage /\ a \in Seq(Byte)
      /\ \A m \in AnyMessage : MessageParsed(fs, m, b) = [ok |-> TRUE, whole |-> TRUE, m |-> Merged(m, y)]
  BY Zenon DEF Reads
<1>2. Merged(x, y) \in AnyMessage
  BY <1>1, MergedIs
<1>3. a \o b \in Seq(Byte)
  BY ONLY <1>1, ConcatProperties, Zenon
<1>4. ASSUME NEW m \in AnyMessage
      PROVE  MessageParsed(fs, m, a \o b) = [ok |-> TRUE, whole |-> TRUE, m |-> Merged(m, Merged(x, y))]
  <2>1. Merged(m, x) \in AnyMessage /\ MessageParsed(fs, m, a \o b) = MessageParsed(fs, Merged(m, x), b)
    BY <1>1, ReadsFront
  <2>2. MessageParsed(fs, Merged(m, x), b) = [ok |-> TRUE, whole |-> TRUE, m |-> Merged(Merged(m, x), y)]
    BY ONLY <1>1, <2>1, Zenon
  <2>3. Merged(Merged(m, x), y) = Merged(m, Merged(x, y))
    BY <1>1, MergedAssociative
  <2> QED
    BY ONLY <2>1, <2>2, <2>3, Zenon
<1> QED
  BY ONLY <1>1, <1>2, <1>3, <1>4, Zenon DEF Reads

\* Any bytes are whole ones, and behind them nothing or a field that does not come to an end.
LEMMA WholeApart ==
  ASSUME NEW d \in Seq(Byte)
  PROVE  \E a, b : WholeFields(a) /\ a \in Seq(Byte) /\ b \in Seq(Byte) /\ d = a \o b
                   /\ (b = <<>> \/ FieldAt(b, 1).end # "open")
<1> DEFINE Is(e) == \E a, b : WholeFields(a) /\ a \in Seq(Byte) /\ b \in Seq(Byte) /\ e = a \o b
                              /\ (b = <<>> \/ FieldAt(b, 1).end # "open")
           C == {e \in Seq(Byte) : Is(e)}
<1>1. ASSUME NEW e \in Seq(Byte), \A c \in Seq(Byte) : Len(c) < Len(e) => c \in C PROVE Is(e)
  <2>1. CASE e = <<>> \/ FieldAt(e, 1).end # "open"
    <3>1. e = <<>> \o e /\ <<>> \in Seq(Byte)
      BY ConcatEmptySeq
    <3> QED
      BY ONLY <2>1, <3>1, WholeToken, e \in Seq(Byte), Zenon
  <2>2. CASE e # <<>> /\ FieldAt(e, 1).end = "open"
    <3>1. PICK c, f, t, v : Token(c, t, v) /\ f \in Seq(Byte) /\ e = c \o f /\ Len(f) < Len(e)
      BY <2>2, FieldsApart
    <3>2. Is(f)
      BY <1>1, <3>1
    <3>3. PICK a, b : WholeFields(a) /\ a \in Seq(Byte) /\ b \in Seq(Byte) /\ f = a \o b
                      /\ (b = <<>> \/ FieldAt(b, 1).end # "open")
      BY ONLY <3>2, Zenon
    <3>4. c \in Seq(Byte)
      BY ONLY <3>1, Zenon DEF Token
    <3>5. WholeFields(c \o a)
      BY ONLY <3>1, <3>3, WholeToken, Zenon
    <3>6. c \o (a \o b) = (c \o a) \o b
      <4>1. c \in Seq(Byte) /\ a \in Seq(Byte) /\ b \in Seq(Byte)
        BY ONLY <3>3, <3>4
      <4>2. (c \o a) \o b = c \o (a \o b)
        BY ONLY <4>1, ConcatAssociative, SMTT(30)
      <4> QED
        BY ONLY <4>2
    <3>7. c \o a \in Seq(Byte)
      BY ONLY <3>3, <3>4, ConcatProperties, Zenon
    <3> QED
      BY ONLY <3>1, <3>3, <3>5, <3>6, <3>7, Zenon
  <2> QED
    BY <2>1, <2>2
<1>2. Seq(Byte) \subseteq C
  <2>1. \A e \in Seq(Byte) : (\A c \in Seq(Byte) : Len(c) < Len(e) => c \in C) => e \in C
    <3> SUFFICES ASSUME NEW e \in Seq(Byte), \A c \in Seq(Byte) : Len(c) < Len(e) => c \in C PROVE e \in C
      OBVIOUS
    <3>1. Is(e)
      BY <1>1
    <3> QED
      BY <3>1
  <2> HIDE DEF C
  <2> QED
    BY <2>1, BytesInduction
<1>3. d \in C
  BY <1>2
<1> QED
  BY ONLY <1>3, Zenon

\* Nothing but fields that a program that knows fs has no use for.
Foreign(fs, r) == Reads(fs, r, [has |-> <<>>, rest |-> r])

\* Values of fields of fs only, each of its kind.
TypedHas(fs, h) == \A n \in DOMAIN h : \E i \in 1..Len(fs) : fs[i].number = n /\ IsValue(fs[i], h[n])

\* The messages of fs.
MessagesOf(fs) == {m \in AnyMessage : TypedHas(fs, m.has) /\ Foreign(fs, m.rest)}

\* A new message is one.
LEMMA NewIsMessage == ASSUME NEW fs, FieldList(fs) PROVE Foreign(fs, <<>>) /\ TypedHas(fs, <<>>) /\ New \in MessagesOf(fs)
<1>1. New \in AnyMessage /\ New.has = <<>> /\ New.rest = <<>> /\ DOMAIN <<>> = {}
  BY NewIs, NothingIsHas
<1>2. Foreign(fs, <<>>)
  <2>1. Reads(fs, <<>>, New)
    BY ReadsNothing
  <2> QED
    BY ONLY <2>1, Zenon DEF Foreign, New
<1>3. TypedHas(fs, <<>>)
  BY ONLY <1>1, Zenon DEF TypedHas
<1> QED
  BY ONLY <1>1, <1>2, <1>3, Zenon DEF MessagesOf

\* Foreign fields behind foreign fields are foreign.
LEMMA ForeignBoth ==
  ASSUME NEW fs, FieldList(fs), NEW r, Foreign(fs, r), NEW s, Foreign(fs, s)
  PROVE  Foreign(fs, r \o s)
<1> DEFINE none == <<>>
           x == [has |-> none, rest |-> r]
           y == [has |-> none, rest |-> s]
<1>1. Reads(fs, r, x) /\ Reads(fs, s, y) /\ x \in AnyMessage /\ y \in AnyMessage
  BY Zenon DEF Foreign, Reads
<1>2. none \in AnyHas
  BY NothingIsHas
<1>3. Over(none, none) = none
  BY <1>2, OverNothing
<1> HIDE DEF none
<1>4. x.has = none /\ y.has = none /\ x.rest = r /\ y.rest = s
  OBVIOUS
<1>5. Merged(x, y) = [has |-> none, rest |-> r \o s]
  BY ONLY <1>3, <1>4, Zenon DEF Merged
<1> HIDE DEF x, y
<1>6. Reads(fs, r \o s, Merged(x, y))
  BY <1>1, ReadsBoth
<1> QED
  BY ONLY <1>5, <1>6, Zenon DEF Foreign, none

\* Values over values are values.
LEMMA TypedOver ==
  ASSUME NEW fs, NEW g \in AnyHas, NEW h \in AnyHas, TypedHas(fs, g), TypedHas(fs, h)
  PROVE  TypedHas(fs, Over(g, h))
<1> DEFINE o == Over(g, h)
<1>1. /\ DOMAIN o = DOMAIN g \union DOMAIN h
      /\ \A n \in DOMAIN g : o[n] = g[n]
      /\ \A n \in DOMAIN h : n \notin DOMAIN g => o[n] = h[n]
  BY OverIs
<1> HIDE DEF o
<1>2. ASSUME NEW n \in DOMAIN o PROVE \E i \in 1..Len(fs) : fs[i].number = n /\ IsValue(fs[i], o[n])
  <2>1. CASE n \in DOMAIN g
    BY ONLY <1>1, <2>1, TypedHas(fs, g), Zenon DEF TypedHas
  <2>2. CASE n \in DOMAIN h /\ n \notin DOMAIN g
    BY ONLY <1>1, <2>2, TypedHas(fs, h), Zenon DEF TypedHas
  <2> QED
    BY ONLY <1>1, <1>2, <2>1, <2>2, Zenon
<1> QED
  BY ONLY <1>2, Zenon DEF TypedHas, o

\* A message merged into a message is a message.
LEMMA MergedIsMessage ==
  ASSUME NEW fs, FieldList(fs), NEW x \in MessagesOf(fs), NEW y \in MessagesOf(fs)
  PROVE  Merged(x, y) \in MessagesOf(fs)
<1>1. /\ x \in AnyMessage /\ TypedHas(fs, x.has) /\ Foreign(fs, x.rest) /\ x.has \in AnyHas
      /\ y \in AnyMessage /\ TypedHas(fs, y.has) /\ Foreign(fs, y.rest) /\ y.has \in AnyHas
  BY MessageIs DEF MessagesOf
<1> DEFINE z == Merged(x, y)
<1>2. z \in AnyMessage /\ z.has = Over(y.has, x.has) /\ z.rest = x.rest \o y.rest
  BY <1>1, MergedIs
<1>3. TypedHas(fs, Over(y.has, x.has))
  BY <1>1, TypedOver
<1>4. Foreign(fs, x.rest \o y.rest)
  BY <1>1, ForeignBoth
<1> HIDE DEF z
<1>5. TypedHas(fs, z.has) /\ Foreign(fs, z.rest)
  BY ONLY <1>2, <1>3, <1>4, Zenon
<1> QED
  BY ONLY <1>2, <1>5, Zenon DEF MessagesOf, z

\* What a field gives to a new message is a message.
LEMMA TookIsMessage ==
  ASSUME NEW fs, FieldList(fs), NEW a, NEW t, NEW v, Token(a, t, v)
  PROVE  TookField(fs, New, t, v, a) \in MessagesOf(fs)
<1> DEFINE w == TookField(fs, New, t, v, a)
           none == <<>>
<1>1. /\ New \in AnyMessage /\ New.has = none /\ New.rest = <<>> /\ none \in AnyHas /\ TypedHas(fs, none)
      /\ Foreign(fs, <<>>) /\ <<>> \in Seq(Byte) /\ New = [has |-> none, rest |-> <<>>]
  BY NewIs, NothingIsHas, NewIsMessage DEF New
<1> HIDE DEF none
<1>2. w \in AnyMessage /\ Fitting(t, v) /\ a \in Seq(Byte)
  BY <1>1, TokenParsed
<1>3. CASE \A i \in 1..Len(fs) : Tag(fs[i]) # t
  <2>1. w = [has |-> New.has, rest |-> New.rest \o a]
    BY <1>1, <1>2, <1>3, TookIs
  <2>2. New.rest \o a = a
    BY ONLY <1>1, <1>2, ConcatEmptySeq, Zenon
  <2>3. w = [has |-> none, rest |-> a]
    BY ONLY <1>1, <2>1, <2>2, Zenon
  <2>4. Reads(fs, <<>>, New)
    BY ReadsNothing
  <2>5. Reads(fs, a \o <<>>, Merged(w, New))
    BY <2>4, ReadsToken
  <2>6. a \o <<>> = a
    BY ONLY <1>2, ConcatEmptySeq, Zenon
  <2>7. Merged(w, New) = w
    BY <1>2, MergedNew
  <2>8. Foreign(fs, a)
    BY ONLY <2>3, <2>5, <2>6, <2>7, Zenon DEF Foreign, none
  <2> HIDE DEF w
  <2>9. w.has = none /\ w.rest = a
    BY ONLY <2>3
  <2>10. w \in MessagesOf(fs)
    BY ONLY <1>1, <1>2, <2>8, <2>9, Zenon DEF MessagesOf
  <2> QED
    BY <2>10 DEF w
<1>4. ASSUME NEW i \in 1..Len(fs), Tag(fs[i]) = t PROVE w \in MessagesOf(fs)
  <2> DEFINE f == fs[i]
             x == ValueTaken(f, v)
             s == Single(f.number, x)
  <2>1. f \in FieldTypes /\ f.number \in 1..15
    <3>1. f \in FieldTypes
      BY ElementOfSeq DEF FieldList
    <3> HIDE DEF f
    <3> QED
      BY <3>1 DEF FieldTypes
  <2>2. x \in AnyValue /\ IsValue(f, x)
    <3>1. Fitting(Tag(f), v)
      BY <1>2, <1>4
    <3> HIDE DEF f
    <3> QED
      BY <2>1, <3>1, TakenIs
  <2>3. w = [has |-> Over(s, New.has), rest |-> New.rest]
    BY <1>1, <1>2, <1>4, TookIs
  <2> HIDE DEF x
  <2>4. s \in AnyHas /\ DOMAIN s = {f.number} /\ s[f.number] = x
    BY <2>1, <2>2, SingleIs
  <2>5. TypedHas(fs, s)
    <3> HIDE DEF s
    <3>1. \A n \in DOMAIN s : fs[i].number = n /\ IsValue(fs[i], s[n])
      BY ONLY <2>2, <2>4, Zenon DEF f
    <3> QED
      BY ONLY <3>1, i \in 1..Len(fs), Zenon DEF TypedHas
  <2>6. Over(s, none) = s
    BY <2>4, OverNothing DEF none
  <2> HIDE DEF w, s
  <2>7. w.has = s /\ w.rest = <<>>
    <3> DEFINE e == New.rest
    <3>1. w = [has |-> s, rest |-> e] /\ e = <<>>
      BY ONLY <1>1, <2>3, <2>6, Zenon
    <3> HIDE DEF e
    <3>2. w.has = s /\ w.rest = e
      BY ONLY <3>1
    <3> QED
      BY ONLY <3>1, <3>2, Zenon
  <2>8. w \in MessagesOf(fs)
    BY ONLY <1>1, <1>2, <2>5, <2>7, Zenon DEF MessagesOf
  <2> QED
    BY <2>8
<1> QED
  BY <1>3, <1>4

\* What is read of whole bytes is a message.
LEMMA ReadsMessage ==
  ASSUME NEW fs, FieldList(fs), NEW d, NEW x, Reads(fs, d, x)
  PROVE  x \in MessagesOf(fs)
<1> DEFINE C == {e \in Seq(Byte) : \E y \in MessagesOf(fs) : Reads(fs, e, y)}
<1>1. <<>> \in C
  BY ReadsNothing, NewIsMessage
<1>2. ASSUME NEW a, NEW t, NEW v, NEW b \in C, Token(a, t, v) PROVE a \o b \in C
  <2>1. PICK y \in MessagesOf(fs) : Reads(fs, b, y)
    BY <1>2
  <2> DEFINE w == TookField(fs, New, t, v, a)
             z == Merged(w, y)
  <2>2. Reads(fs, a \o b, z)
    BY <1>2, <2>1, ReadsToken
  <2>3. w \in MessagesOf(fs)
    BY <1>2, TookIsMessage
  <2> HIDE DEF w
  <2>4. z \in MessagesOf(fs)
    BY <2>1, <2>3, MergedIsMessage
  <2>5. a \o b \in Seq(Byte)
    BY ONLY <2>2, Zenon DEF Reads
  <2> QED
    BY ONLY <2>2, <2>4, <2>5, Zenon
<1>3. TokenClosed(C)
  BY ONLY <1>2, Zenon DEF TokenClosed
<1> HIDE DEF C
<1>4. WholeFields(d)
  BY ReadsIs
<1>5. d \in C
  BY <1>1, <1>3, <1>4, WholeInduction
<1>6. PICK y \in MessagesOf(fs) : Reads(fs, d, y)
  BY <1>5 DEF C
<1>7. x = y
  BY <1>6, ReadsOne
<1> QED
  BY <1>6, <1>7

\* What a field that does not come to an end leaves is a message.
LEMMA StoppedIsMessage ==
  ASSUME NEW fs, FieldList(fs), NEW m \in MessagesOf(fs), NEW b \in Seq(Byte), b # <<>>, FieldAt(b, 1).end # "open"
  PROVE  Effect(fs, m, FieldAt(b, 1), <<>>) \in MessagesOf(fs)
<1> DEFINE f == FieldAt(b, 1)
           x == Effect(fs, m, f, <<>>)
<1>1. m \in AnyMessage /\ TypedHas(fs, m.has) /\ Foreign(fs, m.rest) /\ m.has \in AnyHas
  BY MessageIs DEF MessagesOf
<1>2. f.end # "stopped" => Fitting(f.tag, f.value)
  <2> DEFINE o == 1
  <2>1. o \in Nat \ {0} /\ o <= Len(b)
    BY EmptySeq
  <2> HIDE DEF o
  <2>2. FieldAt(b, o).end # "stopped" => Fitting(FieldAt(b, o).tag, FieldAt(b, o).value)
    BY <1>1, <2>1, EffectIs
  <2> QED
    BY ONLY <2>2, Zenon DEF o
<1> HIDE DEF f
<1>3. CASE f.end = "failed" /\ f.tag % 8 = 2 /\ Mine(fs, f.tag) # {}
  <2>1. PICK i \in 1..Len(fs) : Tag(fs[i]) = f.tag
    BY <1>3 DEF Mine
  <2> DEFINE g == fs[i]
             v == ValueTaken(g, f.value)
             s == Single(g.number, v)
  <2>2. g \in FieldTypes /\ g.number \in 1..15
    <3>1. g \in FieldTypes
      BY ElementOfSeq DEF FieldList
    <3> HIDE DEF g
    <3> QED
      BY <3>1 DEF FieldTypes
  <2>3. v \in AnyValue /\ IsValue(g, v)
    <3>1. Fitting(Tag(g), f.value)
      BY <1>2, <1>3, <2>1
    <3> HIDE DEF g
    <3> QED
      BY <2>2, <3>1, TakenIs
  <2>4. TookField(fs, m, f.tag, f.value, <<>>) = [has |-> Over(s, m.has), rest |-> m.rest]
    <3> DEFINE e == <<>>
               t == f.tag
               u == f.value
    <3>1. e \in Seq(Byte) /\ Tag(fs[i]) = t
      BY <2>1
    <3> HIDE DEF e, t, u
    <3>2. TookField(fs, m, t, u, e)
            = [has |-> Over(Single(fs[i].number, ValueTaken(fs[i], u)), m.has), rest |-> m.rest]
      BY ONLY <1>1, <3>1, TookIs, FieldList(fs), i \in 1..Len(fs)
    <3> QED
      BY ONLY <3>2, Zenon DEF e, t, u, s, v, g
  <2>5. x = [has |-> Over(s, m.has), rest |-> m.rest]
    BY ONLY <1>3, <2>4, Zenon DEF Effect
  <2> HIDE DEF v, x
  <2>6. s \in AnyHas /\ DOMAIN s = {g.number} /\ s[g.number] = v
    BY <2>2, <2>3, SingleIs
  <2> HIDE DEF s
  <2>7. TypedHas(fs, s)
    <3>1. \A n \in DOMAIN s : fs[i].number = n /\ IsValue(fs[i], s[n])
      BY ONLY <2>3, <2>6, Zenon DEF g
    <3> QED
      BY ONLY <3>1, i \in 1..Len(fs), Zenon DEF TypedHas
  <2>8. TypedHas(fs, Over(s, m.has)) /\ Over(s, m.has) \in AnyHas
    BY <1>1, <2>6, <2>7, TypedOver, OverIs
  <2> DEFINE o == Over(s, m.has)
             r == m.rest
  <2>9. o \in AnyHas /\ r \in Seq(Byte) /\ x = [has |-> o, rest |-> r] /\ TypedHas(fs, o) /\ Foreign(fs, r)
    BY <1>1, <2>5, <2>8, MessageIs
  <2> HIDE DEF o, r
  <2>10. x \in AnyMessage /\ x.has = o /\ x.rest = r
    BY ONLY <2>9 DEF AnyMessage
  <2>11. x \in MessagesOf(fs)
    BY ONLY <2>9, <2>10, Zenon DEF MessagesOf
  <2> QED
    BY <2>11 DEF x, f
<1>4. CASE ~(f.end = "failed" /\ f.tag % 8 = 2 /\ Mine(fs, f.tag) # {})
  <2>1. f.end # "open"
    BY DEF f
  <2>2. x = m
    BY ONLY <1>4, <2>1, Zenon DEF Effect
  <2> QED
    BY <2>2 DEF f, x
<1> QED
  BY <1>3, <1>4

\* Whatever the bytes, what is read into a message leaves a message.
LEMMA ParsedIsMessage ==
  ASSUME NEW fs, FieldList(fs), NEW m \in MessagesOf(fs), NEW d \in Seq(Byte)
  PROVE  /\ MessageParsed(fs, m, d).m \in MessagesOf(fs)
         /\ MessageParsed(fs, m, d).ok \in BOOLEAN /\ MessageParsed(fs, m, d).whole \in BOOLEAN
<1>1. PICK a, b : WholeFields(a) /\ a \in Seq(Byte) /\ b \in Seq(Byte) /\ d = a \o b
                  /\ (b = <<>> \/ FieldAt(b, 1).end # "open")
  BY WholeApart
<1>2. PICK x \in AnyMessage : Reads(fs, a, x)
  BY <1>1, WholeReads
<1> DEFINE n == Merged(m, x)
           r == MessageParsed(fs, m, d)
<1>3. x \in MessagesOf(fs) /\ m \in AnyMessage
  BY <1>2, ReadsMessage DEF MessagesOf
<1>4. n \in MessagesOf(fs)
  BY <1>3, MergedIsMessage
<1>5. MessageParsed(fs, m, a \o b) = MessageParsed(fs, n, b)
  BY <1>1, <1>2, <1>3, ReadsFront
<1>6. r = MessageParsed(fs, n, b) /\ n \in AnyMessage
  BY ONLY <1>1, <1>4, <1>5, Zenon DEF MessagesOf
<1> HIDE DEF n, r
<1>7. CASE b = <<>>
  <2>1. r = [ok |-> TRUE, whole |-> TRUE, m |-> n]
    BY <1>6, <1>7, NothingParsed
  <2>2. r.m = n /\ r.ok = TRUE /\ r.whole = TRUE
    BY ONLY <2>1
  <2> QED
    BY ONLY <1>4, <2>2 DEF r
<1>8. CASE b # <<>> /\ FieldAt(b, 1).end # "open"
  <2> DEFINE g == FieldAt(b, 1).end # "failed"
             w == Effect(fs, n, FieldAt(b, 1), <<>>)
  <2>1. r = [ok |-> g, whole |-> FALSE, m |-> w]
    BY <1>1, <1>6, <1>8, StoppedParsed, Zenon
  <2>2. w \in MessagesOf(fs)
    BY <1>1, <1>4, <1>8, StoppedIsMessage
  <2>3. g \in BOOLEAN
    OBVIOUS
  <2> HIDE DEF g, w
  <2>4. r.m = w /\ r.ok = g /\ r.whole = FALSE
    BY ONLY <2>1
  <2> QED
    BY ONLY <2>2, <2>3, <2>4 DEF r
<1> QED
  BY <1>1, <1>7, <1>8

\* The varint at p of the bytes d is the int i, and as long as w.
ReadThere(d, p, i, w) == ReadVarint(d, p) = [ok |-> TRUE, value |-> i, next |-> p + Len(w)]

\* An int that was written between others is read.
LEMMA WrittenThere ==
  ASSUME NEW i \in Int32, NEW x \in Seq(Byte), NEW y \in Seq(Byte), NEW p, p = Len(x) + 1
  PROVE  LET w == VarintOf(i) IN
         /\ w \in Seq(Byte) /\ Len(w) = Int32Size(i) /\ Len(w) \in Nat \ {0}
         /\ x \o (w \o y) \in Seq(Byte) /\ Len(x \o (w \o y)) = Len(x) + Len(w) + Len(y)
         /\ ReadThere(x \o (w \o y), p, i, w)
<1> DEFINE w == VarintOf(i)
           z == w \o y
           d == x \o z
           l == Len(x)
           n == Len(w)
<1>1. w \in Seq(Byte) /\ n = Int32Size(i) /\ n \in Nat \ {0}
  <2>1. Varint(w) /\ n = Int32Size(i)
    BY VarintIs
  <2> HIDE DEF w
  <2> QED
    BY <2>1 DEF Varint
<1> HIDE DEF w
<1>2. z \in Seq(Byte) /\ Len(z) = n + Len(y) /\ \A k \in 1..n : z[k] = w[k]
  <2>1. \A k \in 1..n : z[k] = w[k]
    BY <1>1
  <2> QED
    BY <1>1, <2>1, ConcatProperties
<1>3. l \in Nat /\ Len(y) \in Nat /\ n \in Nat
  BY <1>1
<1> HIDE DEF z, n
<1>4. d \in Seq(Byte) /\ Len(d) = l + Len(z) /\ \A k \in 1..n : d[l + k] = z[k]
  <2>1. \A k \in 1..n : d[l + k] = z[k]
    BY <1>2, <1>3
  <2>2. d \in Seq(Byte) /\ Len(d) = l + Len(z)
    BY <1>2, ConcatProperties
  <2> QED
    BY <2>1, <2>2
<1> HIDE DEF d, l
<1>5. p = l + 1 /\ p \in Nat \ {0} /\ p + n - 1 <= Len(d) /\ Len(d) = l + n + Len(y)
  BY <1>2, <1>3, <1>4 DEF l
<1>6. \A k \in 1..n : d[p + k - 1] = w[k]
  <2> SUFFICES ASSUME NEW k \in 1..n PROVE d[p + k - 1] = w[k]
    OBVIOUS
  <2>1. p + k - 1 = l + k
    BY <1>3, <1>5
  <2>2. d[l + k] = w[k]
    BY <1>2, <1>4
  <2> QED
    BY ONLY <2>1, <2>2
<1>7. ReadVarint(d, p) = [ok |-> TRUE, value |-> i, next |-> p + Len(VarintOf(i))]
  <2>1. p + Len(VarintOf(i)) - 1 <= Len(d) /\ \A k \in 1..Len(VarintOf(i)) : d[p + k - 1] = VarintOf(i)[k]
    BY ONLY <1>5, <1>6, Zenon DEF n, w
  <2> QED
    BY ONLY <1>4, <1>5, <2>1, WrittenIsRead, i \in Int32, Zenon
<1> QED
  BY ONLY <1>1, <1>4, <1>5, <1>7, Zenon DEF ReadThere, w, n, z, d, l

\* What a reader makes of the value of a field.
Worth(f, v) == IF f.kind = "int32" THEN v.int ELSE v.text

\* A field is written as one field, in as many bytes as its size says, and taken as it was.
LEMMA EncodedIs ==
  ASSUME NEW f \in FieldTypes, NEW v, IsValue(f, v)
  PROVE  /\ Token(Encoded(f, v), Tag(f), Worth(f, v)) /\ ValueTaken(f, Worth(f, v)) = v /\ v \in AnyValue
         /\ Encoded(f, v) \in Seq(Byte) /\ Len(Encoded(f, v)) = SizeOfField(f, v) /\ SizeOfField(f, v) \in Nat
<1> DEFINE t == Tag(f)
           a == VarintOf(t)
           e == Encoded(f, v)
           c == ReadVarint(e, 1)
<1>1. t \in 8..127 /\ t \in Int32 /\ t % 8 = IF f.kind = "int32" THEN 0 ELSE 2
  BY TagIs
<1>2. Int32Size(t) = 1
  <2>1. \A k \in 2..5 : ~(t >= Base[k])
    <3>1. \A k \in 2..5 : k = 2 \/ k = 3 \/ k = 4 \/ k = 5
      OBVIOUS
    <3>2. \A k \in 2..5 : Base[k] >= 128 /\ Base[k] \in Nat
      BY <3>1, BaseIs
    <3> HIDE DEF t
    <3> QED
      BY <1>1, <3>2
  <2>2. {k \in 2..5 : t >= Base[k]} = {}
    BY <2>1
  <2>3. Cardinality({k \in 2..5 : t >= Base[k]}) = 0
    BY ONLY <2>2, FS_EmptySet, Zenon
  <2>4. ~(t < 0)
    BY <1>1
  <2> HIDE DEF t
  <2> QED
    BY ONLY <2>3, <2>4 DEF Int32Size
<1>3. f.kind \in {"int32", "string"}
  BY DEF FieldTypes
<1>4. ASSUME NEW b \in Seq(Byte), e = a \o b
      PROVE  /\ c = [ok |-> TRUE, value |-> t, next |-> 2] /\ a \in Seq(Byte) /\ Len(a) = 1
             /\ e \in Seq(Byte) /\ Len(e) = 1 + Len(b)
  <2> DEFINE n == <<>>
             p == 1
  <2>1. n \in Seq(Byte) /\ p = Len(n) + 1
    OBVIOUS
  <2> HIDE DEF t, p, n
  <2>2. a \in Seq(Byte) /\ Len(a) = Int32Size(t) /\ ReadThere(n \o (a \o b), p, t, a)
    BY ONLY <1>1, <2>1, WrittenThere, b \in Seq(Byte), Zenon
  <2> HIDE DEF a
  <2>3. a \o b \in Seq(Byte) /\ Len(a \o b) = Len(a) + Len(b)
    BY <2>2, ConcatProperties
  <2>4. n \o (a \o b) = a \o b
    BY ONLY <2>3, ConcatEmptySeq, Zenon DEF n
  <2>5. p + Len(a) = 2 /\ Len(a) = 1
    BY <1>2, <2>2 DEF p
  <2>6. ReadVarint(a \o b, p) = [ok |-> TRUE, value |-> t, next |-> 2]
    BY ONLY <2>2, <2>4, <2>5, Zenon DEF ReadThere
  <2> HIDE DEF e
  <2> QED
    BY ONLY <1>4, <2>2, <2>3, <2>5, <2>6, Zenon DEF p
<1>5. ASSUME NEW r, r = ReadValue(e, 2, t % 8), r = [ok |-> TRUE, value |-> Worth(f, v), next |-> Len(e) + 1],
             c = [ok |-> TRUE, value |-> t, next |-> 2], e \in Seq(Byte), Len(e) \in Nat, Len(e) >= 1
      PROVE  Token(e, t, Worth(f, v))
  <2> HIDE DEF c, t, e
  <2>1. c.ok /\ c.value = t /\ c.next = 2
    BY ONLY <1>5
  <2>2. ~(~c.ok \/ c.value = 0 \/ c.value % 8 = 4)
    BY <1>1, <2>1
  <2>3. FieldAt(e, 1) = [end |-> IF ReadValue(e, c.next, c.value % 8).ok THEN "open" ELSE "failed", tag |-> c.value,
                         value |-> ReadValue(e, c.next, c.value % 8).value,
                         next |-> IF ReadValue(e, c.next, c.value % 8).ok
                                  THEN ReadValue(e, c.next, c.value % 8).next ELSE 1]
    BY ONLY <2>2, Zenon DEF FieldAt, FieldRead, c
  <2>4. FieldAt(e, 1) = [end |-> IF r.ok THEN "open" ELSE "failed", tag |-> t, value |-> r.value,
                         next |-> IF r.ok THEN r.next ELSE 1]
    BY ONLY <1>5, <2>1, <2>3, Zenon
  <2>5. r.ok = TRUE /\ r.value = Worth(f, v) /\ r.next = Len(e) + 1
    BY ONLY <1>5
  <2>6. FieldAt(e, 1) = [end |-> "open", tag |-> t, value |-> Worth(f, v), next |-> Len(e) + 1]
    BY ONLY <2>4, <2>5, Zenon
  <2>7. e # <<>>
    BY <1>5
  <2> QED
    BY ONLY <1>5, <2>6, <2>7, Zenon DEF Token
<1>6. CASE f.kind = "int32"
  <2> DEFINE i == v.int
             b == VarintOf(i)
  <2>1. v = [int |-> i] /\ i \in Int32 /\ v \in AnyValue
    BY <1>6 DEF IsValue, AnyValue
  <2>2. Worth(f, v) = i /\ ValueTaken(f, Worth(f, v)) = v
    BY ONLY <1>6, <2>1, Zenon DEF Worth, ValueTaken
  <2>3. e = a \o b
    BY <1>6, Zenon DEF Encoded
  <2> HIDE DEF i
  <2>4. b \in Seq(Byte) /\ Len(b) = Int32Size(i) /\ Len(b) \in Nat \ {0}
    <3>1. Varint(b) /\ Len(b) = Int32Size(i)
      BY <2>1, VarintIs
    <3> HIDE DEF b
    <3> QED
      BY <3>1 DEF Varint
  <2>5. /\ c = [ok |-> TRUE, value |-> t, next |-> 2] /\ a \in Seq(Byte) /\ Len(a) = 1
        /\ e \in Seq(Byte) /\ Len(e) = 1 + Len(b)
    <3> HIDE DEF b, a, e, c
    <3> QED
      BY ONLY <1>4, <2>3, <2>4, Zenon
  <2>6. ReadVarint(e, 2) = [ok |-> TRUE, value |-> i, next |-> Len(e) + 1]
    <3> DEFINE n == <<>>
               p == 2
    <3>1. n \in Seq(Byte) /\ p = Len(a) + 1
      BY <2>5
    <3> HIDE DEF n, p, a
    <3>2. ReadThere(a \o (b \o n), p, i, b)
      BY ONLY <2>1, <2>5, <3>1, WrittenThere, Zenon
    <3>3. b \o n = b
      BY ONLY <2>4, ConcatEmptySeq, Zenon DEF n
    <3> HIDE DEF e, b
    <3>4. p + Len(b) = Len(e) + 1
      BY <2>4, <2>5 DEF p
    <3> QED
      BY ONLY <2>3, <3>2, <3>3, <3>4, Zenon DEF p, ReadThere
  <2>7. Token(e, t, Worth(f, v))
    <3> DEFINE r == ReadVarint(e, 2)
    <3>1. r = ReadValue(e, 2, t % 8)
      <4>1. t % 8 = 0
        BY <1>1, <1>6
      <4>2. ~(t % 8 = 1) /\ ~(t % 8 = 2) /\ ~(t % 8 = 5)
        BY <4>1
      <4> QED
        BY ONLY <4>1, <4>2, Zenon DEF ReadValue
    <3>2. Len(e) \in Nat /\ Len(e) >= 1
      BY <2>4, <2>5
    <3>3. r = [ok |-> TRUE, value |-> Worth(f, v), next |-> Len(e) + 1]
      BY ONLY <2>2, <2>6, Zenon
    <3> HIDE DEF r, e, c, t
    <3> QED
      BY ONLY <1>5, <2>5, <3>1, <3>2, <3>3
  <2>8. SizeOfField(f, v) = 1 + Len(b)
    BY <1>6, <2>4, Zenon DEF SizeOfField, i
  <2>9. 1 + Len(b) \in Nat
    BY <2>4
  <2> QED
    BY ONLY <2>1, <2>2, <2>5, <2>7, <2>8, <2>9, Zenon DEF e, t
<1>7. CASE f.kind = "string"
  <2> DEFINE s == v.text
             n == Len(s)
             b == VarintOf(n)
             y == b \o s
  <2>0. ~(f.kind = "int32")
    BY <1>7
  <2>1. v = [text |-> s] /\ s \in Text /\ v \in AnyValue
    BY <2>0 DEF IsValue, AnyValue
  <2>2. Worth(f, v) = s /\ ValueTaken(f, Worth(f, v)) = v
    BY ONLY <2>0, <2>1, Zenon DEF Worth, ValueTaken
  <2>3. e = a \o y
    BY <2>0, Zenon DEF Encoded
  <2> HIDE DEF s
  <2>4. s \in Seq(Byte) /\ n \in Int32 /\ n \in Nat
    BY <2>1 DEF Text
  <2> HIDE DEF n
  <2>5. b \in Seq(Byte) /\ Len(b) = Int32Size(n) /\ Len(b) \in Nat \ {0}
    <3>1. Varint(b) /\ Len(b) = Int32Size(n)
      BY <2>4, VarintIs
    <3> HIDE DEF b
    <3> QED
      BY <3>1 DEF Varint
  <2> HIDE DEF b
  <2>6. y \in Seq(Byte) /\ Len(y) = Len(b) + n
    BY <2>4, <2>5, ConcatProperties DEF n
  <2>7. /\ c = [ok |-> TRUE, value |-> t, next |-> 2] /\ a \in Seq(Byte) /\ Len(a) = 1
        /\ e \in Seq(Byte) /\ Len(e) = 1 + Len(y)
    <3> HIDE DEF y, a, e, c
    <3> QED
      BY ONLY <1>4, <2>3, <2>6, Zenon
  <2> DEFINE k == ReadVarint(e, 2)
  <2>8. k = [ok |-> TRUE, value |-> n, next |-> 2 + Len(b)]
    <3> DEFINE p == 2
    <3>1. p = Len(a) + 1
      BY <2>7
    <3> HIDE DEF p, a
    <3>2. ReadThere(a \o (b \o s), p, n, b)
      BY ONLY <2>4, <2>7, <3>1, WrittenThere, Zenon DEF b
    <3> HIDE DEF e
    <3> QED
      BY ONLY <2>3, <3>2, Zenon DEF p, ReadThere
  <2>9. Counted(e, k) = [ok |-> TRUE, value |-> s, next |-> Len(e) + 1]
    <3> DEFINE x == 2 + Len(b)
               m == Min({x + n - 1, Len(e)})
               g == x + n <= Len(e) + 1
    <3> HIDE DEF k, e, y
    <3>1. k.ok = TRUE /\ k.value = n /\ k.next = x
      BY ONLY <2>8
    <3>2. ~(~k.ok \/ k.value < 0)
      BY <2>4, <3>1
    <3>3. x + n = Len(e) + 1 /\ x + n - 1 = Len(e) /\ x \in Nat /\ Len(e) \in Nat /\ x + n \in Nat
      BY <2>4, <2>5, <2>6, <2>7
    <3>4. m = Len(e)
      <4>1. m = IF x + n - 1 <= Len(e) THEN x + n - 1 ELSE Len(e)
        BY <3>3, MinOfTwo
      <4> HIDE DEF m, x
      <4> QED
        BY ONLY <3>3, <4>1
    <3>5. Counted(e, k) = [ok |-> k.next + k.value <= Len(e) + 1, next |-> k.next + k.value,
                           value |-> SubSeq(e, k.next, Min({k.next + k.value - 1, Len(e)}))]
      BY ONLY <3>2, Zenon DEF Counted
    <3>6. Counted(e, k) = [ok |-> g, next |-> x + n, value |-> SubSeq(e, x, m)]
      BY ONLY <3>1, <3>5, Zenon
    <3>7. SubSeq(e, x, Len(e)) = s
      <4> DEFINE q == SubSeq(e, x, Len(e))
      <4>1. e = (a \o b) \o s /\ Len(a \o b) = 1 + Len(b) /\ a \o b \in Seq(Byte)
        <5>1. a \in Seq(Byte) /\ b \in Seq(Byte) /\ s \in Seq(Byte)
          BY ONLY <2>4, <2>5, <2>7
        <5> HIDE DEF a
        <5>2. (a \o b) \o s = a \o (b \o s)
          BY ONLY <5>1, ConcatAssociative
        <5>3. Len(a \o b) = 1 + Len(b) /\ a \o b \in Seq(Byte)
          <6>1. Len(a \o b) = Len(a) + Len(b) /\ a \o b \in Seq(Byte)
            BY ONLY <5>1, ConcatProperties, Zenon
          <6> QED
            BY ONLY <2>7, <6>1, Zenon
        <5> QED
          BY ONLY <2>3, <5>2, <5>3 DEF y
      <4> DEFINE z == a \o b
      <4>2. e = z \o s /\ z \in Seq(Byte) /\ s \in Seq(Byte) /\ Len(z) + 1 = x /\ Len(z) \in Nat
        BY <2>4, <2>5, <4>1
      <4> HIDE DEF z, x
      <4>3. Len(e) = Len(z) + Len(s)
        BY ONLY <4>2, ConcatProperties
      <4>4. SubSeq(z \o s, Len(z) + 1, Len(z) + Len(s)) = s
        BY ONLY <4>2
      <4> QED
        BY ONLY <4>2, <4>3, <4>4, Zenon
    <3>8. g = TRUE
      BY <3>3
    <3> HIDE DEF m, g, x
    <3>9. SubSeq(e, x, m) = s
      BY ONLY <3>4, <3>7, Zenon
    <3> QED
      BY ONLY <3>3, <3>6, <3>8, <3>9, Zenon
  <2>10. Token(e, t, Worth(f, v))
    <3> DEFINE r == Counted(e, k)
    <3>1. r = ReadValue(e, 2, t % 8)
      <4>1. t % 8 = 2
        BY <1>1, <2>0
      <4>2. ~(t % 8 = 0) /\ ~(t % 8 = 1) /\ ~(t % 8 = 5)
        BY <4>1
      <4> QED
        BY ONLY <4>1, <4>2, Zenon DEF ReadValue
    <3>2. Len(e) \in Nat /\ Len(e) >= 1
      <4> HIDE DEF y, e
      <4> QED
        BY <2>4, <2>5, <2>6, <2>7
    <3>3. r = [ok |-> TRUE, value |-> Worth(f, v), next |-> Len(e) + 1]
      BY ONLY <2>2, <2>9, Zenon
    <3> HIDE DEF r, e, c, t
    <3> QED
      BY ONLY <1>5, <2>7, <3>1, <3>2, <3>3
  <2>11. SizeOfField(f, v) = 1 + (Len(b) + n)
    BY <2>0, <2>5, Zenon DEF SizeOfField, n, s
  <2>12. 1 + (Len(b) + n) \in Nat /\ Len(e) = 1 + (Len(b) + n)
    <3> HIDE DEF y, e
    <3> QED
      BY <2>4, <2>5, <2>6, <2>7
  <2> QED
    BY ONLY <2>1, <2>2, <2>7, <2>10, <2>11, <2>12, Zenon DEF e, t
<1> QED
  BY <1>3, <1>6, <1>7

\* What is written of the k-th field.
PartWritten(fs, m, k) == IF IsSet(fs[k], m) THEN Encoded(fs[k], m.has[fs[k].number]) ELSE <<>>

\* What is written of the first fields, by their number.
Parts(fs, m, u) ==
  /\ u \in [0..Len(fs) -> Seq(Byte)]
  /\ u[0] = <<>>
  /\ \A k \in 1..Len(fs) : u[k] = u[k - 1] \o PartWritten(fs, m, k)

\* The values of the first k fields.
UpTo(fs, h, k) == [n \in {x \in DOMAIN h : \E i \in 1..k : fs[i].number = x} |-> h[n]]

\* What is written of a field is its value, or nothing.
LEMMA PartIsField ==
  ASSUME NEW fs, FieldList(fs), NEW m \in MessagesOf(fs), NEW k \in 1..Len(fs)
  PROVE  /\ fs[k] \in FieldTypes /\ fs[k].number \in 1..15
         /\ IsSet(fs[k], m) => IsValue(fs[k], m.has[fs[k].number])
         /\ PartWritten(fs, m, k) \in Seq(Byte)
<1> DEFINE f == fs[k]
           n == f.number
<1>1. f \in FieldTypes
  BY ElementOfSeq DEF FieldList
<1>2. n \in 1..15
  <2> HIDE DEF f
  <2> QED
    BY <1>1 DEF FieldTypes
<1>3. IsSet(f, m) => IsValue(f, m.has[n])
  <2> SUFFICES ASSUME n \in DOMAIN m.has PROVE IsValue(f, m.has[n])
    BY Zenon DEF IsSet
  <2>1. PICK i \in 1..Len(fs) : fs[i].number = n /\ IsValue(fs[i], m.has[n])
    BY DEF MessagesOf, TypedHas
  <2>2. i = k
    BY <2>1 DEF FieldList
  <2> QED
    BY ONLY <2>1, <2>2, Zenon
<1>4. PartWritten(fs, m, k) \in Seq(Byte)
  <2>1. CASE IsSet(f, m)
    <3>1. Encoded(f, m.has[n]) \in Seq(Byte)
      <4> DEFINE v == m.has[n]
      <4>1. IsValue(f, v)
        BY <1>3, <2>1
      <4> HIDE DEF v, f
      <4>2. Encoded(f, v) \in Seq(Byte)
        BY <1>1, <4>1, EncodedIs
      <4> QED
        BY <4>2 DEF v
    <3> QED
      BY ONLY <2>1, <3>1, Zenon DEF PartWritten
  <2>2. CASE ~IsSet(f, m)
    <3>1. PartWritten(fs, m, k) = <<>> /\ <<>> \in Seq(Byte)
      BY <2>2 DEF PartWritten
    <3> QED
      BY ONLY <3>1
  <2> QED
    BY <2>1, <2>2
<1> QED
  BY <1>1, <1>2, <1>3, <1>4

\* A message is written part by part.
LEMMA WrittenIs ==
  ASSUME NEW fs, FieldList(fs), NEW m \in MessagesOf(fs)
  PROVE  \E u : Parts(fs, m, u) /\ Written(fs, m) = u[Len(fs)] \o m.rest
<1> DEFINE N == Len(fs)
           V == Seq(Byte)
           none == <<>>
           upTo[k \in 0..N] ==
             IF k = 0 THEN <<>>
             ELSE upTo[k - 1] \o (IF IsSet(fs[k], m) THEN Encoded(fs[k], m.has[fs[k].number]) ELSE <<>>)
           step == [k \in 1..N |-> [t \in V |-> t \o PartWritten(fs, m, k)]]
<1>1. Written(fs, m) = upTo[N] \o m.rest
  BY Zenon DEF Written
<1>2. N \in Nat /\ none \in V
  BY DEF FieldList
<1>3. ASSUME NEW k \in 1..N, NEW t \in V PROVE t \o PartWritten(fs, m, k) \in V
  <2>1. PartWritten(fs, m, k) \in V
    BY PartIsField
  <2> QED
    BY ONLY <2>1, t \in V, ConcatProperties, Zenon
<1> HIDE DEF N, V, none
<1>4. step \in [1..N -> [V -> V]]
  BY <1>3
<1>5. PICK h : IsLoop(h, N, V, none, step)
  <2> HIDE DEF step
  <2> QED
    BY <1>2, <1>4, LoopExists
<1>6. h \in [0..N -> V] /\ h[0] = none
  BY <1>5 DEF IsLoop
<1>7. ASSUME NEW k \in 1..N PROVE h[k] = h[k - 1] \o PartWritten(fs, m, k)
  <2>1. k - 1 \in 0..N
    BY <1>2
  <2>2. h[k] = step[k][h[k - 1]] /\ h[k - 1] \in V
    BY <1>5, <1>6, <2>1 DEF IsLoop
  <2> QED
    BY <2>2
<1>8. h = [k \in 0..N |-> IF k = 0 THEN none ELSE h[k - 1] \o PartWritten(fs, m, k)]
  <2>1. \A k \in 0..N : k # 0 => k \in 1..N
    BY <1>2, SMTT(30)
  <2> HIDE DEF step
  <2> QED
    BY <1>6, <1>7, <2>1
<1>9. upTo = [k \in 0..N |-> IF k = 0 THEN none ELSE upTo[k - 1] \o PartWritten(fs, m, k)]
  BY <1>8 DEF PartWritten, none
<1> HIDE DEF upTo, step
<1>10. N \in 0..N /\ 0 \in 0..N /\ \A k \in 1..N : k \in 0..N /\ k # 0
  BY <1>2
<1>11. upTo[0] = none /\ \A k \in 1..N : upTo[k] = upTo[k - 1] \o PartWritten(fs, m, k)
  BY <1>9, <1>10
<1> DEFINE C == {k \in 0..N : upTo[k] \in V}
<1>12. 0..N \subseteq C
  <2>1. 0 \in C
    BY <1>2, <1>10, <1>11
  <2>2. ASSUME NEW k \in 1..N, k - 1 \in C PROVE k \in C
    BY <1>3, <1>10, <1>11, <2>2
  <2> HIDE DEF C
  <2> QED
    BY <1>2, <2>1, <2>2, RoundInduction
<1>13. upTo \in [0..N -> V]
  <2>1. \A k \in 0..N : upTo[k] \in V
    BY <1>12
  <2>2. upTo = [k \in 0..N |-> upTo[k]]
    BY ONLY <1>9
  <2> QED
    BY <2>1, <2>2
<1>14. Parts(fs, m, upTo)
  BY <1>11, <1>13, Zenon DEF Parts, N, V, none
<1>15. Written(fs, m) = upTo[Len(fs)] \o m.rest
  BY <1>1 DEF N
<1> QED
  BY ONLY <1>14, <1>15, Zenon

\* The size that is announced is the size that is written.
LEMMA SizeIs ==
  ASSUME NEW fs, FieldList(fs), NEW m \in MessagesOf(fs)
  PROVE  SizeOf(fs, m) = Len(Written(fs, m)) /\ Written(fs, m) \in Seq(Byte)
<1> DEFINE N == Len(fs)
           size(k) == IF IsSet(fs[k], m) THEN SizeOfField(fs[k], m.has[fs[k].number]) ELSE 0
           upTo[k \in 0..N] ==
             IF k = 0 THEN 0
             ELSE upTo[k - 1] + (IF IsSet(fs[k], m) THEN SizeOfField(fs[k], m.has[fs[k].number]) ELSE 0)
<1>1. SizeOf(fs, m) = upTo[N] + Len(m.rest)
  BY Zenon DEF SizeOf
<1>2. PICK u : Parts(fs, m, u) /\ Written(fs, m) = u[N] \o m.rest
  BY WrittenIs
<1>3. /\ N \in Nat /\ N \in 0..N /\ 0 \in 0..N
      /\ \A k \in 1..N : k \in 0..N /\ k - 1 \in 0..N /\ k # 0
      /\ \A k \in 0..N : k # 0 => k \in 1..N
  BY DEF FieldList
<1>4. ASSUME NEW k \in 1..N PROVE size(k) \in Nat /\ Len(PartWritten(fs, m, k)) = size(k)
  <2> DEFINE f == fs[k]
             v == m.has[f.number]
  <2>1. f \in FieldTypes /\ (IsSet(f, m) => IsValue(f, v))
    BY PartIsField
  <2> HIDE DEF f, v
  <2>2. CASE IsSet(f, m)
    <3>1. Len(Encoded(f, v)) = SizeOfField(f, v) /\ SizeOfField(f, v) \in Nat
      BY <2>1, <2>2, EncodedIs
    <3>2. PartWritten(fs, m, k) = Encoded(f, v) /\ size(k) = SizeOfField(f, v)
      BY ONLY <2>2, Zenon DEF PartWritten, f, v
    <3> QED
      BY ONLY <3>1, <3>2, Zenon
  <2>3. CASE ~IsSet(f, m)
    <3>1. PartWritten(fs, m, k) = <<>> /\ size(k) = 0
      BY ONLY <2>3, Zenon DEF PartWritten, f
    <3> HIDE DEF size
    <3> QED
      BY ONLY <3>1
  <2> QED
    BY <2>2, <2>3
<1>5. /\ u \in [0..N -> Seq(Byte)] /\ u[0] = <<>>
      /\ \A k \in 1..N : u[k] = u[k - 1] \o PartWritten(fs, m, k)
  BY <1>2, Zenon DEF Parts
<1> HIDE DEF N, size
<1> DEFINE h == [k \in 0..N |-> Len(u[k])]
<1>6. ASSUME NEW k \in 1..N PROVE h[k] = h[k - 1] + size(k)
  <2>1. u[k - 1] \in Seq(Byte) /\ PartWritten(fs, m, k) \in Seq(Byte)
    BY <1>3, <1>5, PartIsField DEF N
  <2>2. Len(u[k - 1] \o PartWritten(fs, m, k)) = Len(u[k - 1]) + Len(PartWritten(fs, m, k))
    BY ONLY <2>1, ConcatProperties, Zenon
  <2>3. h[k] = Len(u[k]) /\ h[k - 1] = Len(u[k - 1])
    BY <1>3
  <2> QED
    BY ONLY <1>4, <1>5, <2>2, <2>3, Zenon
<1>7. h = [k \in 0..N |-> IF k = 0 THEN 0 ELSE h[k - 1] + size(k)]
  <2>1. h[0] = 0
    BY <1>3, <1>5
  <2>2. h = [k \in 0..N |-> h[k]]
    OBVIOUS
  <2> HIDE DEF h
  <2> QED
    BY ONLY <1>3, <1>6, <2>1, <2>2
<1>8. upTo = [k \in 0..N |-> IF k = 0 THEN 0 ELSE upTo[k - 1] + size(k)]
  <2> HIDE DEF h
  <2> QED
    BY <1>7 DEF size
<1> HIDE DEF upTo
<1>9. upTo[0] = 0 /\ \A k \in 1..N : upTo[k] = upTo[k - 1] + size(k)
  BY <1>3, <1>8
<1> DEFINE C == {k \in 0..N : upTo[k] = h[k]}
<1>10. 0..N \subseteq C
  <2>1. 0 \in C
    <3>1. h[0] = 0
      BY <1>3, <1>5
    <3> HIDE DEF h
    <3> QED
      BY <1>3, <1>9, <3>1
  <2>2. ASSUME NEW k \in 1..N, k - 1 \in C PROVE k \in C
    <3>1. upTo[k - 1] = h[k - 1] /\ k \in 0..N
      BY <1>3, <2>2
    <3> HIDE DEF h
    <3>2. upTo[k] = h[k]
      BY ONLY <1>6, <1>9, <3>1, k \in 1..N, Zenon
    <3> QED
      BY <3>1, <3>2
  <2> HIDE DEF C
  <2> QED
    BY <1>3, <2>1, <2>2, RoundInduction
<1>11. upTo[N] = Len(u[N])
  <2>1. upTo[N] = h[N] /\ h[N] = Len(u[N])
    BY <1>3, <1>10
  <2> QED
    BY <2>1
<1>12. u[N] \in Seq(Byte) /\ m.rest \in Seq(Byte)
  <2>1. m \in AnyMessage
    BY DEF MessagesOf
  <2> QED
    BY <1>3, <1>5, <2>1, MessageIs
<1>13. u[N] \o m.rest \in Seq(Byte) /\ Len(u[N] \o m.rest) = Len(u[N]) + Len(m.rest)
  BY ONLY <1>12, ConcatProperties, Zenon
<1> QED
  BY ONLY <1>1, <1>2, <1>11, <1>13, Zenon DEF N

\* The value of the k-th field, if it has one.
PartHas(fs, m, k) ==
  IF IsSet(fs[k], m) THEN Single(fs[k].number, m.has[fs[k].number]) ELSE <<>>

\* A message of some values, and no foreign fields.
Plain(h) == [has |-> h, rest |-> <<>>]

\* Its parts.
LEMMA PlainIs ==
  /\ \A h \in AnyHas : Plain(h) \in AnyMessage /\ Plain(h).has = h /\ Plain(h).rest = <<>>
  /\ \A g, h \in AnyHas : Merged(Plain(g), Plain(h)) = Plain(Over(h, g))
  /\ Plain(<<>>) = New
<1>1. ASSUME NEW h \in AnyHas PROVE Plain(h) \in AnyMessage /\ Plain(h).has = h /\ Plain(h).rest = <<>>
  <2> DEFINE e == <<>>
  <2>1. e \in Seq(Byte) /\ Plain(h) = [has |-> h, rest |-> e]
    <3>1. e \in Seq(Byte)
      OBVIOUS
    <3> QED
      BY ONLY <3>1, Zenon DEF Plain
  <2> HIDE DEF e
  <2>2. Plain(h) \in AnyMessage /\ Plain(h).has = h /\ Plain(h).rest = e
    BY ONLY <2>1, h \in AnyHas DEF AnyMessage
  <2> QED
    BY <2>2 DEF e
<1>2. ASSUME NEW g \in AnyHas, NEW h \in AnyHas PROVE Merged(Plain(g), Plain(h)) = Plain(Over(h, g))
  <2>1. Plain(g).has = g /\ Plain(h).has = h /\ Plain(g).rest = <<>> /\ Plain(h).rest = <<>>
    BY <1>1
  <2>2. <<>> \o <<>> = <<>>
    OBVIOUS
  <2>3. Merged(Plain(g), Plain(h)) = [has |-> Over(Plain(h).has, Plain(g).has), rest |-> Plain(g).rest \o Plain(h).rest]
    BY ONLY Zenon DEF Merged
  <2>4. Merged(Plain(g), Plain(h)) = [has |-> Over(h, g), rest |-> <<>>]
    BY ONLY <2>1, <2>2, <2>3, Zenon
  <2> QED
    BY ONLY <2>4, Zenon DEF Plain
<1>3. Plain(<<>>) = New
  BY Zenon DEF Plain, New
<1> QED
  BY <1>1, <1>2, <1>3

\* The values of the first fields, one after the other.
LEMMA UpToIs ==
  ASSUME NEW fs, FieldList(fs), NEW m \in MessagesOf(fs)
  PROVE  /\ UpTo(fs, m.has, 0) = <<>> /\ UpTo(fs, m.has, Len(fs)) = m.has
         /\ \A k \in 0..Len(fs) : UpTo(fs, m.has, k) \in AnyHas
         /\ \A k \in 1..Len(fs) : PartHas(fs, m, k) \in AnyHas
                                  /\ UpTo(fs, m.has, k) = Over(PartHas(fs, m, k), UpTo(fs, m.has, k - 1))
<1> DEFINE h == m.has
           N == Len(fs)
           D(k) == {x \in DOMAIN h : \E i \in 1..k : fs[i].number = x}
           U(k) == UpTo(fs, h, k)
<1>1. h \in AnyHas /\ N \in Nat
  BY MessageIs DEF MessagesOf, FieldList
<1>2. ASSUME NEW k \in 0..N PROVE U(k) \in AnyHas /\ DOMAIN U(k) = D(k) /\ \A n \in D(k) : U(k)[n] = h[n]
  <2>1. DOMAIN h \subseteq 1..15 /\ \A n \in DOMAIN h : h[n] \in AnyValue
    BY <1>1, HasIs
  <2>2. U(k) = [n \in D(k) |-> h[n]] /\ D(k) \subseteq DOMAIN h
    BY Zenon DEF UpTo
  <2> DEFINE S == D(k)
             g == [n \in S |-> h[n]]
  <2>3. S \subseteq DOMAIN h /\ U(k) = g
    BY <2>2
  <2> HIDE DEF S, U, h
  <2>4. DOMAIN g = S /\ g = [n \in S |-> g[n]] /\ \A n \in S : g[n] = h[n]
    OBVIOUS
  <2> HIDE DEF g
  <2>5. S \subseteq 1..15 /\ \A n \in S : g[n] \in AnyValue
    BY ONLY <2>1, <2>3, <2>4
  <2>6. g \in AnyHas
    BY ONLY <2>4, <2>5, IsHas
  <2> QED
    BY ONLY <2>3, <2>4, <2>6, Zenon DEF S
<1>3. 0 \in 0..N /\ N \in 0..N /\ \A k \in 1..N : k \in 0..N /\ k - 1 \in 0..N
  BY <1>1
<1> HIDE DEF U, h, N
<1>4. U(0) = <<>>
  <2> DEFINE e == <<>>
  <2>1. e \in AnyHas /\ DOMAIN e = {}
    BY NothingIsHas
  <2>2. D(0) = {}
    <3>1. \A i \in 1..0 : FALSE
      OBVIOUS
    <3> QED
      BY ONLY <3>1, Zenon
  <2>3. U(0) \in AnyHas /\ DOMAIN U(0) = {}
    BY <1>2, <1>3, <2>2
  <2> HIDE DEF e
  <2>4. U(0) = e
    BY ONLY <2>1, <2>3, SameHas
  <2> QED
    BY <2>4 DEF e
<1>5. U(N) = h
  <2>1. \A x \in DOMAIN h : \E i \in 1..N : fs[i].number = x
    BY DEF MessagesOf, TypedHas, h, N
  <2>2. D(N) = DOMAIN h
    BY <2>1
  <2>3. U(N) \in AnyHas /\ DOMAIN U(N) = DOMAIN h /\ \A n \in DOMAIN h : U(N)[n] = h[n]
    BY <1>2, <1>3, <2>2
  <2> QED
    BY ONLY <1>1, <2>3, SameHas
<1>6. ASSUME NEW k \in 1..N PROVE PartHas(fs, m, k) \in AnyHas /\ U(k) = Over(PartHas(fs, m, k), U(k - 1))
  <2> DEFINE n == fs[k].number
             g == PartHas(fs, m, k)
             o == Over(g, U(k - 1))
  <2>1. n \in 1..15
    BY PartIsField DEF N
  <2>2. \A i \in 1..k : i \in 1..(k - 1) \/ i = k
    BY <1>1
  <2>3. \A i \in 1..(k - 1) : i \in 1..k
    BY <1>1
  <2>4. k \in 1..k
    BY <1>1
  <2>5. CASE n \in DOMAIN h
    <3>1. g = Single(n, h[n])
      BY ONLY <2>5, Zenon DEF PartHas, IsSet, h
    <3>2. h[n] \in AnyValue
      BY ONLY <1>1, <2>5, HasIs
    <3>3. g \in AnyHas /\ DOMAIN g = {n} /\ g[n] = h[n]
      <4> DEFINE v == h[n]
      <4>1. n \in 1..15 /\ v \in AnyValue
        BY ONLY <2>1, <3>2
      <4> HIDE DEF v, n, g
      <4>2. Single(n, v) \in AnyHas /\ DOMAIN Single(n, v) = {n} /\ Single(n, v)[n] = v
        BY ONLY <4>1, SingleIs
      <4> QED
        BY ONLY <3>1, <4>2, Zenon DEF v
    <3> HIDE DEF g
    <3>4. o \in AnyHas /\ DOMAIN o = DOMAIN g \union DOMAIN U(k - 1) /\ o[n] = h[n]
          /\ \A x \in DOMAIN U(k - 1) : x # n => o[x] = U(k - 1)[x]
      <4> DEFINE b == U(k - 1)
      <4>1. b \in AnyHas
        BY <1>2, <1>3
      <4> HIDE DEF b, n, g
      <4>2. /\ Over(g, b) \in AnyHas /\ DOMAIN Over(g, b) = DOMAIN g \union DOMAIN b
            /\ \A x \in DOMAIN g : Over(g, b)[x] = g[x]
            /\ \A x \in DOMAIN b : x \notin DOMAIN g => Over(g, b)[x] = b[x]
        BY ONLY <3>3, <4>1, OverIs
      <4>3. n \in DOMAIN g /\ \A x \in DOMAIN b : x # n => x \notin DOMAIN g
        BY ONLY <3>3
      <4> QED
        BY ONLY <3>3, <4>2, <4>3, Zenon DEF b
    <3> HIDE DEF o
    <3>5. D(k) = {n} \union D(k - 1)
      <4>1. \A x \in DOMAIN h : (\E i \in 1..k : fs[i].number = x)
                                <=> x = n \/ \E i \in 1..(k - 1) : fs[i].number = x
        BY ONLY <2>2, <2>3, <2>4, Zenon
      <4> QED
        BY ONLY <2>5, <4>1
    <3>6. U(k) \in AnyHas /\ DOMAIN U(k) = D(k) /\ \A x \in D(k) : U(k)[x] = h[x]
      BY <1>2, <1>3
    <3>7. U(k - 1) \in AnyHas /\ DOMAIN U(k - 1) = D(k - 1) /\ \A x \in D(k - 1) : U(k - 1)[x] = h[x]
      BY <1>2, <1>3
    <3> HIDE DEF D, n
    <3>8. DOMAIN o = DOMAIN U(k)
      BY ONLY <3>3, <3>4, <3>5, <3>6, <3>7, Zenon
    <3>9. \A x \in DOMAIN U(k) : U(k)[x] = o[x]
      BY ONLY <3>3, <3>4, <3>5, <3>6, <3>7
    <3>10. U(k) = o
      BY ONLY <3>4, <3>6, <3>8, <3>9, SameHas
    <3> QED
      BY <3>3, <3>10 DEF o, g
  <2>6. CASE n \notin DOMAIN h
    <3>1. g = <<>>
      BY ONLY <2>6, Zenon DEF PartHas, IsSet, h
    <3>2. U(k - 1) \in AnyHas
      BY <1>2, <1>3
    <3>3. o = U(k - 1)
      BY ONLY <3>1, <3>2, OverNothing, Zenon
    <3>4. D(k) = D(k - 1)
      <4>1. \A x \in DOMAIN h : (\E i \in 1..k : fs[i].number = x) <=> \E i \in 1..(k - 1) : fs[i].number = x
        BY ONLY <2>2, <2>3, <2>4, <2>6, Zenon
      <4> QED
        BY ONLY <4>1
    <3>5. U(k) = U(k - 1)
      BY ONLY <3>4, Zenon DEF U, UpTo
    <3>6. g \in AnyHas
      BY ONLY <3>1, NothingIsHas, Zenon
    <3> QED
      BY ONLY <3>3, <3>5, <3>6, Zenon
  <2> QED
    BY <2>5, <2>6
<1> QED
  BY <1>2, <1>4, <1>5, <1>6 DEF U, h, N

\* A part is read as the value that was written.
LEMMA PartReads ==
  ASSUME NEW fs, FieldList(fs), NEW m \in MessagesOf(fs), NEW k \in 1..Len(fs)
  PROVE  Reads(fs, PartWritten(fs, m, k), Plain(PartHas(fs, m, k)))
<1> DEFINE f == fs[k]
           n == f.number
           v == m.has[n]
<1>1. f \in FieldTypes /\ n \in 1..15 /\ (IsSet(f, m) => IsValue(f, v))
  BY PartIsField
<1>2. CASE IsSet(f, m)
  <2> DEFINE a == Encoded(f, v)
             t == Tag(f)
             x == Worth(f, v)
             w == TookField(fs, New, t, x, a)
  <2>1. PartWritten(fs, m, k) = a /\ PartHas(fs, m, k) = Single(n, v)
    BY ONLY <1>2, Zenon DEF PartWritten, PartHas
  <2> HIDE DEF f, v, n
  <2>2. Token(a, t, x) /\ ValueTaken(f, x) = v /\ v \in AnyValue /\ a \in Seq(Byte)
    BY ONLY <1>1, <1>2, EncodedIs, Zenon
  <2> HIDE DEF a, t, x
  <2>3. Reads(fs, <<>>, New) /\ New \in AnyMessage /\ New.has = <<>> /\ New.rest = <<>>
    BY ReadsNothing, NewIs
  <2>4. w \in AnyMessage /\ Reads(fs, a \o <<>>, Merged(w, New))
    BY <2>2, <2>3, ReadsToken
  <2>5. a \o <<>> = a
    BY ONLY <2>2, ConcatEmptySeq, Zenon
  <2>6. Merged(w, New) = w
    BY <2>4, MergedNew
  <2>7. w = [has |-> Over(Single(n, v), New.has), rest |-> New.rest]
    <3>1. Tag(fs[k]) = t
      BY DEF t, f
    <3>2. w = [has |-> Over(Single(fs[k].number, ValueTaken(fs[k], x)), New.has), rest |-> New.rest]
      BY ONLY <2>2, <2>3, <3>1, TookIs, FieldList(fs), k \in 1..Len(fs)
    <3> QED
      BY ONLY <2>2, <3>2, Zenon DEF f, n
  <2>8. Single(n, v) \in AnyHas
    BY <1>1, <2>2, SingleIs DEF n
  <2>9. Over(Single(n, v), <<>>) = Single(n, v)
    BY ONLY <2>8, OverNothing, Zenon
  <2>10. w = Plain(Single(n, v))
    BY ONLY <2>3, <2>7, <2>9, Zenon DEF Plain
  <2> QED
    BY ONLY <2>1, <2>4, <2>5, <2>6, <2>10, Zenon DEF v, n
<1>3. CASE ~IsSet(f, m)
  <2>1. PartWritten(fs, m, k) = <<>> /\ PartHas(fs, m, k) = <<>>
    BY ONLY <1>3, Zenon DEF PartWritten, PartHas
  <2>2. Reads(fs, <<>>, New) /\ Plain(<<>>) = New
    BY ReadsNothing, PlainIs
  <2> QED
    BY ONLY <2>1, <2>2, Zenon
<1> QED
  BY <1>2, <1>3

\* The parts are read as the values of the fields so far.
LEMMA PartsRead ==
  ASSUME NEW fs, FieldList(fs), NEW m \in MessagesOf(fs), NEW u, Parts(fs, m, u), NEW l \in 0..Len(fs)
  PROVE  Reads(fs, u[l], Plain(UpTo(fs, m.has, l)))
<1> DEFINE N == Len(fs)
           C == {k \in 0..N : Reads(fs, u[k], Plain(UpTo(fs, m.has, k)))}
<1>1. N \in Nat /\ 0 \in 0..N /\ \A k \in 1..N : k \in 0..N /\ k - 1 \in 0..N
  BY DEF FieldList
<1>2. u[0] = <<>> /\ \A k \in 1..N : u[k] = u[k - 1] \o PartWritten(fs, m, k)
  BY DEF Parts
<1>3. 0 \in C
  <2>1. Reads(fs, <<>>, New) /\ Plain(<<>>) = New /\ UpTo(fs, m.has, 0) = <<>>
    BY ReadsNothing, PlainIs, UpToIs
  <2>2. Reads(fs, u[0], Plain(UpTo(fs, m.has, 0)))
    BY ONLY <1>2, <2>1, Zenon
  <2> QED
    BY <1>1, <2>2
<1>4. ASSUME NEW k \in 1..N, k - 1 \in C PROVE k \in C
  <2> DEFINE j == k - 1
             g == UpTo(fs, m.has, j)
             h == PartHas(fs, m, k)
  <2>1. Reads(fs, u[j], Plain(g)) /\ Reads(fs, PartWritten(fs, m, k), Plain(h))
    BY <1>4, PartReads
  <2>2. Reads(fs, u[j] \o PartWritten(fs, m, k), Merged(Plain(g), Plain(h)))
    BY ONLY <2>1, ReadsBoth, FieldList(fs), Zenon
  <2>3. g \in AnyHas /\ h \in AnyHas /\ UpTo(fs, m.has, k) = Over(h, g)
    BY <1>1, UpToIs
  <2> HIDE DEF g, h, j
  <2>4. Merged(Plain(g), Plain(h)) = Plain(Over(h, g))
    BY ONLY <2>3, PlainIs, Zenon
  <2>5. u[k] = u[j] \o PartWritten(fs, m, k)
    BY <1>2 DEF j
  <2>6. Reads(fs, u[k], Plain(UpTo(fs, m.has, k)))
    BY ONLY <2>2, <2>3, <2>4, <2>5, Zenon
  <2> QED
    BY <1>1, <2>6
<1>5. 0..N \subseteq C
  <2> HIDE DEF C
  <2> QED
    BY <1>1, <1>3, <1>4, RoundInduction
<1> QED
  BY <1>5

\* What is written is read as it was.
LEMMA WrittenReads ==
  ASSUME NEW fs, FieldList(fs), NEW m \in MessagesOf(fs)
  PROVE  Reads(fs, Written(fs, m), m)
<1>1. PICK u : Parts(fs, m, u) /\ Written(fs, m) = u[Len(fs)] \o m.rest
  BY WrittenIs
<1> DEFINE h == m.has
           r == m.rest
           none == <<>>
           x == Plain(h)
           y == [has |-> none, rest |-> r]
<1>2. m \in AnyMessage /\ h \in AnyHas /\ r \in Seq(Byte) /\ m = [has |-> h, rest |-> r]
  BY MessageIs DEF MessagesOf
<1>3. Reads(fs, u[Len(fs)], x)
  <2>1. Len(fs) \in 0..Len(fs)
    BY DEF FieldList
  <2>2. Reads(fs, u[Len(fs)], Plain(UpTo(fs, m.has, Len(fs))))
    BY <1>1, <2>1, PartsRead
  <2>3. UpTo(fs, m.has, Len(fs)) = h
    BY UpToIs
  <2> QED
    BY ONLY <2>2, <2>3, Zenon
<1>4. Reads(fs, r, y)
  BY Zenon DEF MessagesOf, Foreign
<1> HIDE DEF h, r
<1>5. Reads(fs, Written(fs, m), Merged(x, y))
  <2> HIDE DEF x, y
  <2> QED
    BY ONLY <1>1, <1>3, <1>4, ReadsBoth, FieldList(fs), Zenon DEF r
<1>6. x.has = h /\ x.rest = <<>>
  BY <1>2, PlainIs
<1>7. Over(none, h) = h /\ <<>> \o r = r
  <2>1. <<>> \o r = r
    BY ONLY <1>2, ConcatEmptySeq, Zenon
  <2> QED
    BY ONLY <1>2, <2>1, OverNothing, Zenon
<1>8. y.has = none /\ y.rest = r
  <2> HIDE DEF none
  <2> QED
    OBVIOUS
<1> HIDE DEF x, y
<1>9. Merged(x, y) = m
  BY ONLY <1>2, <1>6, <1>7, <1>8, Zenon DEF Merged
<1> QED
  BY ONLY <1>5, <1>9, Zenon

\* What a new message has of one field.
LEMMA TookOne ==
  ASSUME NEW fs, FieldList(fs), NEW a, NEW t, NEW v, Token(a, t, v)
  PROVE  LET w == TookField(fs, New, t, v, a) IN
         /\ w \in AnyMessage /\ a \in Seq(Byte)
         /\ (\A i \in 1..Len(fs) : Tag(fs[i]) # t) => w.has = <<>> /\ w.rest = a
         /\ \A i \in 1..Len(fs) : Tag(fs[i]) = t =>
              /\ fs[i].number \in 1..15 /\ ValueTaken(fs[i], v) \in AnyValue
              /\ w.has = Single(fs[i].number, ValueTaken(fs[i], v)) /\ w.rest = <<>>
<1> DEFINE w == TookField(fs, New, t, v, a)
           e == <<>>
           s == <<>>
<1>1. /\ New \in AnyMessage /\ New.has = e /\ New.rest = s /\ e \in AnyHas /\ s \in Seq(Byte)
      /\ s = <<>> /\ e = <<>>
  <2>1. s \in Seq(Byte)
    OBVIOUS
  <2> QED
    BY <2>1, NewIs, NothingIsHas
<1>2. w \in AnyMessage /\ Fitting(t, v) /\ a \in Seq(Byte)
  <2>1. <<>> \in Seq(Byte)
    OBVIOUS
  <2> QED
    BY <1>1, <2>1, TokenParsed
<1> HIDE DEF e, s
<1>3. ASSUME \A i \in 1..Len(fs) : Tag(fs[i]) # t PROVE w.has = e /\ w.rest = a
  <2>1. w = [has |-> New.has, rest |-> New.rest \o a]
    BY <1>1, <1>2, <1>3, TookIs
  <2>2. New.rest \o a = a
    BY ONLY <1>1, <1>2, ConcatEmptySeq, Zenon
  <2>3. w = [has |-> e, rest |-> a]
    BY ONLY <1>1, <2>1, <2>2, Zenon
  <2> HIDE DEF w
  <2> QED
    BY ONLY <2>3
<1>4. ASSUME NEW i \in 1..Len(fs), Tag(fs[i]) = t
      PROVE  /\ fs[i].number \in 1..15 /\ ValueTaken(fs[i], v) \in AnyValue
             /\ w.has = Single(fs[i].number, ValueTaken(fs[i], v)) /\ w.rest = s
  <2> DEFINE f == fs[i]
             n == f.number
             x == ValueTaken(f, v)
             g == Single(n, x)
  <2>1. f \in FieldTypes /\ n \in 1..15
    <3>1. f \in FieldTypes
      BY ElementOfSeq DEF FieldList
    <3> HIDE DEF f
    <3> QED
      BY <3>1 DEF FieldTypes
  <2>2. x \in AnyValue
    <3>1. Fitting(Tag(f), v)
      BY <1>2, <1>4
    <3> HIDE DEF f
    <3> QED
      BY <2>1, <3>1, TakenIs
  <2>3. w = [has |-> Over(g, New.has), rest |-> New.rest]
    BY <1>1, <1>2, <1>4, TookIs
  <2> HIDE DEF x, n
  <2>4. g \in AnyHas
    BY ONLY <2>1, <2>2, SingleIs, Zenon
  <2>5. Over(g, e) = g
    BY <1>1, <2>4, OverNothing
  <2> HIDE DEF w, g
  <2>6. w = [has |-> g, rest |-> s]
    BY ONLY <1>1, <2>3, <2>5, Zenon
  <2>7. w.has = g /\ w.rest = s
    BY ONLY <2>6
  <2> QED
    BY ONLY <2>1, <2>2, <2>7, Zenon DEF g, n, x, f
<1> QED
  BY ONLY <1>1, <1>2, <1>3, <1>4, Zenon DEF w

\* The value of the number n, if there is one.
Narrow(h, n) == [x \in DOMAIN h \cap {n} |-> h[x]]

\* It is the same whether it is taken before or behind.
LEMMA NarrowIs ==
  ASSUME NEW n \in 1..15
  PROVE  /\ \A h \in AnyHas : Narrow(h, n) \in AnyHas /\ DOMAIN Narrow(h, n) = DOMAIN h \cap {n}
                              /\ (n \in DOMAIN h => Narrow(h, n)[n] = h[n])
         /\ \A g, h \in AnyHas : Narrow(Over(g, h), n) = Over(Narrow(g, n), Narrow(h, n))
         /\ \A v \in AnyValue : Narrow(Single(n, v), n) = Single(n, v)
         /\ \A h \in AnyHas : n \notin DOMAIN h => Narrow(h, n) = <<>>
<1>1. ASSUME NEW h \in AnyHas
      PROVE  /\ Narrow(h, n) \in AnyHas /\ DOMAIN Narrow(h, n) = DOMAIN h \cap {n}
             /\ (n \in DOMAIN h => Narrow(h, n)[n] = h[n])
  <2>1. DOMAIN h \subseteq 1..15 /\ \A x \in DOMAIN h : h[x] \in AnyValue
    BY HasIs
  <2> DEFINE S == DOMAIN h \cap {n}
             g == Narrow(h, n)
  <2>2. DOMAIN g = S /\ g = [x \in S |-> g[x]] /\ \A x \in S : g[x] = h[x]
    BY DEF Narrow
  <2> HIDE DEF g
  <2>3. S \subseteq 1..15 /\ \A x \in S : g[x] \in AnyValue
    BY <2>1, <2>2
  <2>4. g \in AnyHas
    <3> HIDE DEF S
    <3> QED
      BY ONLY <2>2, <2>3, IsHas
  <2> QED
    BY <2>2, <2>4 DEF g
<1>2. ASSUME NEW g \in AnyHas, NEW h \in AnyHas PROVE Narrow(Over(g, h), n) = Over(Narrow(g, n), Narrow(h, n))
  <2> DEFINE o == Over(g, h)
             a == Narrow(g, n)
             b == Narrow(h, n)
             l == Narrow(o, n)
             r == Over(a, b)
  <2>1. /\ o \in AnyHas /\ DOMAIN o = DOMAIN g \union DOMAIN h
        /\ \A x \in DOMAIN g : o[x] = g[x]
        /\ \A x \in DOMAIN h : x \notin DOMAIN g => o[x] = h[x]
    BY OverIs
  <2>2. a \in AnyHas /\ DOMAIN a = DOMAIN g \cap {n} /\ (n \in DOMAIN g => a[n] = g[n])
    BY <1>1
  <2>3. b \in AnyHas /\ DOMAIN b = DOMAIN h \cap {n} /\ (n \in DOMAIN h => b[n] = h[n])
    BY <1>1
  <2> HIDE DEF o, a, b
  <2>4. l \in AnyHas /\ DOMAIN l = DOMAIN o \cap {n} /\ (n \in DOMAIN o => l[n] = o[n])
    BY <1>1, <2>1
  <2>5. /\ r \in AnyHas /\ DOMAIN r = DOMAIN a \union DOMAIN b
        /\ \A x \in DOMAIN a : r[x] = a[x]
        /\ \A x \in DOMAIN b : x \notin DOMAIN a => r[x] = b[x]
    BY <2>2, <2>3, OverIs
  <2> HIDE DEF l, r
  <2>6. DOMAIN l = DOMAIN r
    BY ONLY <2>1, <2>2, <2>3, <2>4, <2>5
  <2>7. \A x \in DOMAIN l : l[x] = r[x]
    <3> SUFFICES ASSUME n \in DOMAIN o PROVE l[n] = r[n]
      BY <2>4
    <3>1. CASE n \in DOMAIN g
      BY ONLY <2>1, <2>2, <2>4, <2>5, <3>1
    <3>2. CASE n \in DOMAIN h /\ n \notin DOMAIN g
      BY ONLY <2>1, <2>2, <2>3, <2>4, <2>5, <3>2
    <3> QED
      BY ONLY <2>1, <3>1, <3>2, n \in DOMAIN o
  <2>8. l = r
    BY ONLY <2>4, <2>5, <2>6, <2>7, SameHas
  <2> QED
    BY <2>8 DEF l, r, o, a, b
<1>3. ASSUME NEW v \in AnyValue PROVE Narrow(Single(n, v), n) = Single(n, v)
  <2> DEFINE s == Single(n, v)
             l == Narrow(s, n)
  <2>1. s \in AnyHas /\ DOMAIN s = {n}
    BY SingleIs
  <2> HIDE DEF s
  <2>2. l \in AnyHas /\ DOMAIN l = DOMAIN s \cap {n} /\ (n \in DOMAIN s => l[n] = s[n])
    BY <1>1, <2>1
  <2> HIDE DEF l
  <2>3. DOMAIN l = DOMAIN s /\ \A x \in DOMAIN l : l[x] = s[x]
    BY ONLY <2>1, <2>2
  <2>4. l = s
    BY ONLY <2>1, <2>2, <2>3, SameHas
  <2> QED
    BY <2>4 DEF l, s
<1>4. ASSUME NEW h \in AnyHas, n \notin DOMAIN h PROVE Narrow(h, n) = <<>>
  <2> DEFINE l == Narrow(h, n)
             e == <<>>
  <2>1. l \in AnyHas /\ DOMAIN l = {}
    BY <1>1, <1>4
  <2>2. e \in AnyHas /\ DOMAIN e = {}
    BY NothingIsHas
  <2> HIDE DEF l, e
  <2>3. l = e
    BY ONLY <2>1, <2>2, SameHas
  <2> QED
    BY <2>3 DEF l, e
<1> QED
  BY ONLY <1>1, <1>2, <1>3, <1>4, Zenon

\* What is read of the field a and of the bytes b behind it is x.
InTwo(fs, a, t, v, b, x) ==
  \E y \in AnyMessage : /\ Reads(fs, b, y) /\ x \in AnyMessage
                        /\ x.has = Over(y.has, TookField(fs, New, t, v, a).has)
                        /\ x.rest = TookField(fs, New, t, v, a).rest \o y.rest

\* A reader reads a field in front, and then the others.
LEMMA ReadsTwo ==
  ASSUME NEW fs, FieldList(fs), NEW a, NEW t, NEW v, Token(a, t, v), NEW b, WholeFields(b), NEW x, Reads(fs, a \o b, x)
  PROVE  InTwo(fs, a, t, v, b, x)
<1> DEFINE w == TookField(fs, New, t, v, a)
<1>1. PICK y \in AnyMessage : Reads(fs, b, y)
  BY WholeReads
<1>2. w \in AnyMessage /\ Reads(fs, a \o b, Merged(w, y))
  BY <1>1, ReadsToken
<1> HIDE DEF w
<1>3. x = Merged(w, y)
  <2> DEFINE d == a \o b
             z == Merged(w, y)
  <2>1. Reads(fs, d, x) /\ Reads(fs, d, z)
    BY <1>2
  <2> HIDE DEF d, z
  <2>2. x = z
    BY ONLY <2>1, ReadsOne, FieldList(fs), Zenon
  <2> QED
    BY <2>2 DEF z
<1>4. Merged(w, y) \in AnyMessage /\ Merged(w, y).has = Over(y.has, w.has) /\ Merged(w, y).rest = w.rest \o y.rest
  BY <1>2, MergedIs
<1> QED
  BY ONLY <1>1, <1>3, <1>4, Zenon DEF w, InTwo

\* A reader that knows a field reads of it what a reader does that knows no other.
LEMMA OneIsNarrow ==
  ASSUME NEW fs, FieldList(fs), NEW f \in FieldTypes, NEW i \in 1..Len(fs), Tag(fs[i]) = Tag(f),
         NEW d, NEW x, Reads(fs, d, x), NEW y, Reads(<<f>>, d, y)
  PROVE  y.has = Narrow(x.has, f.number)
<1> DEFINE n == f.number
           one == <<f>>
           C == {e \in Seq(Byte) : \A p \in AnyMessage : \A q \in AnyMessage :
                   Reads(fs, e, p) /\ Reads(one, e, q) => q.has = Narrow(p.has, n)}
<1>1. /\ FieldList(one) /\ n \in 1..15 /\ fs[i].number = n /\ fs[i].kind = f.kind
      /\ Len(one) = 1 /\ one[1] = f
      /\ \A j \in 1..Len(fs) : fs[j] \in FieldTypes
  <2>1. \A j \in 1..Len(fs) : fs[j] \in FieldTypes
    BY ElementOfSeq DEF FieldList
  <2>2. fs[i].number = n /\ fs[i].kind = f.kind
    BY <2>1, TagIs
  <2>3. n \in 1..15
    BY DEF FieldTypes
  <2> QED
    BY <2>1, <2>2, <2>3, FieldListIs
<1> HIDE DEF one
<1>2. <<>> \in C
  <2> SUFFICES ASSUME NEW p \in AnyMessage, NEW q \in AnyMessage, Reads(fs, <<>>, p), Reads(one, <<>>, q)
               PROVE  q.has = Narrow(p.has, n)
    BY <<>> \in Seq(Byte)
  <2>1. p = New /\ q = New
    BY <1>1, ReadsNothing, ReadsOne
  <2>2. New.has = <<>> /\ <<>> \in AnyHas /\ DOMAIN <<>> = {}
    BY NewIs, NothingIsHas
  <2>3. Narrow(<<>>, n) = <<>>
    BY ONLY <1>1, <2>2, NarrowIs, Zenon
  <2> QED
    BY ONLY <2>1, <2>2, <2>3, Zenon
<1>3. ASSUME NEW a, NEW t, NEW v, NEW b \in C, Token(a, t, v), WholeFields(b) PROVE a \o b \in C
  <2> DEFINE w == TookField(fs, New, t, v, a)
             z == TookField(one, New, t, v, a)
  <2>1. a \o b \in Seq(Byte)
    <3>1. b \in Seq(Byte) /\ New \in AnyMessage
      BY NewIs
    <3> QED
      BY <1>3, <3>1, TokenParsed
  <2>2. /\ w \in AnyMessage /\ w.has \in AnyHas
        /\ (\A j \in 1..Len(fs) : Tag(fs[j]) # t) => w.has = <<>>
        /\ \A j \in 1..Len(fs) : Tag(fs[j]) = t =>
              fs[j].number \in 1..15 /\ ValueTaken(fs[j], v) \in AnyValue /\ w.has = Single(fs[j].number, ValueTaken(fs[j], v))
    <3>1. w \in AnyMessage
      BY <1>3, TookOne
    <3>2. w.has \in AnyHas
      BY <3>1, MessageIs
    <3> QED
      <4>1. /\ (\A j \in 1..Len(fs) : Tag(fs[j]) # t) => w.has = <<>>
            /\ \A j \in 1..Len(fs) : Tag(fs[j]) = t =>
                  fs[j].number \in 1..15 /\ ValueTaken(fs[j], v) \in AnyValue /\ w.has = Single(fs[j].number, ValueTaken(fs[j], v))
        BY ONLY <1>3, TookOne, FieldList(fs)
      <4> QED
        BY ONLY <3>1, <3>2, <4>1, Zenon
  <2>3. /\ z \in AnyMessage /\ z.has \in AnyHas
        /\ Tag(f) # t => z.has = <<>>
        /\ Tag(f) = t => z.has = Single(n, ValueTaken(f, v)) /\ ValueTaken(f, v) \in AnyValue
    <3>1. z \in AnyMessage
      BY <1>1, <1>3, TookOne
    <3>2. z.has \in AnyHas
      BY <3>1, MessageIs
    <3>3. 1 \in 1..Len(one) /\ \A j \in 1..Len(one) : one[j] = f
      BY <1>1
    <3>4. /\ (\A j \in 1..Len(one) : Tag(one[j]) # t) => z.has = <<>>
          /\ \A j \in 1..Len(one) : Tag(one[j]) = t =>
                one[j].number \in 1..15 /\ ValueTaken(one[j], v) \in AnyValue /\ z.has = Single(one[j].number, ValueTaken(one[j], v))
      BY ONLY <1>1, <1>3, TookOne
    <3> QED
      BY ONLY <1>1, <3>1, <3>2, <3>3, <3>4, Zenon
  <2> HIDE DEF w, z
  <2>4. z.has = Narrow(w.has, n)
    <3>1. CASE t = Tag(f)
      <4>1. w.has = Single(n, ValueTaken(fs[i], v)) /\ z.has = Single(n, ValueTaken(f, v)) /\ ValueTaken(f, v) \in AnyValue
        BY ONLY <1>1, <2>2, <2>3, <3>1, Tag(fs[i]) = Tag(f), i \in 1..Len(fs), Zenon
      <4>2. ValueTaken(fs[i], v) = ValueTaken(f, v)
        BY ONLY <1>1, Zenon DEF ValueTaken
      <4>3. Narrow(Single(n, ValueTaken(f, v)), n) = Single(n, ValueTaken(f, v))
        BY ONLY <1>1, <4>1, NarrowIs, Zenon
      <4> QED
        BY ONLY <4>1, <4>2, <4>3, Zenon
    <3>2. CASE t # Tag(f) /\ \A j \in 1..Len(fs) : Tag(fs[j]) # t
      <4>1. w.has = <<>> /\ z.has = <<>>
        BY ONLY <2>2, <2>3, <3>2, Zenon
      <4>2. <<>> \in AnyHas /\ DOMAIN <<>> = {}
        BY NothingIsHas
      <4>3. Narrow(<<>>, n) = <<>>
        BY ONLY <1>1, <4>2, NarrowIs, Zenon
      <4> QED
        BY ONLY <4>1, <4>3, Zenon
    <3>3. ASSUME t # Tag(f), NEW j \in 1..Len(fs), Tag(fs[j]) = t PROVE z.has = Narrow(w.has, n)
      <4> DEFINE k == fs[j].number
                 u == ValueTaken(fs[j], v)
      <4>1. k \in 1..15 /\ u \in AnyValue /\ w.has = Single(k, u) /\ z.has = <<>>
        BY ONLY <2>2, <2>3, <3>3, Zenon
      <4>2. k # n
        <5>1. j # i
          BY <3>3
        <5> QED
          BY <1>1, <5>1 DEF FieldList
      <4> HIDE DEF k, u
      <4>3. DOMAIN w.has = {k}
        BY <4>1, SingleIs
      <4>4. n \notin DOMAIN w.has
        BY <4>2, <4>3
      <4>5. Narrow(w.has, n) = <<>>
        BY ONLY <1>1, <2>2, <4>4, NarrowIs, Zenon
      <4> QED
        BY ONLY <4>1, <4>5, Zenon
    <3> QED
      BY <3>1, <3>2, <3>3
  <2> SUFFICES ASSUME NEW p \in AnyMessage, NEW q \in AnyMessage, Reads(fs, a \o b, p), Reads(one, a \o b, q)
               PROVE  q.has = Narrow(p.has, n)
    BY <2>1
  <2>0. Token(a, t, v) /\ WholeFields(b) /\ FieldList(one)
    BY <1>1, <1>3
  <2>5. PICK pb \in AnyMessage : Reads(fs, b, pb) /\ p.has = Over(pb.has, w.has)
    <3>1. InTwo(fs, a, t, v, b, p)
      BY ONLY <2>0, Reads(fs, a \o b, p), FieldList(fs), ReadsTwo, Zenon
    <3> QED
      BY ONLY <3>1, Zenon DEF w, InTwo
  <2>6. PICK qb \in AnyMessage : Reads(one, b, qb) /\ q.has = Over(qb.has, z.has)
    <3>1. InTwo(one, a, t, v, b, q)
      BY ONLY <2>0, Reads(one, a \o b, q), ReadsTwo, Zenon
    <3> QED
      BY ONLY <3>1, Zenon DEF z, InTwo
  <2>7. qb.has = Narrow(pb.has, n)
    BY <1>3, <2>5, <2>6
  <2>8. pb.has \in AnyHas
    BY MessageIs
  <2>9. Narrow(Over(pb.has, w.has), n) = Over(Narrow(pb.has, n), Narrow(w.has, n))
    BY ONLY <1>1, <2>2, <2>8, NarrowIs, ZenonT(30)
  <2> QED
    BY ONLY <2>4, <2>5, <2>6, <2>7, <2>9, Zenon
<1>4. TokenClosed(C)
  BY ONLY <1>3, Zenon DEF TokenClosed
<1>5. d \in C
  <2>1. WholeFields(d)
    BY ReadsIs
  <2> HIDE DEF C
  <2> QED
    BY <1>2, <1>4, <2>1, WholeInduction
<1>6. x \in AnyMessage /\ y \in AnyMessage
  BY Zenon DEF Reads
<1> QED
  BY ONLY <1>5, <1>6, Reads(fs, d, x), Reads(<<f>>, d, y), Zenon DEF one

\* What a reader keeps of the bytes as unknown is, to a reader of one of the fields that
\* the first does not know, as good as the bytes.
LEMMA RestIsSame ==
  ASSUME NEW fs, FieldList(fs), NEW f \in FieldTypes, \A i \in 1..Len(fs) : Tag(fs[i]) # Tag(f),
         NEW d, NEW x, Reads(fs, d, x), NEW y, Reads(<<f>>, d, y), NEW z, Reads(<<f>>, x.rest, z)
  PROVE  z.has = y.has
<1> DEFINE one == <<f>>
           C == {e \in Seq(Byte) : \A p \in AnyMessage : \A q \in AnyMessage : \A s \in AnyMessage :
                   Reads(fs, e, p) /\ Reads(one, e, q) /\ Reads(one, p.rest, s) => s.has = q.has}
<1>1. FieldList(one) /\ Len(one) = 1 /\ one[1] = f
  BY FieldListIs
<1> HIDE DEF one
<1>2. <<>> \in C
  <2> SUFFICES ASSUME NEW p \in AnyMessage, NEW q \in AnyMessage, NEW s \in AnyMessage,
                      Reads(fs, <<>>, p), Reads(one, <<>>, q), Reads(one, p.rest, s)
               PROVE  s.has = q.has
    BY <<>> \in Seq(Byte)
  <2>1. p = New /\ q = New
    BY <1>1, ReadsNothing, ReadsOne
  <2>2. p.rest = <<>>
    BY <2>1, NewIs
  <2>3. Reads(one, <<>>, s)
    BY <2>2
  <2>4. s = New
    BY <1>1, <2>3, ReadsNothing, ReadsOne
  <2> QED
    BY <2>1, <2>4
<1>3. ASSUME NEW a, NEW t, NEW v, NEW b \in C, Token(a, t, v), WholeFields(b) PROVE a \o b \in C
  <2> DEFINE w == TookField(fs, New, t, v, a)
             o == TookField(one, New, t, v, a)
  <2>1. a \o b \in Seq(Byte) /\ b \in Seq(Byte) /\ a \in Seq(Byte)
    <3>1. b \in Seq(Byte) /\ New \in AnyMessage
      BY NewIs
    <3> QED
      BY <1>3, <3>1, TokenParsed
  <2>2. /\ (\A j \in 1..Len(fs) : Tag(fs[j]) # t) => w.rest = a
        /\ \A j \in 1..Len(fs) : Tag(fs[j]) = t => w.rest = <<>>
    BY ONLY <1>3, TookOne, FieldList(fs)
  <2>3. Tag(f) # t => o.has = <<>>
    <3>1. \A j \in 1..Len(one) : one[j] = f
      BY <1>1
    <3>2. (\A j \in 1..Len(one) : Tag(one[j]) # t) => o.has = <<>>
      BY ONLY <1>1, <1>3, TookOne
    <3> QED
      BY ONLY <3>1, <3>2, Zenon
  <2> HIDE DEF w, o
  <2>4. Token(a, t, v) /\ WholeFields(b)
    BY <1>3
  <2> SUFFICES ASSUME NEW p \in AnyMessage, NEW q \in AnyMessage, NEW s \in AnyMessage,
                      Reads(fs, a \o b, p), Reads(one, a \o b, q), Reads(one, p.rest, s)
               PROVE  s.has = q.has
    BY <2>1
  <2>5. PICK pb \in AnyMessage : Reads(fs, b, pb) /\ p.rest = w.rest \o pb.rest
    <3>1. InTwo(fs, a, t, v, b, p)
      BY ONLY <2>4, Reads(fs, a \o b, p), FieldList(fs), ReadsTwo, Zenon
    <3> QED
      BY ONLY <3>1, Zenon DEF w, InTwo
  <2>6. PICK qb \in AnyMessage : Reads(one, b, qb) /\ q.has = Over(qb.has, o.has)
    <3>1. InTwo(one, a, t, v, b, q)
      BY ONLY <1>1, <2>4, Reads(one, a \o b, q), ReadsTwo, Zenon
    <3> QED
      BY ONLY <3>1, Zenon DEF o, InTwo
  <2>7. pb \in MessagesOf(fs)
    BY ONLY <2>5, FieldList(fs), ReadsMessage, Zenon
  <2> DEFINE r == pb.rest
  <2>8. WholeFields(r) /\ r \in Seq(Byte)
    <3>1. Foreign(fs, r)
      BY <2>7, Zenon DEF MessagesOf
    <3>2. Reads(fs, r, [has |-> <<>>, rest |-> r])
      BY <3>1, Zenon DEF Foreign
    <3> QED
      BY ONLY <3>2, FieldList(fs), ReadsIs, Zenon
  <2>9. PICK sb \in AnyMessage : Reads(one, r, sb)
    BY ONLY <1>1, <2>8, WholeReads, Zenon
  <2>10. sb.has = qb.has
    BY ONLY b \in C, <2>5, <2>6, <2>9, Zenon
  <2>11. p.rest = w.rest \o r
    BY <2>5
  <2> HIDE DEF r
  <2>12. CASE \A j \in 1..Len(fs) : Tag(fs[j]) # t
    <3>1. Reads(one, a \o r, s)
      BY <2>2, <2>11, <2>12
    <3>2. InTwo(one, a, t, v, r, s)
      BY ONLY <1>1, <2>4, <2>8, <3>1, ReadsTwo, Zenon
    <3>3. PICK sc \in AnyMessage : Reads(one, r, sc) /\ s.has = Over(sc.has, o.has)
      BY ONLY <3>2, Zenon DEF o, InTwo
    <3>4. sc = sb
      BY ONLY <1>1, <2>9, <3>3, ReadsOne, Zenon
    <3> QED
      BY ONLY <2>6, <2>10, <3>3, <3>4, Zenon
  <2>13. CASE \E j \in 1..Len(fs) : Tag(fs[j]) = t
    <3>1. w.rest = <<>> /\ Tag(f) # t
      BY <2>2, <2>13
    <3>2. p.rest = r
      <4>1. p.rest = <<>> \o r
        BY ONLY <2>11, <3>1, Zenon
      <4>2. <<>> \o r = r
        BY ONLY <2>8, ConcatEmptySeq, Zenon
      <4> QED
        BY ONLY <4>1, <4>2, Zenon
    <3>3. Reads(one, r, s)
      BY <3>2
    <3>4. s = sb
      BY ONLY <1>1, <2>9, <3>3, ReadsOne, Zenon
    <3>5. q.has = Over(qb.has, <<>>)
      BY ONLY <2>3, <2>6, <3>1, Zenon
    <3>6. qb.has \in AnyHas
      BY MessageIs
    <3>7. Over(qb.has, <<>>) = qb.has
      BY ONLY <3>6, OverNothing, Zenon
    <3> QED
      BY ONLY <2>10, <3>4, <3>5, <3>7, Zenon
  <2> QED
    BY ONLY <2>12, <2>13, Zenon
<1>4. TokenClosed(C)
  BY ONLY <1>3, Zenon DEF TokenClosed
<1>5. d \in C
  <2>1. WholeFields(d)
    BY ReadsIs
  <2> HIDE DEF C
  <2> QED
    BY <1>2, <1>4, <2>1, WholeInduction
<1>6. x \in AnyMessage /\ y \in AnyMessage /\ z \in AnyMessage
  BY Zenon DEF Reads
<1> QED
  BY ONLY <1>5, <1>6, Reads(fs, d, x), Reads(<<f>>, d, y), Reads(<<f>>, x.rest, z), Zenon DEF one

\* Bytes of which one reader keeps the same are the same to a reader of any one field.
LEMMA SameThrough ==
  ASSUME NEW fs, FieldList(fs), NEW f \in FieldTypes, NEW b, NEW d, NEW x, Reads(fs, b, x), Reads(fs, d, x),
         NEW y, Reads(<<f>>, b, y), NEW z, Reads(<<f>>, d, z)
  PROVE  y.has = z.has
<1>1. CASE \E i \in 1..Len(fs) : Tag(fs[i]) = Tag(f)
  <2>1. PICK i \in 1..Len(fs) : Tag(fs[i]) = Tag(f)
    BY <1>1
  <2>2. y.has = Narrow(x.has, f.number)
    BY <2>1, OneIsNarrow
  <2>3. z.has = Narrow(x.has, f.number)
    BY <2>1, OneIsNarrow
  <2> QED
    BY ONLY <2>2, <2>3, Zenon
<1>2. CASE \A i \in 1..Len(fs) : Tag(fs[i]) # Tag(f)
  <2>1. x \in MessagesOf(fs)
    BY ReadsMessage
  <2> DEFINE r == x.rest
             one == <<f>>
  <2>2. WholeFields(r)
    <3>1. Foreign(fs, r)
      BY <2>1, Zenon DEF MessagesOf
    <3>2. Reads(fs, r, [has |-> <<>>, rest |-> r])
      BY <3>1, Zenon DEF Foreign
    <3> QED
      BY ONLY <3>2, FieldList(fs), ReadsIs, Zenon
  <2>3. FieldList(one)
    BY FieldListIs
  <2>4. PICK s : Reads(one, r, s)
    <3> HIDE DEF one, r
    <3> QED
      BY ONLY <2>2, <2>3, WholeReads, Zenon
  <2>5. s.has = y.has
    BY <1>2, <2>4, RestIsSame
  <2>6. s.has = z.has
    BY <1>2, <2>4, RestIsSame
  <2> QED
    BY ONLY <2>5, <2>6, Zenon
<1> QED
  BY ONLY <1>1, <1>2, Zenon

\* A message that was read and written again by a program that knows other fields is read
\* with the values it had.
LEMMA RelayIs ==
  ASSUME NEW fs, FieldList(fs), NEW gs, FieldList(gs), NEW m \in MessagesOf(fs)
  PROVE  LET through == MessageParsed(gs, New, Written(fs, m))
             back == MessageParsed(fs, New, Written(gs, through.m))
         IN through.ok /\ back.ok /\ back.m.has = m.has
<1> DEFINE d == Written(fs, m)
<1>1. Reads(fs, d, m)
  BY WrittenReads
<1> HIDE DEF d
<1>2. WholeFields(d)
  BY ONLY <1>1, FieldList(fs), ReadsIs, Zenon
<1>3. PICK x : Reads(gs, d, x)
  BY ONLY <1>2, FieldList(gs), WholeReads, Zenon
<1>4. x \in MessagesOf(gs) /\ MessageParsed(gs, New, d) = [ok |-> TRUE, whole |-> TRUE, m |-> x]
  BY ONLY <1>3, FieldList(gs), ReadsIs, ReadsMessage, Zenon
<1> DEFINE b == Written(gs, x)
<1>5. Reads(gs, b, x)
  BY <1>4, WrittenReads
<1> HIDE DEF b
<1>6. WholeFields(b)
  BY ONLY <1>5, FieldList(gs), ReadsIs, Zenon
<1>7. PICK y : Reads(fs, b, y)
  BY ONLY <1>6, FieldList(fs), WholeReads, Zenon
<1>8. y \in MessagesOf(fs) /\ MessageParsed(fs, New, b) = [ok |-> TRUE, whole |-> TRUE, m |-> y]
  BY ONLY <1>7, FieldList(fs), ReadsIs, ReadsMessage, Zenon
<1>9. /\ y.has \in AnyHas /\ TypedHas(fs, y.has)
      /\ m.has \in AnyHas /\ TypedHas(fs, m.has)
  <2>1. y \in AnyMessage /\ TypedHas(fs, y.has) /\ m \in AnyMessage /\ TypedHas(fs, m.has)
    BY <1>8, Zenon DEF MessagesOf
  <2> QED
    BY <2>1, MessageIs
<1>10. \A i \in 1..Len(fs) : Narrow(y.has, fs[i].number) = Narrow(m.has, fs[i].number)
  <2> TAKE i \in 1..Len(fs)
  <2> DEFINE f == fs[i]
             one == <<f>>
  <2>1. f \in FieldTypes
    BY ElementOfSeq DEF FieldList
  <2>2. FieldList(one)
    BY <2>1, FieldListIs
  <2>3. PICK s : Reads(one, b, s)
    <3> HIDE DEF one
    <3> QED
      BY ONLY <1>6, <2>2, WholeReads, Zenon
  <2>4. PICK t : Reads(one, d, t)
    <3> HIDE DEF one
    <3> QED
      BY ONLY <1>2, <2>2, WholeReads, Zenon
  <2>5. s.has = t.has
    BY <1>3, <1>5, <2>1, <2>3, <2>4, SameThrough
  <2>6. s.has = Narrow(y.has, f.number)
    BY <1>7, <2>1, <2>3, OneIsNarrow
  <2>7. t.has = Narrow(m.has, f.number)
    BY <1>1, <2>1, <2>4, OneIsNarrow
  <2> QED
    BY ONLY <2>5, <2>6, <2>7, Zenon
<1>11. y.has = m.has
  <2> DEFINE g == y.has
             h == m.has
  <2>1. \A n \in DOMAIN g \union DOMAIN h : Narrow(g, n) = Narrow(h, n) /\ n \in 1..15
    <3>1. \A n \in DOMAIN g \union DOMAIN h : \E i \in 1..Len(fs) : fs[i].number = n
      BY <1>9 DEF TypedHas
    <3>2. DOMAIN g \subseteq 1..15 /\ DOMAIN h \subseteq 1..15
      BY <1>9 DEF AnyHas
    <3> QED
      BY <1>10, <3>1, <3>2
  <2>2. g \in AnyHas /\ h \in AnyHas
    BY <1>9
  <2> HIDE DEF g, h
  <2>3. \A n \in DOMAIN g \union DOMAIN h : n \in DOMAIN g /\ n \in DOMAIN h /\ g[n] = h[n]
    <3> TAKE n \in DOMAIN g \union DOMAIN h
    <3> DEFINE a == Narrow(g, n)
               c == Narrow(h, n)
    <3>1. a = c /\ n \in 1..15
      BY <2>1
    <3>2. /\ DOMAIN a = DOMAIN g \cap {n} /\ (n \in DOMAIN g => a[n] = g[n])
          /\ DOMAIN c = DOMAIN h \cap {n} /\ (n \in DOMAIN h => c[n] = h[n])
      BY <2>2, <3>1, NarrowIs
    <3> HIDE DEF a, c
    <3> QED
      BY <3>1, <3>2
  <2>4. DOMAIN g = DOMAIN h
    BY <2>3
  <2>5. g = h
    BY <2>2, <2>3, <2>4, SameHas
  <2> QED
    BY <2>5 DEF g, h
<1> DEFINE through == MessageParsed(gs, New, d)
           back == MessageParsed(fs, New, b)
<1>12. through.ok /\ through.m = x /\ back.ok /\ back.m = y
  BY <1>4, <1>8
<1>13. back = MessageParsed(fs, New, Written(gs, through.m))
  BY ONLY <1>12, Zenon DEF b
<1> HIDE DEF back
<1>14. through.ok /\ back.ok /\ back.m.has = m.has
  BY ONLY <1>11, <1>12, Zenon
<1>15. through = MessageParsed(gs, New, Written(fs, m))
  BY Zenon DEF d
<1> HIDE DEF through
<1> QED
  BY ONLY <1>13, <1>14, <1>15, Zenon

\* A message read behind another is merged into it.
LEMMA ConcatIs ==
  ASSUME NEW fs, FieldList(fs), NEW m \in MessagesOf(fs), NEW n \in MessagesOf(fs)
  PROVE  MessageParsed(fs, New, Written(fs, m) \o Written(fs, n)).m = Merged(m, n)
<1> DEFINE a == Written(fs, m)
           b == Written(fs, n)
           d == a \o b
           x == Merged(m, n)
<1>1. Reads(fs, a, m) /\ Reads(fs, b, n)
  BY WrittenReads
<1> HIDE DEF a, b
<1>2. Reads(fs, d, x)
  BY ONLY <1>1, ReadsBoth, FieldList(fs), Zenon
<1> HIDE DEF d, x
<1>3. MessageParsed(fs, New, d) = [ok |-> TRUE, whole |-> TRUE, m |-> x]
  BY ONLY <1>2, ReadsIs, FieldList(fs), Zenon
<1>4. MessageParsed(fs, New, d).m = x
  BY <1>3
<1> QED
  BY <1>4 DEF d, x, a, b

\* Bytes behind each other.
LEMMA JoinIs ==
  ASSUME NEW a \in Seq(Byte), NEW b \in Seq(Byte), NEW s, s = a \o b
  PROVE  /\ s \in Seq(Byte) /\ Len(s) = Len(a) + Len(b)
         /\ (\A i \in 1..Len(a) : s[i] = a[i]) /\ (\A i \in 1..Len(b) : s[Len(a) + i] = b[i])
OBVIOUS

Shorter(e, a) == Len(e) <= Len(a)

\* e is in front of a, and g is what is left of a with b behind it.
InFrontOf(e, g, a, b) == \E c \in Seq(Byte) : a = e \o c /\ g = c \o b

\* Of two ways to part the same bytes the shorter front is in front of the longer.
LEMMA FrontOfFront ==
  ASSUME NEW e \in Seq(Byte), NEW g \in Seq(Byte), NEW a \in Seq(Byte), NEW b \in Seq(Byte),
         e \o g = a \o b, Shorter(e, a)
  PROVE  InFrontOf(e, g, a, b)
<1> DEFINE k == Len(e)
           l == Len(a)
           s == a \o b
           c == SubSeq(a, k + 1, l)
<1>1. k \in Nat /\ l \in Nat /\ k <= l /\ Len(b) \in Nat /\ Len(g) \in Nat
  BY DEF Shorter
<1>2. /\ s \in Seq(Byte) /\ Len(s) = l + Len(b)
      /\ (\A i \in 1..l : s[i] = a[i]) /\ (\A i \in 1..Len(b) : s[l + i] = b[i])
  OBVIOUS
<1>3. /\ s = e \o g /\ Len(s) = k + Len(g)
      /\ (\A i \in 1..k : s[i] = e[i]) /\ (\A i \in 1..Len(g) : s[k + i] = g[i])
  <2>1. s = e \o g
    OBVIOUS
  <2> HIDE DEF s, k
  <2>2. /\ s \in Seq(Byte) /\ Len(s) = Len(e) + Len(g)
        /\ (\A i \in 1..Len(e) : s[i] = e[i]) /\ (\A i \in 1..Len(g) : s[Len(e) + i] = g[i])
    BY ONLY <2>1, e \in Seq(Byte), g \in Seq(Byte), JoinIs
  <2> QED
    BY ONLY <2>1, <2>2, Zenon DEF k
<1>4. /\ c \in Seq(Byte) /\ Len(c) = l - k
      /\ \A i \in 1..l - k : c[i] = a[k + i]
  BY <1>1
<1> HIDE DEF s, c, k, l
<1>5. a = e \o c
  <2> DEFINE x == e \o c
  <2>1. /\ x \in Seq(Byte) /\ Len(x) = k + Len(c)
        /\ (\A i \in 1..k : x[i] = e[i]) /\ (\A i \in 1..Len(c) : x[k + i] = c[i])
    <3>1. x = e \o c
      OBVIOUS
    <3> HIDE DEF x
    <3>2. /\ x \in Seq(Byte) /\ Len(x) = Len(e) + Len(c)
          /\ (\A i \in 1..Len(e) : x[i] = e[i]) /\ (\A i \in 1..Len(c) : x[Len(e) + i] = c[i])
      <4>1. c \in Seq(Byte)
        BY <1>4
      <4> QED
        BY ONLY <3>1, <4>1, e \in Seq(Byte), JoinIs
    <3> QED
      BY ONLY <3>2, Zenon DEF k
  <2> HIDE DEF x
  <2>2. Len(x) = l /\ Len(a) = l
    BY ONLY <1>1, <1>4, <2>1 DEF l
  <2>3. \A i \in 1..l : a[i] = x[i]
    <3> TAKE i \in 1..l
    <3>1. CASE i <= k
      <4>1. i \in 1..k
        BY ONLY <1>1, <3>1, i \in 1..l
      <4> QED
        BY ONLY <1>2, <1>3, <2>1, <4>1, i \in 1..l, Zenon
    <3>2. CASE i > k
      <4> DEFINE j == i - k
      <4>1. j \in 1..l - k /\ i = k + j
        BY ONLY <1>1, <3>2, i \in 1..l
      <4> HIDE DEF j
      <4> QED
        BY ONLY <1>4, <2>1, <4>1, Zenon
    <3> QED
      BY ONLY <1>1, <3>1, <3>2, i \in 1..l
  <2>4. a = x
    BY <2>1, <2>2, <2>3, SeqEqual
  <2> QED
    BY <2>4 DEF x
<1>6. g = c \o b
  <2> DEFINE x == c \o b
  <2>1. /\ x \in Seq(Byte) /\ Len(x) = Len(c) + Len(b)
        /\ (\A i \in 1..Len(c) : x[i] = c[i]) /\ (\A i \in 1..Len(b) : x[Len(c) + i] = b[i])
    <3>1. x = c \o b
      OBVIOUS
    <3> HIDE DEF x
    <3> QED
      BY ONLY <1>4, <3>1, b \in Seq(Byte), JoinIs, SMTT(30)
  <2> HIDE DEF x
  <2>2. Len(x) = Len(g)
    BY ONLY <1>1, <1>2, <1>3, <1>4, <2>1
  <2>3. \A i \in 1..Len(g) : g[i] = x[i]
    <3> TAKE i \in 1..Len(g)
    <3>0. g[i] = s[k + i]
      BY <1>3
    <3>1. CASE i <= l - k
      <4>1. i \in 1..l - k /\ k + i \in 1..l
        BY ONLY <1>1, <3>1, i \in 1..Len(g)
      <4>2. x[i] = c[i] /\ c[i] = a[k + i] /\ s[k + i] = a[k + i]
        BY ONLY <1>2, <1>4, <2>1, <4>1, Zenon
      <4> QED
        BY ONLY <3>0, <4>2, Zenon
    <3>2. CASE i > l - k
      <4> DEFINE j == i - (l - k)
      <4>1. j \in 1..Len(b) /\ i = (l - k) + j /\ k + i = l + j
        BY ONLY <1>1, <1>2, <1>3, <3>2, i \in 1..Len(g)
      <4> HIDE DEF j
      <4>2. x[i] = b[j] /\ s[k + i] = b[j]
        BY ONLY <1>2, <1>4, <2>1, <4>1, Zenon
      <4> QED
        BY ONLY <3>0, <4>2, Zenon
    <3> QED
      BY ONLY <1>1, <3>1, <3>2, i \in 1..Len(g)
  <2>4. g = x
    BY <2>1, <2>2, <2>3, SeqEqual
  <2> QED
    BY <2>4 DEF x
<1> QED
  BY ONLY <1>4, <1>5, <1>6, Zenon DEF InFrontOf

\* What is behind whole bytes is whole if all is.
LEMMA BackIsWhole ==
  ASSUME NEW e, WholeFields(e), NEW g \in Seq(Byte), WholeFields(e \o g)
  PROVE  WholeFields(g)
<1> DEFINE fs == <<>>
           d == e \o g
<1>1. FieldList(fs) /\ New \in AnyMessage
  BY FieldListIs, NewIs
<1> HIDE DEF fs
<1>2. PICK x \in AnyMessage : Reads(fs, e, x)
  BY ONLY <1>1, WholeFields(e), WholeReads, Zenon
<1>3. d \in Seq(Byte) /\ Merged(New, x) \in AnyMessage
      /\ MessageParsed(fs, New, d) = MessageParsed(fs, Merged(New, x), g)
  BY <1>1, <1>2, ReadsFront
<1>4. WholeFields(d)
  OBVIOUS
<1> HIDE DEF d
<1>5. MessageParsed(fs, New, d).whole
  BY <1>1, <1>3, <1>4, WholeIs
<1>6. MessageParsed(fs, Merged(New, x), g).whole
  BY ONLY <1>3, <1>5, Zenon
<1> QED
  BY <1>1, <1>3, <1>6, WholeIs

\* Whole bytes in front of a field are none of it, or all.
LEMMA TokenCut ==
  ASSUME NEW a, NEW t, NEW v, Token(a, t, v), NEW e, WholeFields(e), NEW c \in Seq(Byte), a = e \o c, e # <<>>
  PROVE  c = <<>>
<1> DEFINE o == 1
           f == FieldAt(e, o)
           g == FieldAt(a, o)
           fs == <<>>
<1>1. e \in Seq(Byte) /\ New \in AnyMessage /\ FieldList(fs)
  BY NewIs, FieldListIs, Zenon DEF WholeFields
<1>2. f.end = "open"
  <2> SUFFICES ASSUME f.end # "open" PROVE FALSE
    BY Zenon
  <2>1. MessageParsed(fs, New, e)
          = [ok |-> FieldAt(e, 1).end # "failed", whole |-> FALSE, m |-> Effect(fs, New, FieldAt(e, 1), <<>>)]
    <3>1. FieldAt(e, 1).end # "open"
      OBVIOUS
    <3> HIDE DEF fs
    <3> QED
      BY ONLY <1>1, <3>1, e # <<>>, StoppedParsed, Zenon
  <2>2. MessageParsed(fs, New, e).whole = FALSE
    <3> DEFINE b == FieldAt(e, 1).end # "failed"
    <3> HIDE DEF b
    <3> QED
      BY ONLY <2>1 DEF b
  <2>3. MessageParsed(fs, New, e).whole
    BY Zenon DEF WholeFields
  <2> QED
    BY ONLY <2>2, <2>3, Zenon
<1>3. Behind(e, o, a, o) /\ Len(a) = Len(e) + Len(c)
  BY <1>1, InFront
<1>4. a \in Seq(Byte) /\ g.next = Len(a) + 1
  BY DEF Token
<1>5. g.next = o + (f.next - o)
  <2> HIDE DEF o
  <2> QED
    BY ONLY <1>1, <1>2, <1>3, <1>4, FieldThere
<1>6. f.next \in Nat /\ f.next <= Len(e) + 1
  <2>1. o \in Nat \ {0}
    OBVIOUS
  <2> HIDE DEF o
  <2> QED
    BY ONLY <1>1, <1>2, <2>1, FieldIs
<1>7. Len(c) = 0
  <2>1. Len(e) \in Nat /\ Len(c) \in Nat
    BY <1>1
  <2> HIDE DEF f, g
  <2> QED
    BY <1>3, <1>4, <1>5, <1>6, <2>1
<1> QED
  BY <1>7

\* e is in front of a, or it is a and whole bytes of b, behind which there is g.
Fronts(e, g, a, b) ==
  \/ \E c \in Seq(Byte) : a = e \o c
  \/ \E c \in Seq(Byte) : WholeFields(c) /\ e = a \o c /\ b = c \o g

\* Whole bytes in front of whole ones and others are in front of the whole ones, or these
\* are in front of them.
LEMMA WholeFronts ==
  ASSUME NEW e, WholeFields(e), NEW g \in Seq(Byte), NEW a, WholeFields(a), NEW b \in Seq(Byte), e \o g = a \o b
  PROVE  Fronts(e, g, a, b)
<1>1. e \in Seq(Byte) /\ a \in Seq(Byte)
  BY Zenon DEF WholeFields
<1>2. CASE Len(e) <= Len(a)
  <2>1. Shorter(e, a)
    BY <1>2 DEF Shorter
  <2>2. InFrontOf(e, g, a, b)
    BY ONLY <1>1, <2>1, g \in Seq(Byte), b \in Seq(Byte), e \o g = a \o b, FrontOfFront, Zenon
  <2> QED
    BY ONLY <2>2, Zenon DEF InFrontOf, Fronts
<1>3. CASE Len(a) <= Len(e)
  <2>1. a \o b = e \o g
    OBVIOUS
  <2>5. Shorter(a, e)
    BY <1>3 DEF Shorter
  <2>6. InFrontOf(a, b, e, g)
    BY ONLY <1>1, <2>1, <2>5, g \in Seq(Byte), b \in Seq(Byte), FrontOfFront, Zenon
  <2>2. PICK c \in Seq(Byte) : e = a \o c /\ b = c \o g
    BY ONLY <2>6, Zenon DEF InFrontOf
  <2>3. WholeFields(a \o c)
    BY ONLY <2>2, WholeFields(e), Zenon
  <2>4. WholeFields(c)
    BY ONLY <2>3, c \in Seq(Byte), WholeFields(a), BackIsWhole, Zenon
  <2> QED
    BY ONLY <2>2, <2>4, Zenon DEF Fronts
<1>4. Len(e) <= Len(a) \/ Len(a) <= Len(e)
  BY <1>1
<1> QED
  BY ONLY <1>2, <1>3, <1>4, Zenon

\* What is written of a field is nothing, or one field.
LEMMA PartIsToken ==
  ASSUME NEW fs, FieldList(fs), NEW m \in MessagesOf(fs), NEW k \in 1..Len(fs), PartWritten(fs, m, k) # <<>>
  PROVE  \E t, v : Token(PartWritten(fs, m, k), t, v)
<1> DEFINE f == fs[k]
           v == m.has[f.number]
<1>1. IsSet(f, m) /\ PartWritten(fs, m, k) = Encoded(f, v)
  BY Zenon DEF PartWritten
<1>2. f \in FieldTypes /\ IsValue(f, v)
  BY <1>1, PartIsField
<1> HIDE DEF f, v
<1>3. Token(Encoded(f, v), Tag(f), Worth(f, v))
  BY ONLY <1>2, EncodedIs
<1> QED
  BY ONLY <1>1, <1>3, Zenon

\* Whole bytes in front of what is written of some fields are what is written of the first.
LEMMA PartsCut ==
  ASSUME NEW fs, FieldList(fs), NEW m \in MessagesOf(fs), NEW u, Parts(fs, m, u), NEW l \in 0..Len(fs),
         NEW e, WholeFields(e), NEW g \in Seq(Byte), u[l] = e \o g
  PROVE  \E j \in 0..Len(fs) : e = u[j]
<1> DEFINE N == Len(fs)
           C == {k \in 0..N : \A p, q \in Seq(Byte) : WholeFields(p) /\ u[k] = p \o q => \E j \in 0..N : p = u[j]}
<1>1. N \in Nat /\ 0 \in 0..N /\ \A k \in 1..N : k \in 0..N /\ k - 1 \in 0..N
  BY DEF FieldList
<1>2. u[0] = <<>> /\ \A k \in 1..N : u[k] = u[k - 1] \o PartWritten(fs, m, k)
  BY DEF Parts
<1>3. 0 \in C
  <2> SUFFICES ASSUME NEW p \in Seq(Byte), NEW q \in Seq(Byte), u[0] = p \o q PROVE p = u[0]
    BY <1>1
  <2>1. <<>> = p \o q
    BY <1>2
  <2>2. Len(p) + Len(q) = 0
    <3> DEFINE s == p \o q
    <3>1. Len(s) = Len(p) + Len(q)
      OBVIOUS
    <3>2. s = <<>>
      BY <2>1
    <3> HIDE DEF s
    <3>3. Len(s) = 0
      BY <3>2
    <3> QED
      BY ONLY <3>1, <3>3
  <2>3. Len(p) = 0
    BY <2>2
  <2>4. p = <<>>
    BY <2>3
  <2> QED
    BY <1>2, <2>4
<1>4. ASSUME NEW k \in 1..N, k - 1 \in C PROVE k \in C
  <2> DEFINE i == k - 1
             a == u[i]
             b == PartWritten(fs, m, k)
  <2>1. i \in 0..N /\ \A p, q \in Seq(Byte) : WholeFields(p) /\ a = p \o q => \E j \in 0..N : p = u[j]
    BY <1>4
  <2>2. u[k] = a \o b /\ k \in 0..N
    BY <1>1, <1>2
  <2>3. b \in Seq(Byte) /\ (b # <<>> => \E t, v : Token(b, t, v))
    BY PartIsField, PartIsToken
  <2>4. WholeFields(a) /\ a \in Seq(Byte)
    <3>1. Reads(fs, u[i], Plain(UpTo(fs, m.has, i)))
      BY <2>1, PartsRead
    <3> QED
      BY ONLY <3>1, ReadsIs, FieldList(fs), Zenon DEF a
  <2> HIDE DEF i, a, b
  <2> SUFFICES ASSUME NEW p \in Seq(Byte), NEW q \in Seq(Byte), WholeFields(p), u[k] = p \o q
               PROVE  \E j \in 0..N : p = u[j]
    BY <2>2
  <2>5. p \o q = a \o b
    BY <2>2
  <2>6. \/ \E c \in Seq(Byte) : a = p \o c
        \/ \E c \in Seq(Byte) : WholeFields(c) /\ p = a \o c /\ b = c \o q
    <3>1. Fronts(p, q, a, b)
      BY ONLY <2>3, <2>4, <2>5, WholeFields(p), q \in Seq(Byte), WholeFronts, Zenon
    <3> QED
      BY ONLY <3>1, Zenon DEF Fronts
  <2>7. CASE \E c \in Seq(Byte) : a = p \o c
    BY <2>1, <2>7
  <2>8. ASSUME NEW c \in Seq(Byte), WholeFields(c), p = a \o c, b = c \o q PROVE \E j \in 0..N : p = u[j]
    <3>1. CASE c = <<>>
      <4>1. a \o <<>> = a
        BY ONLY <2>4, ConcatEmptySeq, Zenon
      <4>2. p = u[i]
        BY ONLY <2>8, <3>1, <4>1, Zenon DEF a
      <4> QED
        BY ONLY <2>1, <4>2, Zenon
    <3>2. CASE c # <<>>
      <4>1. b # <<>>
        <5>1. Len(b) = Len(c) + Len(q) /\ Len(c) \in Nat /\ Len(q) \in Nat
          BY <2>8
        <5>2. Len(c) # 0
          BY <3>2
        <5> QED
          BY <5>1, <5>2
      <4>2. PICK t, v : Token(b, t, v)
        BY <2>3, <4>1
      <4>3. q = <<>>
        BY <2>8, <3>2, <4>2, TokenCut
      <4>4. c \o <<>> = c
        BY ONLY c \in Seq(Byte), ConcatEmptySeq, Zenon
      <4>5. p = u[k]
        BY ONLY <2>2, <2>8, <4>3, <4>4, Zenon
      <4> QED
        BY ONLY <2>2, <4>5, Zenon
    <3> QED
      BY ONLY <3>1, <3>2, Zenon
  <2> QED
    BY ONLY <2>6, <2>7, <2>8, Zenon
<1>5. 0..N \subseteq C
  <2> HIDE DEF C
  <2> QED
    BY <1>1, <1>3, <1>4, RoundInduction
<1>6. e \in Seq(Byte)
  BY Zenon DEF WholeFields
<1>7. l \in C
  BY <1>5
<1> HIDE DEF N
<1> QED
  BY ONLY <1>6, <1>7, WholeFields(e), g \in Seq(Byte), u[l] = e \o g, Zenon DEF N

\* What g has, h has as well.
Included(g, h) == \A n \in DOMAIN g : n \in DOMAIN h /\ g[n] = h[n]

\* Whole bytes in front of what is written of a message are read as values of the message.
LEMMA WrittenCut ==
  ASSUME NEW fs, FieldList(fs), NEW m \in MessagesOf(fs), NEW e, WholeFields(e), NEW g \in Seq(Byte),
         Written(fs, m) = e \o g, NEW x, Reads(fs, e, x)
  PROVE  Included(x.has, m.has)
<1>1. PICK u : Parts(fs, m, u) /\ Written(fs, m) = u[Len(fs)] \o m.rest
  BY WrittenIs
<1> DEFINE N == Len(fs)
           a == u[N]
           b == m.rest
<1>2. N \in Nat /\ N \in 0..N
  BY DEF FieldList
<1>3. /\ m.has \in AnyHas /\ b \in Seq(Byte) /\ Foreign(fs, b)
  <2>1. m \in AnyMessage /\ Foreign(fs, m.rest)
    BY Zenon DEF MessagesOf
  <2> QED
    BY <2>1, MessageIs
<1>4. \A j \in 0..N : /\ Reads(fs, u[j], Plain(UpTo(fs, m.has, j))) /\ UpTo(fs, m.has, j) \in AnyHas
                      /\ Plain(UpTo(fs, m.has, j)).has = UpTo(fs, m.has, j)
  <2> TAKE j \in 0..N
  <2>1. Reads(fs, u[j], Plain(UpTo(fs, m.has, j)))
    BY <1>1, PartsRead
  <2>2. UpTo(fs, m.has, j) \in AnyHas
    BY UpToIs
  <2> QED
    BY ONLY <2>1, <2>2, PlainIs, Zenon
<1>5. WholeFields(a) /\ a \in Seq(Byte)
  <2>1. Reads(fs, a, Plain(UpTo(fs, m.has, N)))
    BY <1>2, <1>4
  <2> QED
    BY ONLY <2>1, ReadsIs, FieldList(fs), Zenon
<1>6. e \o g = a \o b
  BY <1>1
<1>7. \/ \E c \in Seq(Byte) : a = e \o c
      \/ \E c \in Seq(Byte) : WholeFields(c) /\ e = a \o c /\ b = c \o g
  <2> HIDE DEF a, b
  <2> QED
    <3>1. Fronts(e, g, a, b)
      BY ONLY <1>3, <1>5, <1>6, WholeFields(e), g \in Seq(Byte), WholeFronts, Zenon
    <3> QED
      BY ONLY <3>1, Zenon DEF Fronts
<1>8. CASE \E c \in Seq(Byte) : a = e \o c
  <2>1. PICK j \in 0..N : e = u[j]
    BY <1>1, <1>2, <1>8, PartsCut
  <2>2. x = Plain(UpTo(fs, m.has, j))
    <3> DEFINE y == Plain(UpTo(fs, m.has, j))
    <3>1. Reads(fs, e, y)
      BY <1>4, <2>1
    <3> HIDE DEF y
    <3>2. x = y
      BY ONLY <3>1, Reads(fs, e, x), FieldList(fs), ReadsOne, Zenon
    <3> QED
      BY <3>2 DEF y
  <2>3. x.has = UpTo(fs, m.has, j)
    BY ONLY <1>4, <2>2, j \in 0..N, Zenon
  <2> QED
    BY <2>3 DEF Included, UpTo
<1>9. ASSUME NEW c \in Seq(Byte), WholeFields(c), e = a \o c, b = c \o g PROVE Included(x.has, m.has)
  <2> DEFINE p == Plain(m.has)
  <2>1. Reads(fs, a, p) /\ p \in AnyMessage /\ p.has = m.has
    <3>1. UpTo(fs, m.has, N) = m.has
      BY UpToIs
    <3>2. Reads(fs, a, p)
      BY <1>2, <1>4, <3>1
    <3> QED
      BY ONLY <1>3, <3>2, PlainIs, Zenon
  <2>2. PICK y \in AnyMessage : Reads(fs, c, y)
    BY ONLY <1>9, FieldList(fs), WholeReads, Zenon
  <2>3. y.has = <<>>
    <3> DEFINE f == [has |-> <<>>, rest |-> b]
    <3>1. Reads(fs, b, f)
      BY <1>3, Zenon DEF Foreign
    <3>2. WholeFields(b) /\ f \in AnyMessage /\ f.has = <<>>
      <4>1. WholeFields(b) /\ f \in AnyMessage
        BY ONLY <3>1, FieldList(fs), ReadsIs, Zenon
      <4> DEFINE n == <<>>
      <4>2. f = [has |-> n, rest |-> b]
        OBVIOUS
      <4> HIDE DEF f, n
      <4>3. f.has = n
        BY ONLY <4>2
      <4> QED
        BY ONLY <4>1, <4>3, Zenon DEF n
    <3> HIDE DEF f, b
    <3>3. WholeFields(c \o g)
      BY ONLY <1>9, <3>2, Zenon
    <3>4. WholeFields(g)
      BY ONLY <1>9, <3>3, g \in Seq(Byte), BackIsWhole, Zenon
    <3>5. PICK z \in AnyMessage : Reads(fs, g, z)
      BY ONLY <3>4, FieldList(fs), WholeReads, Zenon
    <3> DEFINE o == Merged(y, z)
    <3>6. Reads(fs, c \o g, o)
      BY ONLY <2>2, <3>5, FieldList(fs), ReadsBoth, Zenon
    <3>7. o.has = Over(z.has, y.has)
      BY ONLY <2>2, <3>5, MergedIs
    <3> HIDE DEF o
    <3>8. o = f
      <4>1. Reads(fs, b, o)
        BY ONLY <1>9, <3>6, Zenon
      <4> QED
        BY ONLY <3>1, <4>1, FieldList(fs), ReadsOne, Zenon
    <3>9. Over(z.has, y.has) = <<>>
      BY ONLY <3>2, <3>7, <3>8, Zenon
    <3>10. y.has \in AnyHas /\ z.has \in AnyHas
      BY MessageIs
    <3> DEFINE h == y.has
    <3>11. DOMAIN h = {}
      <4>1. DOMAIN Over(z.has, h) = DOMAIN z.has \union DOMAIN h
        BY <3>10, OverIs
      <4>2. DOMAIN <<>> = {}
        BY NothingIsHas
      <4>3. DOMAIN Over(z.has, h) = {}
        BY ONLY <3>9, <4>2, Zenon
      <4> QED
        BY ONLY <4>1, <4>3
    <3> DEFINE n == <<>>
    <3>12. n \in AnyHas /\ DOMAIN n = {}
      BY NothingIsHas
    <3>13. h \in AnyHas
      BY <3>10
    <3> HIDE DEF h, n
    <3>14. h = n
      BY ONLY <3>11, <3>12, <3>13, SameHas
    <3> QED
      BY ONLY <3>14, Zenon DEF h, n
  <2> DEFINE o == Merged(p, y)
  <2>4. Reads(fs, a \o c, o)
    BY ONLY <2>1, <2>2, FieldList(fs), ReadsBoth, Zenon
  <2>5. o.has = Over(y.has, p.has)
    BY ONLY <2>1, <2>2, MergedIs
  <2> HIDE DEF o, p, a
  <2>6. Reads(fs, e, o)
    BY ONLY <1>9, <2>4, Zenon
  <2>7. x = o
    BY ONLY <2>6, Reads(fs, e, x), FieldList(fs), ReadsOne, Zenon
  <2>8. Over(<<>>, m.has) = m.has
    BY ONLY <1>3, OverNothing, Zenon
  <2>9. x.has = m.has
    BY ONLY <2>1, <2>3, <2>5, <2>7, <2>8, Zenon
  <2> QED
    BY ONLY <2>9, Zenon DEF Included
<1> QED
  BY ONLY <1>7, <1>8, <1>9, Zenon

\* Bytes are their first n and the others.
LEMMA CutApart ==
  ASSUME NEW d \in Seq(Byte), NEW n \in 0..Len(d)
  PROVE  \E g \in Seq(Byte) : SubSeq(d, 1, n) \in Seq(Byte) /\ d = SubSeq(d, 1, n) \o g
<1> DEFINE a == SubSeq(d, 1, n)
           b == SubSeq(d, n + 1, Len(d))
<1>1. n \in Nat /\ Len(d) \in Nat /\ n <= Len(d)
  OBVIOUS
<1>2. /\ a \in Seq(Byte) /\ Len(a) = n
      /\ \A k \in 1..n : a[k] = d[k]
  <2>1. \A k \in 1..n : a[k] = d[1 + k - 1]
    BY <1>1
  <2>2. \A k \in 1..n : 1 + k - 1 = k
    BY <1>1
  <2>3. a \in Seq(Byte) /\ Len(a) = n
    BY <1>1
  <2> QED
    BY <2>1, <2>2, <2>3
<1>3. /\ b \in Seq(Byte) /\ Len(b) = Len(d) - n
      /\ \A k \in 1..Len(d) - n : b[k] = d[n + k]
  BY <1>1
<1> HIDE DEF a, b
<1>4. d = a \o b
  <2> DEFINE x == a \o b
  <2>1. x = a \o b
    OBVIOUS
  <2> HIDE DEF x
  <2>2. /\ x \in Seq(Byte) /\ Len(x) = Len(a) + Len(b)
        /\ (\A i \in 1..Len(a) : x[i] = a[i]) /\ (\A i \in 1..Len(b) : x[Len(a) + i] = b[i])
    <3>1. a \in Seq(Byte) /\ b \in Seq(Byte)
      BY <1>2, <1>3
    <3> QED
      BY ONLY <2>1, <3>1, JoinIs
  <2>3. \A k \in 1..Len(d) : x[k] = d[k]
    <3> SUFFICES ASSUME NEW k \in 1..Len(d) PROVE x[k] = d[k]
      OBVIOUS
    <3>1. CASE k <= n
      <4>1. k \in 1..n
        BY <1>1, <3>1
      <4> QED
        BY <1>2, <2>2, <4>1
    <3>2. CASE k > n
      <4> DEFINE j == k - n
      <4>1. j \in 1..Len(d) - n /\ k = n + j
        BY <1>1, <3>2
      <4> HIDE DEF j
      <4>2. x[n + j] = b[j]
        BY <1>2, <1>3, <2>2, <4>1
      <4> QED
        BY <1>3, <4>1, <4>2
    <3> QED
      BY <1>1, <3>1, <3>2
  <2>4. Len(x) = Len(d)
    BY <1>1, <1>2, <1>3, <2>2
  <2>5. x = d
    BY <2>2, <2>3, <2>4, SeqEqual
  <2> QED
    BY <2>1, <2>5
<1> QED
  BY <1>2, <1>3, <1>4 DEF a

\* Whoever reads a message without its end, and is at the end of the bytes, reads values
\* of the message.
LEMMA CutIs ==
  ASSUME NEW fs, FieldList(fs), NEW m \in MessagesOf(fs), NEW n \in 0..Len(Written(fs, m)) - 1,
         MessageParsed(fs, New, SubSeq(Written(fs, m), 1, n)).whole
  PROVE  Included(MessageParsed(fs, New, SubSeq(Written(fs, m), 1, n)).m.has, m.has)
<1> DEFINE d == Written(fs, m)
           e == SubSeq(d, 1, n)
           r == MessageParsed(fs, New, e)
<1>1. d \in Seq(Byte) /\ n \in 0..Len(d)
  <2>1. d \in Seq(Byte)
    BY SizeIs
  <2>2. Len(d) \in Nat
    BY <2>1
  <2> QED
    BY <2>1, <2>2
<1>2. r.whole
  OBVIOUS
<1> HIDE DEF d
<1>3. PICK g \in Seq(Byte) : e \in Seq(Byte) /\ d = e \o g
  BY <1>1, CutApart
<1> HIDE DEF e
<1>4. WholeFields(e)
  <2>1. New \in AnyMessage
    BY NewIs
  <2> QED
    BY <1>2, <1>3, <2>1, WholeIs
<1>5. PICK x \in AnyMessage : Reads(fs, e, x)
  BY ONLY <1>4, FieldList(fs), WholeReads, Zenon
<1>6. Included(x.has, m.has)
  <2>1. Written(fs, m) = e \o g
    BY <1>3 DEF d
  <2> QED
    BY ONLY <1>4, <1>5, <2>1, g \in Seq(Byte), m \in MessagesOf(fs), FieldList(fs), WrittenCut, Zenon
<1>7. r = [ok |-> TRUE, whole |-> TRUE, m |-> x]
  BY ONLY <1>5, FieldList(fs), ReadsIs, Zenon DEF r
<1> HIDE DEF r
<1>8. r.m = x
  BY ONLY <1>7
<1>9. Included(r.m.has, m.has)
  BY ONLY <1>6, <1>8, Zenon
<1> QED
  BY ONLY <1>9, Zenon DEF r, e, d

\* A field of the program has a type.
LEMMA FieldIsType ==
  ASSUME NEW n \in 1..15, NEW k \in {"int32", "string"}, NEW label
  PROVE  Field(n, k, label) \in FieldTypes /\ Field(n, k, label).number = n
<1> DEFINE b == label = "required"
<1>1. b \in BOOLEAN
  OBVIOUS
<1>2. Field(n, k, label) = [number |-> n, kind |-> k, required |-> b]
  BY Zenon DEF Field
<1> HIDE DEF b
<1> QED
  BY <1>1, <1>2 DEF FieldTypes

\* The fields of a role are a list.
LEMMA RoleIsList == FieldList(Role)
<1>3. /\ Role_role_id \in FieldTypes /\ Role_role_id.number = 1
      /\ Role_profession \in FieldTypes /\ Role_profession.number = 2
      /\ Role_role_name \in FieldTypes /\ Role_role_name.number = 3
      /\ Role_gold \in FieldTypes /\ Role_gold.number = 4
  BY FieldIsType DEF Role_role_id, Role_profession, Role_role_name, Role_gold
<1>4. /\ Role_money \in FieldTypes /\ Role_money.number = 5
      /\ Role_rmb \in FieldTypes /\ Role_rmb.number = 6
      /\ Role_level \in FieldTypes /\ Role_level.number = 7
      /\ Role_vip_level \in FieldTypes /\ Role_vip_level.number = 8
  BY FieldIsType DEF Role_money, Role_rmb, Role_level, Role_vip_level
<1>5. /\ Role_exp \in FieldTypes /\ Role_exp.number = 9
      /\ Role_last_logout_time \in FieldTypes /\ Role_last_logout_time.number = 10
      /\ Role_souls_value \in FieldTypes /\ Role_souls_value.number = 11
      /\ Role_souls_index \in FieldTypes /\ Role_souls_index.number = 12
  BY FieldIsType DEF Role_exp, Role_last_logout_time, Role_souls_value, Role_souls_index
<1> DEFINE fs == Role
<1>6. fs \in Seq(FieldTypes) /\ Len(fs) = 12
  BY <1>3, <1>4, <1>5 DEF Role
<1>7. \A i \in 1..12 : fs[i].number = i
  BY <1>3, <1>4, <1>5 DEF Role
<1> HIDE DEF fs
<1>8. FieldList(fs)
  BY <1>6, <1>7 DEF FieldList
<1> QED
  BY <1>8 DEF fs

\* So are those of an item.
LEMMA ItemIsList == FieldList(Item)
<1>1. /\ Item_global_id \in FieldTypes /\ Item_global_id.number = 1
      /\ Item_role_id \in FieldTypes /\ Item_role_id.number = 2
      /\ Item_item_id \in FieldTypes /\ Item_item_id.number = 3
      /\ Item_item_num \in FieldTypes /\ Item_item_num.number = 4
      /\ Item_index \in FieldTypes /\ Item_index.number = 5
  BY FieldIsType DEF Item_global_id, Item_role_id, Item_item_id, Item_item_num, Item_index
<1>2. /\ Item_level \in FieldTypes /\ Item_level.number = 6
      /\ Item_state \in FieldTypes /\ Item_state.number = 7
      /\ Item_quality \in FieldTypes /\ Item_quality.number = 8
      /\ Item_is_equip \in FieldTypes /\ Item_is_equip.number = 9
      /\ Item_gems \in FieldTypes /\ Item_gems.number = 10
  BY FieldIsType DEF Item_level, Item_state, Item_quality, Item_is_equip, Item_gems
<1> DEFINE fs == Item
<1>3. fs \in Seq(FieldTypes) /\ Len(fs) = 10
  BY <1>1, <1>2 DEF Item
<1>4. \A i \in 1..10 : fs[i].number = i
  BY <1>1, <1>2 DEF Item
<1> HIDE DEF fs
<1>5. FieldList(fs)
  BY <1>3, <1>4 DEF FieldList
<1> QED
  BY <1>5 DEF fs

\* Those of a soul.
LEMMA SoulItemIsList == FieldList(SoulItem)
<1>1. /\ SoulItem_id \in FieldTypes /\ SoulItem_id.number = 1
      /\ SoulItem_soul_id \in FieldTypes /\ SoulItem_soul_id.number = 2
      /\ SoulItem_index \in FieldTypes /\ SoulItem_index.number = 3
      /\ SoulItem_type \in FieldTypes /\ SoulItem_type.number = 4
      /\ SoulItem_exp \in FieldTypes /\ SoulItem_exp.number = 5
  BY FieldIsType DEF SoulItem_id, SoulItem_soul_id, SoulItem_index, SoulItem_type, SoulItem_exp
<1> DEFINE fs == SoulItem
<1>2. fs \in Seq(FieldTypes) /\ Len(fs) = 5
  BY <1>1 DEF SoulItem
<1>3. \A i \in 1..5 : fs[i].number = i
  BY <1>1 DEF SoulItem
<1> HIDE DEF fs
<1>4. FieldList(fs)
  BY <1>2, <1>3 DEF FieldList
<1> QED
  BY <1>4 DEF fs

\* And those with which a server reports itself.
LEMMA RegisterServerIsList == FieldList(RegisterServer)
<1>1. /\ RegisterServer_server_name \in FieldTypes /\ RegisterServer_server_name.number = 1
      /\ RegisterServer_server_id \in FieldTypes /\ RegisterServer_server_id.number = 2
      /\ RegisterServer_param \in FieldTypes /\ RegisterServer_param.number = 3
  BY FieldIsType DEF RegisterServer_server_name, RegisterServer_server_id, RegisterServer_param
<1> DEFINE fs == RegisterServer
<1>2. fs \in Seq(FieldTypes) /\ Len(fs) = 3
  BY <1>1 DEF RegisterServer
<1>3. \A i \in 1..3 : fs[i].number = i
  BY <1>1 DEF RegisterServer
<1> HIDE DEF fs
<1>4. FieldList(fs)
  BY <1>2, <1>3 DEF FieldList
<1> QED
  BY <1>4 DEF fs

Types == {"Role", "Item", "SoulItem", "RegisterServer"}

\* Cleared, any message is a new one.
LEMMA ClearIs ==
  ASSUME NEW t \in Types, NEW m \in AnyMessage
  PROVE  Clear(t, m) = New
<1> DEFINE h == <<>>
           r == <<>>
           c == [m EXCEPT !.has = h, !.rest = r]
<1>1. m = [has |-> m.has, rest |-> m.rest]
  BY MessageIs
<1>2. New = [has |-> h, rest |-> r]
  BY DEF New
<1>3. c = [has |-> h, rest |-> r]
  <2>1. \A x, y : [m EXCEPT !.has = x, !.rest = y] = [[m EXCEPT !.has = x] EXCEPT !.rest = y]
    BY ONLY <1>1
  <2>2. \A x : [m EXCEPT !.has = x] = [has |-> x, rest |-> m.rest]
    BY ONLY <1>1
  <2>3. \A x, y : [[has |-> x, rest |-> m.rest] EXCEPT !.rest = y] = [has |-> x, rest |-> y]
    OBVIOUS
  <2> QED
    BY ONLY <2>1, <2>2, <2>3, Zenon
<1>4. c = New
  BY ONLY <1>2, <1>3, Zenon
<1>5. Clear(t, m) = c
  BY Zenon DEF Clear, Role_Clear, Item_Clear, SoulItem_Clear, RegisterServer_Clear
<1> QED
  BY ONLY <1>4, <1>5, Zenon

\* Each generated function is the scheme for the list of its message.
LEMMA GeneratedIs ==
  ASSUME NEW t \in Types
  PROVE  /\ FieldList(FieldsOf[t]) /\ Made(t) = New
         /\ \A m, d : MergePartial(t, m, d) = MessageParsed(FieldsOf[t], m, d)
         /\ \A m : Serialize(t, m) = Written(FieldsOf[t], m) /\ SerializeToArray(t, m) = Written(FieldsOf[t], m)
         /\ \A m : ByteSize(t, m) = SizeOf(FieldsOf[t], m)
         /\ \A m, n : MergeFrom(t, m, n) = Merged(m, n)
         /\ \A m : IsInitialized(t, m) <=> Initialized(FieldsOf[t], m)
         /\ \A m, n : Swap(t, m, n) = <<n, m>>
<1>1. FieldsOf["Role"] = Role /\ FieldsOf["Item"] = Item /\ FieldsOf["SoulItem"] = SoulItem
      /\ FieldsOf["RegisterServer"] = RegisterServer
  BY DEF FieldsOf
<1>2. FieldList(FieldsOf[t])
  BY <1>1, RoleIsList, ItemIsList, SoulItemIsList, RegisterServerIsList, Zenon DEF Types
<1>3. Made(t) = New
  BY Zenon DEF Made, Role_SharedCtor, Item_SharedCtor, SoulItem_SharedCtor, RegisterServer_SharedCtor
<1>4. CASE t = "Role"
  BY <1>1, <1>2, <1>3, <1>4 DEF MergePartial, Role_MergePartialFromCodedStream, Serialize,
     Role_SerializeWithCachedSizes, SerializeToArray, Role_SerializeWithCachedSizesToArray, ByteSize, Role_ByteSize,
     MergeFrom, Role_MergeFrom, IsInitialized, Role_IsInitialized, Swap, Role_Swap
<1>5. CASE t = "Item"
  BY <1>1, <1>2, <1>3, <1>5 DEF MergePartial, Item_MergePartialFromCodedStream, Serialize,
     Item_SerializeWithCachedSizes, SerializeToArray, Item_SerializeWithCachedSizesToArray, ByteSize, Item_ByteSize,
     MergeFrom, Item_MergeFrom, IsInitialized, Item_IsInitialized, Swap, Item_Swap
<1>6. CASE t = "SoulItem"
  BY <1>1, <1>2, <1>3, <1>6 DEF MergePartial, SoulItem_MergePartialFromCodedStream, Serialize,
     SoulItem_SerializeWithCachedSizes, SerializeToArray, SoulItem_SerializeWithCachedSizesToArray, ByteSize,
     SoulItem_ByteSize, MergeFrom, SoulItem_MergeFrom, IsInitialized, SoulItem_IsInitialized, Swap, SoulItem_Swap
<1>7. CASE t = "RegisterServer"
  BY <1>1, <1>2, <1>3, <1>7 DEF MergePartial, RegisterServer_MergePartialFromCodedStream, Serialize,
     RegisterServer_SerializeWithCachedSizes, SerializeToArray, RegisterServer_SerializeWithCachedSizesToArray,
     ByteSize, RegisterServer_ByteSize, MergeFrom, RegisterServer_MergeFrom, IsInitialized,
     RegisterServer_IsInitialized, Swap, RegisterServer_Swap
<1> QED
  BY <1>4, <1>5, <1>6, <1>7 DEF Types

\* A copy is what it was made of.
LEMMA CopyIs ==
  ASSUME NEW t \in Types, NEW m \in AnyMessage, NEW n \in AnyMessage
  PROVE  CopyFrom(t, m, n) = n
<1>1. CopyFrom(t, m, n) = MergeFrom(t, Clear(t, m), n)
  BY Zenon DEF Types, CopyFrom, MergeFrom, Clear, Role_CopyFrom, Item_CopyFrom, SoulItem_CopyFrom, RegisterServer_CopyFrom
<1>2. Clear(t, m) = New
  BY ClearIs
<1>3. MergeFrom(t, New, n) = Merged(New, n)
  BY GeneratedIs
<1>4. Merged(New, n) = n
  BY MergedNew
<1> QED
  BY ONLY <1>1, <1>2, <1>3, <1>4, Zenon

\* What a program sets a field to is a value of the field.
LEMMA ValuesAre ==
  ASSUME MessagesAssumption, NEW f \in FieldTypes
  PROVE  Values(f) # {} /\ \A v \in Values(f) : IsValue(f, v) /\ v \in AnyValue
<1>1. CASE f.kind = "int32"
  <2>1. Values(f) = {[int |-> i] : i \in Ints}
    BY <1>1 DEF Values
  <2>2. Ints # {} /\ \A i \in Ints : i \in Int32
    BY DEF MessagesAssumption
  <2>3. \A i \in Int32 : [int |-> i] \in [int : Int32]
    OBVIOUS
  <2> QED
    BY ONLY <1>1, <2>1, <2>2, <2>3 DEF IsValue, AnyValue
<1>2. CASE ~(f.kind = "int32")
  <2>1. Values(f) = {[text |-> s] : s \in Strings}
    BY <1>2 DEF Values
  <2>2. Strings # {} /\ \A s \in Strings : s \in Text
    BY DEF MessagesAssumption
  <2>3. \A s \in Text : [text |-> s] \in [text : Text]
    OBVIOUS
  <2> QED
    BY ONLY <1>2, <2>1, <2>2, <2>3 DEF IsValue, AnyValue
<1> QED
  BY ONLY <1>1, <1>2, Zenon

\* So have the values of the first message.
LEMMA FirstValuesAre ==
  ASSUME MessagesAssumption, NEW f \in FieldTypes
  PROVE  FirstValues(f) # {} /\ \A v \in FirstValues(f) : IsValue(f, v) /\ v \in AnyValue
<1>1. CASE f.kind = "int32"
  <2>1. FirstValues(f) = {[int |-> f.number]}
    BY <1>1 DEF FirstValues
  <2>2. f.number \in Int32
    <3>1. f.number \in 1..15
      BY DEF FieldTypes
    <3> QED
      BY ONLY <3>1, Int32Is
  <2>3. [int |-> f.number] \in [int : Int32]
    BY <2>2
  <2> QED
    BY ONLY <1>1, <2>1, <2>3 DEF IsValue, AnyValue
<1>2. CASE ~(f.kind = "int32")
  <2>1. FirstValues(f) = Values(f)
    BY <1>2 DEF FirstValues
  <2> QED
    BY <2>1, ValuesAre
<1> QED
  BY ONLY <1>1, <1>2, Zenon

\* A message with other values, each of its kind, is a message.
LEMMA WithHas ==
  ASSUME NEW fs, NEW m \in MessagesOf(fs), NEW h \in AnyHas, TypedHas(fs, h)
  PROVE  [m EXCEPT !.has = h] \in MessagesOf(fs)
<1> DEFINE x == [m EXCEPT !.has = h]
<1>1. m \in AnyMessage /\ Foreign(fs, m.rest)
  BY Zenon DEF MessagesOf
<1>2. m.rest \in Seq(Byte) /\ m = [has |-> m.has, rest |-> m.rest]
  BY <1>1, MessageIs
<1>3. \A y : [m EXCEPT !.has = y] = [has |-> y, rest |-> m.rest]
  BY ONLY <1>2
<1>4. x = [has |-> h, rest |-> m.rest]
  BY ONLY <1>3, Zenon
<1> HIDE DEF x
<1>5. x \in AnyMessage /\ x.has = h /\ x.rest = m.rest
  BY ONLY <1>2, <1>4, h \in AnyHas DEF AnyMessage
<1>6. x \in MessagesOf(fs)
  BY ONLY <1>1, <1>5, TypedHas(fs, h), Zenon DEF MessagesOf
<1> QED
  BY <1>6 DEF x

\* A field that is set leaves a message.
LEMMA SetIsMessage ==
  ASSUME MessagesAssumption, NEW fs, FieldList(fs), NEW m \in MessagesOf(fs), NEW i \in 1..Len(fs), NEW v \in Values(fs[i])
  PROVE  SetField(m, fs[i], v) \in MessagesOf(fs)
<1> DEFINE f == fs[i]
           n == f.number
           g == Single(n, v)
           h == Over(g, m.has)
<1>1. f \in FieldTypes
  BY ElementOfSeq DEF FieldList
<1>2. n \in 1..15
  BY <1>1 DEF FieldTypes
<1>3. v \in AnyValue /\ IsValue(f, v)
  BY <1>1, ValuesAre
<1>4. g \in AnyHas /\ DOMAIN g = {n} /\ g[n] = v
  BY ONLY <1>2, <1>3, SingleIs, Zenon
<1>5. TypedHas(fs, g)
  BY <1>3, <1>4 DEF TypedHas
<1>6. m.has \in AnyHas /\ TypedHas(fs, m.has)
  BY MessageIs, Zenon DEF MessagesOf
<1> HIDE DEF g
<1>7. h \in AnyHas /\ TypedHas(fs, h)
  BY <1>4, <1>5, <1>6, OverIs, TypedOver
<1>8. SetField(m, f, v) = [m EXCEPT !.has = h]
  BY DEF SetField, g, Single
<1> HIDE DEF h
<1>9. [m EXCEPT !.has = h] \in MessagesOf(fs)
  BY ONLY <1>7, m \in MessagesOf(fs), WithHas, Zenon
<1> QED
  BY ONLY <1>8, <1>9, Zenon

\* So does one that is cleared.
LEMMA ClearedIsMessage ==
  ASSUME NEW fs, NEW m \in MessagesOf(fs), NEW f
  PROVE  ClearField(m, f) \in MessagesOf(fs)
<1> DEFINE g == m.has
           D == DOMAIN g \ {f.number}
           h == [n \in D |-> g[n]]
<1>1. g \in AnyHas /\ TypedHas(fs, g)
  BY MessageIs, Zenon DEF MessagesOf
<1>2. D \subseteq 1..15 /\ \A n \in D : g[n] \in AnyValue /\ n \in DOMAIN g
  BY <1>1, HasIs
<1>3. h \in AnyHas
  <2> HIDE DEF D, g
  <2> QED
    BY ONLY <1>2, IsHas
<1>4. TypedHas(fs, h)
  BY <1>1 DEF TypedHas
<1>5. ClearField(m, f) = [m EXCEPT !.has = h]
  BY DEF ClearField
<1> HIDE DEF h
<1>6. [m EXCEPT !.has = h] \in MessagesOf(fs)
  BY ONLY <1>3, <1>4, m \in MessagesOf(fs), WithHas, Zenon
<1> QED
  BY ONLY <1>5, <1>6, Zenon

\* A message with all its required fields is one.
LEMMA FullIsMessage ==
  ASSUME MessagesAssumption, NEW t \in Types
  PROVE  Full(t) \in MessagesOf(FieldsOf[t])
<1> DEFINE fs == FieldsOf[t]
           required == {fs[i].number : i \in {j \in 1..Len(fs) : fs[j].required}}
           value(n) == CHOOSE v \in UNION {FirstValues(fs[i]) : i \in {j \in 1..Len(fs) : fs[j].number = n}} : TRUE
           h == [n \in required |-> value(n)]
<1>1. FieldList(fs) /\ Made(t) = New
  BY GeneratedIs
<1>2. Full(t) = [New EXCEPT !.has = h]
  BY <1>1 DEF Full
<1> HIDE DEF fs
<1>3. \A i \in 1..Len(fs) : fs[i] \in FieldTypes /\ fs[i].number \in 1..15
  <2>1. \A i \in 1..Len(fs) : fs[i] \in FieldTypes
    BY <1>1, ElementOfSeq DEF FieldList
  <2> QED
    BY <2>1 DEF FieldTypes
<1>4. \A n \in required : \E i \in 1..Len(fs) : fs[i].number = n /\ IsValue(fs[i], value(n)) /\ value(n) \in AnyValue
  <2> TAKE n \in required
  <2> DEFINE S == UNION {FirstValues(fs[i]) : i \in {j \in 1..Len(fs) : fs[j].number = n}}
  <2>1. PICK k \in 1..Len(fs) : fs[k].number = n
    OBVIOUS
  <2>2. \A i \in 1..Len(fs) : FirstValues(fs[i]) # {} /\ \A v \in FirstValues(fs[i]) : IsValue(fs[i], v) /\ v \in AnyValue
    BY <1>3, FirstValuesAre
  <2>3. S # {}
    BY <2>1, <2>2
  <2>4. value(n) = CHOOSE v \in S : TRUE
    OBVIOUS
  <2>5. value(n) \in S
    <3> HIDE DEF S, value
    <3> QED
      BY ONLY <2>3, <2>4
  <2>6. PICK i \in 1..Len(fs) : fs[i].number = n /\ value(n) \in FirstValues(fs[i])
    <3> HIDE DEF value
    <3> QED
      BY <2>5
  <2> HIDE DEF value
  <2> QED
    BY <2>2, <2>6
<1>5. required \subseteq 1..15
  BY <1>3
<1>6. h \in AnyHas
  <2>1. \A n \in required : value(n) \in AnyValue
    BY <1>4
  <2> HIDE DEF required, value
  <2>2. h = [n \in required |-> h[n]] /\ \A n \in required : h[n] \in AnyValue
    BY <2>1
  <2> HIDE DEF h
  <2> QED
    BY ONLY <1>5, <2>2, IsHas
<1>7. TypedHas(fs, h)
  <2> HIDE DEF required, value
  <2> QED
    BY <1>4 DEF TypedHas
<1> HIDE DEF h
<1>8. New \in MessagesOf(fs)
  BY <1>1, NewIsMessage
<1>9. [New EXCEPT !.has = h] \in MessagesOf(fs)
  BY ONLY <1>6, <1>7, <1>8, WithHas, Zenon
<1> QED
  BY ONLY <1>2, <1>9, Zenon DEF fs

\* Behind every step both messages are messages of their types, whatever was read, and the
\* wire is bytes.
IMessage ==
  /\ pair \in Pairs
  /\ left \in MessagesOf(FieldsOf[pair[1]]) /\ right \in MessagesOf(FieldsOf[pair[2]])
  /\ wire \in Seq(Byte)
  /\ verdict \in {"none", "content", "refused"}

\* A message is written and read by one of the four types.
LEMMA PairIs ==
  ASSUME MessagesAssumption, NEW p \in Pairs
  PROVE  p[1] \in Types /\ p[2] \in Types
BY DEF MessagesAssumption, Types

\* What ParseFromString answers.
LEMMA ParseIs ==
  ASSUME NEW t \in Types, NEW d \in Seq(Byte)
  PROVE  LET r == MessageParsed(FieldsOf[t], New, d)
             s == ParseFromString(t, d)
         IN s.m = r.m /\ r.m \in MessagesOf(FieldsOf[t]) /\ s.ok = (r.ok /\ r.whole /\ Initialized(FieldsOf[t], r.m))
<1> DEFINE fs == FieldsOf[t]
           r == MessageParsed(fs, New, d)
           s == ParseFromString(t, d)
           b == r.ok /\ r.whole /\ Initialized(fs, r.m)
<1>1. FieldList(fs) /\ Made(t) = New /\ New \in MessagesOf(fs) /\ New \in AnyMessage
  BY GeneratedIs, NewIsMessage, NewIs
<1>2. Clear(t, Made(t)) = New
  BY <1>1, ClearIs
<1>3. r = MergePartial(t, Clear(t, Made(t)), d)
  BY <1>2, GeneratedIs
<1>4. IsInitialized(t, r.m) <=> Initialized(fs, r.m)
  BY GeneratedIs
<1>5. r.m \in MessagesOf(fs)
  BY <1>1, ParsedIsMessage
<1>6. s = [r EXCEPT !.ok = r.ok /\ r.whole /\ IsInitialized(t, r.m)]
  BY <1>3 DEF ParseFromString, Judged
<1>7. (r.ok /\ r.whole /\ IsInitialized(t, r.m)) = b
  BY <1>4
<1>8. s = [r EXCEPT !.ok = b]
  BY ONLY <1>6, <1>7, Zenon
<1>9. \E x, y, z : r = [ok |-> x, whole |-> y, m |-> z]
  BY DEF MessageParsed, Returned
<1> HIDE DEF b, s, r
<1>10. s.m = r.m /\ s.ok = b
  BY ONLY <1>8, <1>9
<1> QED
  BY ONLY <1>5, <1>10, Zenon DEF b, r, s, fs

\* What the invariant is for: with it, a message is kept.
LEMMA KeptIs == ASSUME MessagesAssumption, IMessage PROVE MessageIsKept
<1> DEFINE t == pair[1]
           q == pair[2]
           fs == FieldsOf[t]
           gs == FieldsOf[q]
<1>1. t \in Types /\ q \in Types
  BY PairIs DEF IMessage
<1>2. /\ FieldList(fs) /\ Made(t) = New /\ FieldList(gs) /\ Made(q) = New
      /\ left \in MessagesOf(fs) /\ right \in MessagesOf(gs)
  BY <1>1, GeneratedIs DEF IMessage
<1> HIDE DEF t, q
<1>3. MessageTypeOK
  <2>1. ASSUME NEW f \in Range(fs), f.number \in DOMAIN left.has
        PROVE  DOMAIN left.has[f.number] = IF f.kind = "int32" THEN {"int"} ELSE {"text"}
    <3> HIDE DEF fs
    <3>1. \A i \in 1..Len(fs) : fs[i] \in FieldTypes
      BY <1>2, ElementOfSeq DEF FieldList
    <3>2. PICK k \in 1..Len(fs) : f = fs[k]
      BY <1>2 DEF Range, FieldList
    <3>3. TypedHas(fs, left.has)
      BY <1>2, Zenon DEF MessagesOf
    <3>4. PICK i \in 1..Len(fs) : fs[i].number = f.number /\ IsValue(fs[i], left.has[f.number])
      BY <2>1, <3>3 DEF TypedHas
    <3>5. i = k
      BY <1>2, <3>2, <3>4 DEF FieldList
    <3>6. IsValue(f, left.has[f.number])
      BY <3>2, <3>4, <3>5
    <3> QED
      BY <3>6 DEF IsValue
  <2>2. \A f \in Range(FieldsOf[pair[1]]) :
          f.number \in DOMAIN left.has => DOMAIN left.has[f.number] = IF f.kind = "int32" THEN {"int"} ELSE {"text"}
    BY ONLY <2>1, Zenon DEF t, fs
  <2> QED
    BY ONLY <2>2, IMessage, Zenon DEF IMessage, MessageTypeOK
<1>4. SizeIsWritten
  <2>1. /\ Len(Serialize(t, left)) = ByteSize(t, left) /\ SerializeToArray(t, left) = Serialize(t, left)
    BY <1>1, <1>2, GeneratedIs, SizeIs
  <2>2. /\ Len(Serialize(q, right)) = ByteSize(q, right) /\ SerializeToArray(q, right) = Serialize(q, right)
    BY <1>1, <1>2, GeneratedIs, SizeIs
  <2> SUFFICES ASSUME NEW k \in {1, 2}
               PROVE  /\ Len(Serialize(pair[k], <<left, right>>[k])) = ByteSize(pair[k], <<left, right>>[k])
                      /\ SerializeToArray(pair[k], <<left, right>>[k]) = Serialize(pair[k], <<left, right>>[k])
    BY DEF SizeIsWritten
  <2>3. <<left, right>>[1] = left /\ <<left, right>>[2] = right
    OBVIOUS
  <2>4. CASE k = 1
    BY ONLY <2>1, <2>3, <2>4, Zenon DEF t
  <2>5. CASE k = 2
    BY ONLY <2>2, <2>3, <2>5, Zenon DEF q
  <2> QED
    BY <2>4, <2>5
<1>5. RelayKeeps
  <2> SUFFICES ASSUME NEW p \in Pairs
               PROVE  LET through == MergePartial(p[2], Made(p[2]), Serialize(pair[1], left))
                          back == MergePartial(pair[1], Made(pair[1]), Serialize(p[2], through.m))
                      IN through.ok /\ back.ok /\ back.m.has = left.has
    BY Zenon DEF RelayKeeps
  <2> DEFINE o == p[2]
             hs == FieldsOf[o]
             through == MergePartial(o, Made(o), Serialize(t, left))
             back == MergePartial(t, Made(t), Serialize(o, through.m))
             through2 == MessageParsed(hs, New, Written(fs, left))
             back2 == MessageParsed(fs, New, Written(hs, through2.m))
  <2>1. o \in Types
    BY PairIs
  <2>2. FieldList(hs) /\ Made(o) = New
    BY <2>1, GeneratedIs
  <2>3. through = through2
    BY <1>1, <2>1, <2>2, GeneratedIs
  <2>4. back = back2
    <3>1. Serialize(o, through.m) = Written(hs, through.m)
      BY <2>1, GeneratedIs
    <3>2. back = MessageParsed(fs, Made(t), Serialize(o, through.m))
      BY <1>1, GeneratedIs
    <3> HIDE DEF through, through2, back
    <3> QED
      BY ONLY <1>2, <2>3, <3>1, <3>2, Zenon
  <2>5. through2.ok /\ back2.ok /\ back2.m.has = left.has
    <3> HIDE DEF hs, fs
    <3> QED
      BY <1>2, <2>2, RelayIs
  <2>6. through.ok /\ back.ok /\ back.m.has = left.has
    <3> HIDE DEF through, through2, back, back2
    <3> QED
      BY ONLY <2>3, <2>4, <2>5, Zenon
  <2> QED
    BY ONLY <2>6, Zenon DEF t, o, through, back
<1>6. ConcatIsMerge
  <2> SUFFICES ASSUME pair[1] = pair[2]
               PROVE  MergePartial(t, Made(t), Serialize(t, left) \o Serialize(t, right)).m = MergeFrom(t, left, right)
    BY Zenon DEF ConcatIsMerge, t
  <2>1. right \in MessagesOf(fs)
    <3>1. q = t
      BY DEF q, t
    <3> QED
      BY ONLY <1>2, <3>1, Zenon
  <2>2. MessageParsed(fs, New, Written(fs, left) \o Written(fs, right)).m = Merged(left, right)
    BY <1>2, <2>1, ConcatIs
  <2>3. /\ Serialize(t, left) = Written(fs, left) /\ Serialize(t, right) = Written(fs, right)
        /\ MergeFrom(t, left, right) = Merged(left, right)
        /\ \A m, d : MergePartial(t, m, d) = MessageParsed(fs, m, d)
    BY <1>1, GeneratedIs
  <2> QED
    BY ONLY <1>2, <2>2, <2>3, Zenon
<1>7. CutIsNoticed
  <2> DEFINE w == Written(fs, left)
  <2>1. Serialize(t, left) = w
    BY <1>1, GeneratedIs
  <2>2. w \in Seq(Byte)
    BY <1>2, SizeIs
  <2> SUFFICES ASSUME NEW n \in 0..Len(w) - 1, ParseFromString(t, SubSeq(w, 1, n)).ok
               PROVE  /\ IsInitialized(t, left)
                      /\ \A k \in DOMAIN ParseFromString(t, SubSeq(w, 1, n)).m.has :
                           k \in DOMAIN left.has /\ ParseFromString(t, SubSeq(w, 1, n)).m.has[k] = left.has[k]
    <3> HIDE DEF w
    <3> QED
      BY <2>1 DEF CutIsNoticed, t
  <2> DEFINE e == SubSeq(w, 1, n)
             s == ParseFromString(t, e)
             r == MessageParsed(fs, New, e)
  <2>3. n \in 0..Len(w) /\ e \in Seq(Byte)
    <3>1. n \in 0..Len(w)
      BY <2>2
    <3> HIDE DEF w
    <3> QED
      BY <2>2, <3>1, CutApart
  <2>4. s.m = r.m /\ s.ok = (r.ok /\ r.whole /\ Initialized(fs, r.m))
    <3> HIDE DEF e
    <3> QED
      BY <1>1, <2>3, ParseIs
  <2>5. r.whole /\ Initialized(fs, r.m)
    <3> HIDE DEF r
    <3>1. s.ok
      OBVIOUS
    <3> HIDE DEF s
    <3> QED
      BY ONLY <2>4, <3>1
  <2>6. Included(r.m.has, left.has)
    BY <1>2, <2>5, CutIs
  <2>7. IsInitialized(t, left)
    <3>1. Initialized(fs, left)
      <4> HIDE DEF r
      <4> QED
        BY ONLY <2>5, <2>6 DEF Initialized, Included
    <3> QED
      BY <1>1, <3>1, GeneratedIs
  <2>8. \A k \in DOMAIN s.m.has : k \in DOMAIN left.has /\ s.m.has[k] = left.has[k]
    <3> HIDE DEF s, r
    <3> QED
      BY ONLY <2>4, <2>6, Zenon DEF Included
  <2> QED
    BY ONLY <2>7, <2>8, Zenon DEF s, e
<1> QED
  BY <1>3, <1>4, <1>5, <1>6, <1>7 DEF MessageIsKept

\* A message starts as one.
LEMMA MessageStarts == ASSUME MessagesAssumption, MessageInit PROVE IMessage
<1>1. pair \in Pairs /\ wire = <<>> /\ verdict = "none"
  BY DEF MessageInit
<1>2. pair[1] \in Types /\ pair[2] \in Types
  BY <1>1, PairIs
<1>3. \A t \in Types : Made(t) \in MessagesOf(FieldsOf[t]) /\ Full(t) \in MessagesOf(FieldsOf[t])
  <2> TAKE t \in Types
  <2>1. FieldList(FieldsOf[t]) /\ Made(t) = New
    BY GeneratedIs
  <2> QED
    BY <2>1, NewIsMessage, FullIsMessage
<1>4. left \in MessagesOf(FieldsOf[pair[1]]) /\ right \in MessagesOf(FieldsOf[pair[2]])
  <2>1. (left = Made(pair[1]) \/ left = Full(pair[1])) /\ right = Made(pair[2])
    BY DEF MessageInit
  <2> QED
    BY ONLY <1>2, <1>3, <2>1, Zenon
<1>5. wire \in Seq(Byte)
  BY <1>1
<1> QED
  BY <1>1, <1>4, <1>5 DEF IMessage

\* Every step leaves messages, and bytes on the wire.
LEMMA MessageGoesOn == ASSUME MessagesAssumption, IMessage, [MessageNext]_messageVars PROVE IMessage'
<1> DEFINE t == pair[1]
           q == pair[2]
           fs == FieldsOf[t]
           gs == FieldsOf[q]
<1>1. t \in Types /\ q \in Types
  BY PairIs DEF IMessage
<1>2. FieldList(fs) /\ FieldList(gs)
  BY <1>1, GeneratedIs
<1>3. /\ pair \in Pairs /\ left \in MessagesOf(fs) /\ right \in MessagesOf(gs)
      /\ wire \in Seq(Byte) /\ verdict \in {"none", "content", "refused"}
  BY Zenon DEF IMessage
<1>4. left \in AnyMessage /\ right \in AnyMessage
  BY <1>3, Zenon DEF MessagesOf
<1> HIDE DEF t, q, fs, gs
<1>5. ASSUME pair' = pair, left' \in MessagesOf(fs), right' \in MessagesOf(gs), wire' \in Seq(Byte),
             verdict' \in {"none", "content", "refused"}
      PROVE  IMessage'
  BY ONLY <1>3, <1>5, Zenon DEF IMessage, fs, gs, t, q
<1>6. CASE set_field
  <2>1. pair' = pair /\ right' = right /\ wire' = wire /\ verdict' = verdict
    BY <1>6 DEF set_field, Step
  <2>2. left' \in MessagesOf(fs)
    <3>1. PICK f \in TouchedFields(pair[1]) : \E v \in Values(f) : left' = SetField(left, f, v)
      BY <1>6 DEF set_field
    <3>2. PICK i \in 1..Len(fs) : f = fs[i]
      BY <3>1 DEF TouchedFields, fs, t
    <3>3. PICK v \in Values(fs[i]) : left' = SetField(left, fs[i], v)
      BY <3>1, <3>2
    <3>4. SetField(left, fs[i], v) \in MessagesOf(fs)
      BY <1>2, <1>3, SetIsMessage
    <3> QED
      BY ONLY <3>3, <3>4, Zenon
  <2> QED
    BY ONLY <1>3, <1>5, <2>1, <2>2, Zenon
<1>7. CASE clear_field
  <2>1. pair' = pair /\ right' = right /\ wire' = wire /\ verdict' = verdict
    BY <1>7 DEF clear_field, Step
  <2>2. PICK f : left' = ClearField(left, f)
    BY <1>7 DEF clear_field
  <2>3. left' \in MessagesOf(fs)
    BY <1>3, <2>2, ClearedIsMessage
  <2> QED
    BY ONLY <1>3, <1>5, <2>1, <2>3, Zenon
<1>8. CASE ClearLeft
  <2>1. pair' = pair /\ right' = right /\ wire' = wire /\ verdict' = verdict /\ left' = Clear(pair[1], left)
    BY <1>8 DEF ClearLeft, Step
  <2>2. Clear(pair[1], left) = New
    BY <1>1, <1>4, ClearIs DEF t
  <2>3. New \in MessagesOf(fs)
    BY <1>2, NewIsMessage
  <2>4. left' \in MessagesOf(fs)
    BY ONLY <2>1, <2>2, <2>3, Zenon
  <2> QED
    BY ONLY <1>3, <1>5, <2>1, <2>4, Zenon
<1>9. CASE Write
  <2>1. pair' = pair /\ left' = left /\ right' = right /\ verdict' = verdict
    BY <1>9 DEF Write, Step
  <2> DEFINE w == Written(fs, left)
  <2>2. wire' = wire \o w
    <3>1. Serialize(t, left) = w /\ SerializeToArray(t, left) = w
      BY <1>1, GeneratedIs DEF fs
    <3>2. wire' = wire \o Serialize(pair[1], left) \/ wire' = wire \o SerializeToArray(pair[1], left)
      BY <1>9 DEF Write
    <3> QED
      BY ONLY <3>1, <3>2, Zenon DEF t
  <2>3. w \in Seq(Byte)
    BY <1>2, <1>3, SizeIs
  <2> HIDE DEF w
  <2>4. wire \o w \in Seq(Byte)
    BY ONLY <1>3, <2>3, JoinIs
  <2>5. wire' \in Seq(Byte)
    BY ONLY <2>2, <2>4, Zenon
  <2> QED
    BY ONLY <1>3, <1>5, <2>1, <2>5, Zenon
<1>10. CASE Cut
  <2>1. pair' = pair /\ left' = left /\ right' = right /\ verdict' = verdict
    BY <1>10 DEF Cut, Step
  <2>2. PICK n \in {1, Len(wire) - 1} : wire' = SubSeq(wire, 1, n)
    BY <1>10 DEF Cut
  <2>3. n \in 0..Len(wire)
    <3>1. wire # <<>>
      BY <1>10 DEF Cut
    <3>2. Len(wire) \in Nat /\ Len(wire) # 0
      BY <1>3, <3>1
    <3> QED
      BY ONLY <3>2, n \in {1, Len(wire) - 1}
  <2>4. SubSeq(wire, 1, n) \in Seq(Byte)
    BY <1>3, <2>3, CutApart
  <2>5. wire' \in Seq(Byte)
    BY ONLY <2>2, <2>4, Zenon
  <2> QED
    BY ONLY <1>3, <1>5, <2>1, <2>5, Zenon
<1>11. CASE ReadWire
  <2>1. pair' = pair /\ left' = left /\ wire' = wire
    BY <1>11 DEF ReadWire, Step
  <2>2. /\ right' = ParseFromString(pair[2], wire).m
        /\ verdict' = IF ParseFromString(pair[2], wire).ok THEN "content" ELSE "refused"
    BY <1>11, Zenon DEF ReadWire
  <2>3. ParseFromString(q, wire).m \in MessagesOf(gs)
    <3> DEFINE s == ParseFromString(q, wire).m
               r == MessageParsed(gs, New, wire).m
    <3>1. s = r /\ r \in MessagesOf(gs)
      BY <1>1, <1>3, ParseIs DEF gs
    <3> HIDE DEF s, r
    <3>2. s \in MessagesOf(gs)
      BY ONLY <3>1, Zenon
    <3> QED
      BY ONLY <3>2 DEF s
  <2>4. right' \in MessagesOf(gs)
    BY ONLY <2>2, <2>3, Zenon DEF q
  <2>5. verdict' \in {"none", "content", "refused"}
    BY <2>2
  <2> QED
    BY ONLY <1>3, <1>5, <2>1, <2>4, <2>5, Zenon
<1>12. CASE Merge
  <2>1. pair' = pair /\ right' = right /\ wire' = wire /\ verdict' = verdict /\ pair[1] = pair[2]
    BY <1>12 DEF Merge, Step
  <2>2. right \in MessagesOf(fs)
    BY ONLY <1>3, <2>1, Zenon DEF fs, gs, t, q
  <2>3. MergeFrom(t, left, right) = Merged(left, right) /\ CopyFrom(t, left, right) = right
    BY <1>1, <1>4, GeneratedIs, CopyIs
  <2>4. Merged(left, right) \in MessagesOf(fs)
    BY <1>2, <1>3, <2>2, MergedIsMessage
  <2>5. left' = MergeFrom(pair[1], left, right) \/ left' = CopyFrom(pair[1], left, right)
    BY <1>12 DEF Merge
  <2>6. left' \in MessagesOf(fs)
    BY ONLY <2>2, <2>3, <2>4, <2>5, Zenon DEF t
  <2> QED
    BY ONLY <1>3, <1>5, <2>1, <2>6, Zenon
<1>13. CASE Exchange
  <2>1. pair' = pair /\ wire' = wire /\ verdict' = verdict /\ pair[1] = pair[2]
    BY <1>13 DEF Exchange, Step
  <2>2. left' = Swap(pair[1], left, right)[1] /\ right' = Swap(pair[1], left, right)[2]
    BY <1>13 DEF Exchange
  <2>3. Swap(pair[1], left, right) = <<right, left>>
    BY <1>1, GeneratedIs DEF t
  <2>4. left' = right /\ right' = left
    BY ONLY <2>2, <2>3
  <2>5. left' \in MessagesOf(fs) /\ right' \in MessagesOf(gs)
    BY ONLY <1>3, <2>1, <2>4, Zenon DEF fs, gs, t, q
  <2> QED
    BY ONLY <1>3, <1>5, <2>1, <2>5, Zenon
<1>14. CASE UNCHANGED messageVars
  <2>1. pair' = pair /\ left' = left /\ right' = right /\ wire' = wire /\ verdict' = verdict
    BY <1>14 DEF messageVars
  <2> QED
    BY ONLY <1>3, <1>5, <2>1, Zenon
<1> QED
  BY <1>6, <1>7, <1>8, <1>9, <1>10, <1>11, <1>12, <1>13, <1>14 DEF MessageNext

\* The generated messages keep what protocol buffers promise (warrior.pb.cc, peer.pb.cc), for
\* any values of the fields and any number of writes, cuts and reads: the size announced is the
\* size written, a program that knows another message passes on what it does not know, messages
\* behind each other are merged, and no message is taken for whole that lacks a field or has a
\* value that was not written.
THEOREM MessageIsAlwaysKept == MessageSpec => []MessageIsKept
<1>1. MessageInit => IMessage
  BY WireAssumption, MessageStarts
<1>2. IMessage /\ [MessageNext]_messageVars => IMessage'
  BY WireAssumption, MessageGoesOn
<1>3. IMessage => MessageIsKept
  BY WireAssumption, KeptIs
<1> QED
  BY <1>1, <1>2, <1>3, PTL DEF MessageSpec
=============================================================================
