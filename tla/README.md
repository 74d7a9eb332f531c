# A verification project for the windnet game server

The server (`src/*.cpp`) is a C++ process for a role-playing game: an epoll
thread turns the bytes of the clients into messages, a lock-free ring hands them
to worker threads, and the workers run *servlets* that change accounts, roles,
bags and scenes in memory and write them through one MySQL connection. There is
no lock anywhere, nothing is written twice, and a client only waits if it wants
to. This directory holds TLA+ models of the parts in which that matters, TLC
configurations that check them, and TLAPS proofs about the ring, the frames, the
connections, the scene, the accounts, the items, the souls, the gems, the builder
of documents and the generated messages.

    tlc -config RingOne.cfg MCRingQueue.tla        # any run: <cfg>, its MC module
    tlapm GemsProofs.tla                           # any proofs: <module>Proofs.tla

## 1. The system

| part | state | operations | who calls whom |
|---|---|---|---|
| `socket_server.cpp`, `epoll_server.cpp` | the epoll set, descriptors, `PlayerSession` objects | accept, watch, read, close | three accept threads add descriptors, one epoll thread serves all of them, workers write to them |
| `socket.cpp`, `buffer.cpp`, `bson_buffer.cpp` | per connection: `m_read`, `m_write`, 8 KB, the last parsed message | read loop, `add`, `parseFromBuffer` | called by the epoll thread, which then pushes |
| `ring_queue.cpp` | `m_head`, `m_tail`, 8096 slots | `push`, `pop` | pushed by the epoll thread, popped by the workers |
| `thread.cpp`, `servlet.cpp` | none | pop, dispatch by command name, delete the message | `thread_num` workers (default 1) |
| `account_manager.cpp`, `login_servlet.cpp`, `role_servlet.cpp` | maps of accounts and roles, tables `accounts`, `roles` | Register, Login, AutoLogin, CreateRole, LoadRoles, ChooseRole, loading at start | workers, through the one connection |
| `player_session.cpp`, `role.cpp` | `m_role` of a session | load a role, go offline | ChooseRole on a worker; hang-up on the epoll thread |
| `scene.cpp`, `scene_servlet.cpp` | who is in the scene | enter, walk, leave, surroundings | workers; leaving on the epoll thread |
| `item_bag.cpp`, `item.cpp`, `item_servlet.cpp` | cells, items by id, money, table `items` | buy, sell, abandon, move, sort, equip, unequip, strengthen, load | one request at a time per player |
| `souls_bag.cpp`, `soul_item_servlet.cpp`, `dataset/soul_item_template.cpp` | hunted, stored and equipped souls, cells, table `souls` | hunt, store, move, equip, swallow one, swallow all, load | the same |
| `gem_servlet.cpp`, `item.cpp` | gems in an item, column `gems` of `items` | insert, strengthen, write, read | the same |
| `bson/bson_parser.cpp`, `bson/bson/` | none: objects and documents | build, serialise, parse, getters that throw | every request and every answer, on all threads |
| `bson/CBson*.cpp`, `client_test/client.cpp` | the test client's objects | the same for the other side | talks to the server |
| `warrior.pb.*`, `peer/peer.pb.*` | fields of roles, items, souls | generated setters, getters and wire functions | the server uses setters and getters only |
| `task_servlet.cpp`, `skill_servlet.cpp`, `chat_servlet.cpp`, `friend_servlet.cpp`, `timer.cpp` | none that changes | stubs | |
| `mysql/` | one connection, its last result and insert id | execute, read the result | all workers share it |
| `dataset/` | static tables of `data/*.csv` | read at start | |

What is hard: two kinds of threads meet in the ring, in the scene and in the
roles (a hang-up deletes a role on the epoll thread while workers use it); all
workers share one connection and its insert id; a purchase, a sale or a hunt is
several statements without a transaction, and the process may die between any
two; bytes arrive in pieces, several frames at once, or not at all; and the bags
keep the same fact in three places (a vector of cells, a map by id, an index in
the item) and a fourth in the table; a session keeps the number of a closed descriptor while
the kernel gives it to the next connection; and no caller looks at the results of
`Buffer::add`, `bson_finish` or `write`. The list of such hazards, each with its
line, is in `PROJECT.json` under "hazards".

## 2. The modules

| module | models | used by |
|---|---|---|
| `MessageChannel` | abstract: a FIFO channel that receives what was sent, in order | `RingQueue!Channel` |
| `RingQueue` | `ring_queue.cpp`, the loop of `thread.cpp`, dispatch and delete | `MCRingQueue`, `MessagePathProofs` |
| `Frames` | read loop, buffer, framing and push, for all connections of the epoll thread | `MCFrames`, `MessagePathProofs` |
| `Connections` | accept threads, epoll set, descriptors and their reuse, writes of the workers | `MCConnections`, `ConnectionsProofs` |
| `World` | sessions, roles and the scene under hang-ups and several workers | `MCWorld`, `WorldProofs` |
| `Accounts` | accounts, roles, insert ids and results of the one connection, death and start | `MCAccounts`, `AccountsProofs` |
| `ItemBag` | the bag of one role, its money, its rows | `MCItemBag`, `ItemBagProofs` |
| `Gems` | the gems in the items of a role, and the column they are saved in | `MCGems`, `GemsProofs` |
| `SoulsBag` | the souls of one role, its purse, its rows | `MCSoulsBag`, `SoulsBagProofs` |
| `Bson` | the operations of `bson/bson/bson.c` and `encoding.c` (operators, no state) | `Builder`, `Dialog` |
| `Builder` | a BSON builder in the hands of a caller that ignores results | `Documents`, `ConnectionsProofs` |
| `Documents` | a reader of what `Builder` made, and the reference for its check of texts | `Codecs` |
| `Dialog` | a request and its answer: object layers, frame, cipher, dispatch | `Codecs` |
| `Messages` | the protocol-buffer classes and two programs that exchange them | `Codecs`, `MessagePathProofs` |
| `Codecs` | `Documents`, `Dialog` and `Messages` as three parts of one specification | `MCCodecs` |
| `CommonLemmas` | facts about `Min`, `Max`, sums, folds, loops and sequences that the proofs share | the `Proofs` modules |
| `MessagePathProofs` | theorems about `RingQueue` and `Frames`, the two halves of the way of a message, and about `Messages`, what one may carry | |
| `ConnectionsProofs` | theorems about `Connections`, and about `Builder`, by which what is sent over them is made | |
| `WorldProofs`, `AccountsProofs`, `ItemBagProofs`, `SoulsBagProofs`, `GemsProofs` | theorems about the module each is named after | |

The `MC` modules give the instances: permutations for symmetry and small tables.
In every module one action is one handler, or one step of it where another thread
or a crash may come between. Operators that stand before another definition under
a comment "Mutant of ..." are plausible bugs of it; the specification does not use
them. They serve to see that each property can fail.

### RingQueue

`m_head`, `m_tail` and `m_queue` are `head`, `tail` and `slot`; a message is the
number of its push and 0 is NULL. `push` is two steps (`PushReserve`, the atomic
add, and `PushStore`), `pop` is four: `PopRead` reads `m_head`, `PopCheck` looks
at the slot, `PopAdvance` is the atomic add, `PopTake` reads the slot a second
time, at the position first read. `Dispatch` uses the message, `Delete` frees
it; the slot keeps its pointer. A dispatch may kill the process: over a freed
message, over a head of the wrong type, over a role or an account that is not
there; a delete of a freed message may. Bounds: `MaxPush` on the messages, `MaxPop`
on `m_head`.

The ring does not know whether it is full, and it does not know an emptied slot
from a filled one. So the strong properties are of the first lap (8096
messages): `FirstLapInOrder`, `NoUseAfterDelete`, `EventuallyPopped` and the
refinement `IsChannel` hold with one worker, `WorkerInOrder` with several.
`WindowIntact`, `WindowedPop` and `LossIsDuplication` hold for all laps
(`FirstLapInOrder` and `WindowedPop` are proved, and checked by no run). Past the
first lap with one worker an emptied slot is popped again and its deleted message
dispatched; the models contain these behaviours, and the antecedents of the
properties say exactly where they begin.

### Frames

A byte is its position in the stream of its connection, and a client gives the
stream its frames. `EpollWait` is an edge-triggered event, `Read` one turn of the
loop of `Socket::read`, `Add` is `Buffer::add` with its move and its refusals,
`Parse` the one call of `parseFromBuffer` per event and the push. The descriptors
block: nothing calls `nonblocking()` on an accepted one, and a turn of the loop
with nothing to read waits. `kind` is what is known of the clients, fixed at the
start: `"any"`; `"whole"`, whose frames arrive whole; `"waiting"`, which waits for
its answer before it sends again, with frames below a chunk. `FairFrames` adds that
the epoll thread runs (`WF(Epoll)`; the loop never leaves off) and that what was
sent arrives. The system
calls are taken not to fail; a read that is interrupted would end the loop, but
the server installs no signal handler. The cipher is in `Dialog`; a peer that
sends version 0, by which the code divides, is left out.

### Connections

`fd` is `m_fd` of each session and stays when the descriptor is closed; `owner` is
what the kernel has behind a number now, `watch` what the epoll set names for a
connection, `edge` what `epoll_wait` has not reported. `Accept` takes the least
free number, and ends its thread when there is none (`socket_server.cpp:60`);
`Watch` is the later `addEvent`. The epoll thread goes through `Wait`, `Read`,
`Close`, `Offline`, `Unwatch` and `Parse`, with the second close for bytes that do
not parse. `Write` is the write of a worker or of the epoll thread through a number
that may be closed, or another's by now; a peer that has gone may raise SIGPIPE,
which nothing handles. A session in the scene is told of others, so that a request
of one client writes to all.

What the design carries: with quiet clients, which do not stir while another is
leaving, everybody is watched by their own session and hears only their own
(`QuietIsRight`); with polite ones every hang-up is noticed (`HangupIsNoticed`), and
`DamageByOverlap` names the two ways in which one connection suffers from another: a
broadcast that overlaps a close, and a number that is given away between `close`
and `EPOLL_CTL_DEL` (`epoll_server.cpp:65-66`). Only the second close, which takes
bytes that do not parse, needs a client of any kind.

### World

`conn`, `role`, `freed` and `here` are the parts of a `PlayerSession`: its socket,
`m_role`, whether that was deleted (the pointer stays), and `m_scene` of the role.
`current` is `AccountInfo::current` and `players` is `Scene::m_players`. The epoll
thread accepts, receives, and ends connections in three steps: `Hangup` (close,
leave the scene), `DeleteRole`, `Leftover` (what `epollRoutine` does with the
buffer of a connection it has just closed). Workers pop and run `ChooseRole`,
`UseRole` (the use of a role by that or any bag or gem request), `EnterScene`,
`LookAround` and `SendSurrounding`, `Walk`. The use of a NULL role kills the
process, the use of a deleted one may. The queue is the channel `RingQueue` is in
its first lap with one worker; with two, duplicates are left to `RingQueue`.
Nothing fills the maps of `PlayerSessionManager`, so `getPlayer` finds nothing.

`setting` is fixed at the start: how many connections, threads and messages there
may be, which roles are asked for, and the kind of the clients. A polite client
waits for its answers, chooses one role of an account that is not in use, and
hangs up when no request of its own is under way; a quiet one hangs up only while
nobody is served; of any other client nothing is assumed, and it may leave a
request or garbage in the buffer of the connection it ends. The properties say how
far the design carries: with any client only the type holds, with polite ones the
scene is right (`SceneIsLive`) and exactly one overlap uses a deleted role
(`MisuseByOverlap`), with quiet ones none does (the same property).

`stale` are the sessions whose copy of the role is older than its row, because
another session saved since; saving such a copy is a `lostSave`. `ChooseRole` loads
the row anew (the cache is empty), so polite clients never lose a save
(`NoLostSave`), although nothing in the code keeps two sessions from one role.

### Accounts

An account is its row; password and token identify the row, so two registrations
of one name are told apart. A registration and the creation of a role are three
steps: look-up, insert, and reading the insert id with the update of the maps. A
choice of a role is two selects, each with its reading. Another worker may come
between them, and the process may die there. `Execute` is any statement on the
shared connection: it sets the insert id and frees or replaces the result of the
statement before, whoever reads it; `Save` is any request that writes a role and
its items back. An insert is done, refused, or *lost*: the row is there, but
`execute` returned false. `known` is what clients remember of a login, with which
`LoadRoles` may ask again after a restart.

`raced`, `lost` and `harm` are history: how many requests have run between the steps
of another (with one worker none does), whether an answer was lost since the start,
and what requests had done up to the first race: ended the process (`killed`), shown
a client another's roles (`misled`), written one role's values over another's
(`mixed`). `HonestAreSafe` says that nothing of it happens before the first race; the
model contains what happens after it. Of `AnsweredIsServed` the tokens hold
whatever races, names and ids until the first race. The operations on a `std::map`
are taken as atomic also with two workers. `Restart` is `loadFromDB`; SysOpenId is
left out of what must survive (it is written to the column `sysopen_id` and read
from `sys_openid`).

### ItemBag

`slot` is `m_items`, `inMap` the keys of `m_itemMap`, `item` the objects, `row` the
table, `money` and `dbMoney` the role's money in memory and in its row. One action
per request; the actions ending in `Cut` are the process dying inside the request,
after some of its statements, and those ending in `Crash` the requests that kill
it. A setting (`set`) gives templates, sizes and bounds; with `FirstVisit` the
client does on its first visit with an item what its screens offer, otherwise it
sends any id of `m_itemMap` at any time, leaves and returns. The price is a constant
of any sign, since the code never reads the column; the runs take positive ones. A
count is any int, since nothing asks whether it is positive: for a negative one the
shop pays. `price * count` and the money it leaves wrap at `IntMax`, and the count of
a row at `ShortMax`. `MaxMoney` bounds what a purchase or a sale may leave, and bounds
nothing at `IntMax`.
A sort keeps the first `DEFAULT_BAG_CELL` cells (`item_bag.cpp:65`): what is beyond
stays in the map and the table but no screen shows it until the next start, so
bag shows. A count whose short is not positive makes a stack that, filled up to
zero, is marked deleted and may then be filled again, and money past `IntMax` comes
back negative. The history variable `odd` says that such a purchase (`Odd`) was made;
the sums of `TableKeepsUp` and `WealthSources` are stated until then. A strengthening
of no levels looks at a template that is not there and ends the process
(`StrengthCrash`). A read behind the end of the vector (`moveItem` of an item whose
index is out of range) is modelled as death. Left out: failing statements.

### Gems

`gems` is `m_gems` of each item, `bag` the keys of `m_itemMap`, `empty` the items with
a number of 0, `row` whether a row is good, whether its number is 0, and its column
`gems`: a sequence of gems and semicolons, each gem standing
for its four numbers and commas. `Written` is what `flushToDB` makes of the vector,
with the digit it cuts off, `Read` what `loadFromDB` makes of the column: since
nothing writes a semicolon, `Split` finds no finished piece and a reload brings no
gem back. A flush (`Saved`) also marks an item with a number of 0 as deleted, though it
stays in the bag. `EquipGem` is the whole request with its two flushes; `EquipCut` dies
between them. `EquipBefore` is a negative index: a write before the vector, which ends
the process at -1 and where there is no storage, and may do no visible harm further
away. A position past the end leaves NULLs
in the vector; the flush of the same request reads them and the process dies, so
that no other request meets one. Fragments are never taken:
`decItemCountByTemplateId` is empty (`item_bag.h:47`).

`moveItem` of one stack onto another of its template (`Heaps` says which items those
are) is `StackAll`, by which the moved item leaves the bag with the gems it carries,
or `StackSome`; `StackCut` dies between its flushes. Numbers other than 0 are not
kept: which items have none after a step is a choice among what the sums allow
(`Emptied`, `Shared`). `Flush` is any other request that saves items, with those a
sort emptied by its merges, and `FlushCut` the process dying among its flushes.

### SoulsBag

`hunted`, `bag`, `equipped` are the three maps, `vect` the cells, `soul` the
objects, `row` the table, `purse` money, index and value of the role. The tables
of levels (`LevelExp`, `SwallowExp`) and of hunts (`HuntInfo`) are constants with
the shape of `data/souls_exp.csv` and `data/souls_hunt.csv`; `Sum` and `Rolled` do
what `SoulItemTemplate::init` does with the weights. `StaleExp` holds what a read
of a deleted soul's experience may give (`soul_item_servlet.cpp:316-318`). A
client's page and index are natural numbers here; the tables are taken to be
contiguous.

### Bson, Builder, Documents, Dialog, Messages, Codecs

A document is the sequence of its bytes; a byte that was allocated and never written
is `Unset`. `Bson` has one operator per function of the library; a builder is a record
of its bytes, its room, its stack of open sub-objects and its errors. `Builder` calls
them in any order, as `bson_parser.cpp` does without looking at results. `said` is
what the accepted calls were asked to put in (a finished copy has its write position
behind the size bytes, or at NULL, so that an element appended without a name
overwrites it or ends the process: `back`), `slips` what went wrong on the way:
half a regular expression, an element behind a refused head, and so on. `BuilderSafe`
says that no byte lies beyond the room and no open sub-object outside the document,
and which slips put half an element into a finished document. `Documents` reads that
document back with the iterator (`DocumentIsRead`), and holds what is recursive about it.

`Dialog` is one request and its answer. The client makes its object with the server's
own layer (`bson_parser.cpp`, whose setters keep the first value of a key and whose
getters throw) or with `CBsonObject` (whose setters assign, share sub-objects, and
whose look-up leaves an element without a value behind); `DialogIsHeard` says what gets through. Bytes go through the frame
and its cipher, `parseFromBuffer`, `dispatchMessage` with the part outside its try, two
handlers (`RunInLobby` and `LoadRoles`), and back: a walk is answered to the others on
the scene, under another command. Whether there is an account, a current role, a role
of the session, a scene is a choice; without the first or the last there is no answer,
and without a role, or, in `LoadRoles`, an account, the process ends. What undefined behaviour may do
(the array iterator that is never set, a walk behind the end of the bytes, a frame
longer than `m_buffer`, which `copyIn` writes beyond) is a
choice: the process ends or goes on with what is there. `MaxFrame` stands for
`MAX_BUFFER_SIZE`; a body just below it is serialised, overruns with its head, and is
refused by the `add` of the receiver, so `Lost` counts the head. A bool is read by the
server as an int, since `bson_bool_t` is one. Doubles and 64-bit values
are words with a fixed half; four more numbers of a role shown, and printing, are left
out.

`Messages` states the scheme that `protoc` unfolded into `warrior.pb.cc` and
`peer.pb.cc` once, over the list of a message's fields, with one operator per
generated function. The server uses these classes as records (setters and getters, as
in `role.h:126`), `peer/test.cpp` writes them as text, and no program of the repository
reads them from the wire: the laws here (`MessageIsKept`) are what the generated code
promises to one that will, and there is no hazard listed for them.

`Codecs` puts the three side by side: they share `Bson` and no state, and `part` says
which of them a behaviour is about. `BuilderSafe` and `MessageIsKept` hold of the idle
parts as well; the theorems state them for `BuilderSpec` and `MessageSpec`, which the
parts are.

## 3. The runs

| run | instance | what it shows |
|---|---|---|
| `RingOne` | 1 worker, 4 slots, 4 pushes and pops | in the first lap the ring is a FIFO channel (refinement of `MessageChannel`), nothing is used after its deletion, and every message is popped |
| `RingMany` | 3 workers, 2 slots, 4 pushes, 3 pops | the window over two laps; skipped and doubled messages are equally many; each worker gets its messages in order |
| `FrameAny` | any client: 1 connection, 3 frames of 3, 4 or 6 bytes, head 2, chunk 3, buffer 8 | order under every fragmentation, full chunks, moves and refusals of the buffer |
| `FramePolite` | whole and waiting clients: 2 connections, 2 frames of 2 or 3 bytes, head 1, chunk 4, buffer 5 | one message per frame, room in the buffer at every offset, and liveness |
| `FrameWait` | any client: 1 connection, 2 frames | **violated**, see 5 |
| `ConnAll` | any client: 2 connections, 1 worker at once, 2 requests unread; polite and quiet ones: 4 connections, 2 workers, 2 messages; 2 descriptors | hang-ups are noticed; the two ways in which one connection suffers from another; without overlap nothing does |
| `WorldAll` | any client: 2 connections, 1 thread, 2 roles of one account, all leftovers; polite and quiet ones: 3 connections, 2 threads, 2 messages, 3 roles of 2 accounts | the scene is right; no save is lost; one overlap misuses; without overlap nothing does |
| `AccAll` | 2 workers, 2 names, 2 nicks, 2 accounts and 2 roles, 2 races, refusals, lost answers, deaths | memory is what a restart would load; what was answered stays good; nobody is harmed before a race |
| `BagAll` | a first visit: 4 cells, 3 items of 2 templates, stacks of 2; one with 3 cells, 2 items, strengthening, a count above a stack and one past `IntMax` = 7; one with 3 items of which a sorted bag of 2 cells shows one; one with counts of 0, of -5, and of 6, a negative short, and money up to `IntMax`; any request on any item at any time: 2 cells, 2 items, 3 templates, counts of 1 and -1, reloads | what is shown is saved; goods are neither lost nor made; where wealth may come from; what doubles an item |
| `GemsAll` | 4 items, 1 of them fragments, 2 of one template, 1 bought without units, positions -2 to 2, experience up to 20 | a gem is in one place, whatever is put into what and wherever the process dies; what makes an item vanish |
| `SoulsAll` | 2 qualities of 2 levels, one without a template for the second, 2 cells, 3 souls, crashes; 1 quality, 1 cell, 5 souls, up to 3 hunted | places are saved and free; no chain ends; the three requests that set a bag at odds |
| `CodecsAll` | 3 builder calls on `IntMax` 100, a stack of 1, 9 bytes of room; dialogs with 7 fields of the head, 7 of the body, a buffer of 66 bytes, 2 reads of the answer; 7 pairs of messages in 4 steps; texts of up to 4 bytes over the edges of UTF-8 | a finished document is what was put in; a request and its answer get through; messages keep the laws of protocol buffers |

Why these bounds: two slots and two laps contain every relation of `m_head`,
`m_tail` and a reserved position; three workers are the least with two losers of a
race; chunks of three bytes against a buffer of eight contain frames that end at
every offset, reads that end on a full chunk, and a move of the buffer; three
connections are the least with an observer of a hang-up and a newcomer; two descriptors are the least
with one that is reused beside one that is not, and four connections let a number have
three owners while another is kept; in the bags three items are the least with two to
merge and one to disturb them; a gem in an item in an item needs three items, and one
more to be disturbed. The setting of `SoulsAll` with one cell
needs five souls: one fills the cell, two `SwallowAll` each hide a soul that grew,
and after a restart one of these makes the next `SwallowAll` return early. Three calls of the builder open a
sub-object, slip in it and cover the slip; the requests and answers of `CodecsAll` lie
on both sides of 56, 66 and of the room between, and a text fills `IntMax`. Counters
(money, ids, experience) are capped by `Max...` constants in the guards.
`CHECK_DEADLOCK FALSE` stands wherever a bound or the death of the process ends a
behaviour. Symmetry is used over workers, connections, names and nicks, which the
specifications tell apart nowhere, and only in runs without liveness.

Fairness is used twice. `RingOne`: the epoll thread finishes a push it has begun
and every worker keeps taking the steps of `pop` and the delete, between which the code
has no wait but `usleep` (`Unblocked`). That a servlet ends is not assumed: its `::write`
(`socket.cpp:86-88`) waits for as long as the client does not read, and one such client
stops the only worker. `EventuallyPopped` is therefore stated for clients that let
the writes return (`WritesReturn`). No strong
fairness and no fairness of arrivals. `FramePolite`: see `Frames` above.

## 4. The proofs

Each theorem holds for every value of the constants that the named assumption of its
module allows (`CapacityAssumption`, `FramesAssumption`, ...): any number of
connections, sessions, descriptors and workers, any tables, any bound. The
assumptions say that sizes are numbers, that the markers of "none" are not values,
and what the code itself guarantees of a table or a size: a chunk of `Socket::read`
(2048) is no longer than the buffer (8192), a table of levels begins with 0, a builder
starts with room for the four bytes of its size (`bson_init` asks for 128), an int has
32 bits. Every proof has the same shape: an inductive invariant of named parts,
one lemma per action or group of actions, a temporal step at the end. The invariants were checked by TLC on the
instances of section 3 before they were proved.

**The ring** (`MessagePathProofs`, first part).

* `TypeCorrect`, the type;
* `WindowSafe`: `WindowIntact`, from `WindowInv` = the type, `ProducerOK` (a
  reserved position is the last one) and the property itself. Two positions less
  than a lap apart have different slots (`IndexDistinct`, from `DivMod`), so a
  store disturbs none of the window;
* `PopInWindow`: `WindowedPop`, an action property, from the same invariant;
* `EachWorkerInOrder`: `WorkerInOrder`, for any number of workers. `OrderInv` adds
  that in the first lap a worker between `PopRead` and `PopTake` is at a position
  beyond all it has taken, which holds because every worker advances `m_head`
  itself before it reads it again;
* `FifoSafe` and `DeleteSafe`: `FirstLapInOrder` and `NoUseAfterDelete`. `FifoInv`
  says for the one worker that `head`, the number of messages taken and the state
  of the worker agree, so that the next message taken is the next one pushed;
  `OnlyWorker` reduces the statements about all workers to it;
* `LossByDuplication`: `LossIsDuplication`. `LossInv` counts: `m_head` is the number
  of messages taken and of workers about to take (`PopsCounted`; `Takers` says how
  a step changes the second), and nobody takes at a position `m_head` has not
  passed. When nobody is about to take, positions skipped and positions taken twice
  are therefore equally many;
* `QueueIsChannel`: `IsChannel`, the refinement. Initial states map to initial states
  (`ChannelInit`), and every step to a send, a receive or a stutter (`ChannelStep`).

The property is never inductive alone: it says nothing of a worker in the middle
of `pop`, which is where the next violation would come from.

**Frames** (`MessagePathProofs`, second part, from `FramesInv`; the type is
`FramesTyped`). `Ordered` says of a connection without a
refused `add` that its buffer holds exactly the bytes read behind the last parsed
frame, in their order, and that this frame is the one pushed last. It survives every
fragmentation because `parseFromBuffer` takes the whole of a frame or nothing.
`PushedInOrder` is `InOrder` for any client. `Whole` adds, for clients whose frames
arrive whole, that between two events what was read ends with a frame, so that no
parse finds half of one and pushes the old message again; `Waiting` that a client that
waits has one frame under way, and that frame and a chunk fit the buffer. Both give
`PushedOnce`: `OnceEach`. `Typed` knows of each frame where it lies in the stream.

**Connections** (`ConnectionsProofs`, from `ConnInv`), in four layers, each proved with
the ones below it. `Kernel` is the type and that everybody referred to has been made;
`TypeCorrect` follows. `Follows` says whom the epoll thread is at: a watched connection
is watched through its number, and after the close the number is nobody's or
another's. `Polite` is what polite clients add: everybody is watched by their own
session, who is gone has nothing unread and no request under way, and a hang-up not
yet served is reported or about to be: `HangupNoticed`. `Quiet` is that only one
leaves at a time and that nobody is written to who has left: `QuietAreRight`.
`OnlyOverlapDamages` is the action property `DamageByOverlap`, from the first three.

**The builder** (`ConnectionsProofs`, second part, from `BuilderInv`, for any names,
texts, rooms, any cell count of the stack and any `IntMax` from 16 to the greatest int;
`RoomAssumption`). `Sound` is what every function of `bson.c` leaves of a builder, however the one
before it ended: its record is well-formed, its stack of open sub-objects fits and
points into the document, a builder that is not finished owns its bytes and has the four
of the size, a finished document begins with a size no greater than what is there.
`Becomes` relates the builder before and after a call: soundness and room (`Fits`) are
kept, and the note that a text is no UTF-8 stays, or `SIZE_OVERFLOW` has replaced it.
There is one lemma per function that says so (`SpaceEnsured`, `ElementStarted`,
`TextAppended`, `RegexAppended`, `SubOpened`, `SubClosed`, `Finished`, ...), and one per action. From the note
it follows that a builder with half an element in it is not finished, since
`bson_finish` refuses it: `BuilderIsSafe` (`BuilderSafe`). The note is the strengthening
the property needs: it speaks of the finished document only.

**World** (`WorldProofs`, from `WorldInv`). With any client the type holds, which
includes at which step a request may be (`TypeCorrect`). With polite ones `Polite`
says that a session has one request under way (`OneEach`), that the request fits the
role the session has or is about to get (`AllFit`), that no two open connections play
the same account (`Apart`), and who is deleted or has an old copy is connected no
more (`Sessional`): hence the scene shows who is there (`ScenesAreLive`, of
`SceneIsLive`), no save undoes another (`SavesAreKept`, of `NoLostSave`), and only a
surrounding that is sent while one of those seen has hung up uses a deleted role (`MisuseNeedsOverlap`, of
the action property `MisuseByOverlap`). `AllFit` and `Apart` are needed because two
requests queued for one account would load two copies.

**Accounts** (`AccountsProofs`, from `AccInv`), in three layers. *However the workers
race*: the types, `Tokens` (a token that was given out is good while the process is up,
and leads to a row while it is down) and `Down` (nothing is in memory then); they give
`TypeCorrect`, and the tokens of `AnsweredIsServed`. *Until the first race*, `Alone`: one
job at most (`OneJob`), which finds what its step before left (`AllPrepared`: the insert
id is that of its own row, the result that of its own select, the name still free);
every row has its own values and items (`OwnRows`), a Role object those of its row
(`OwnCopies`), and an entry of a map leads to a row that fits (`OwnObjects`). Hence
`HonestSafe` (`HonestAreSafe`) and, since `Answered` says that what was answered is in
the tables where a start finds it, `AnswersServed`. *Until an answer is lost* besides:
a row that no map leads to is the one the request under way is about to put there
(`AccountsKept`, `RolesKept`), from which `MemoryMirrorsTables` (`MemoryIsTables`)
follows when nothing is under way. `LoadsObjects`, `LoadsNames` and `LoadsNicks` say
what `loadFromDB` builds: the last row with a name, the first with a nick, which are the
ones the requests keep in memory. Assumed: a job is not "no job", an insert has one of
its three outcomes, and bounds are numbers.

**Items** (`ItemBagProofs`, from `BagInv`), for any templates, prices and stacks, any number
of cells and any bounds. *Of any client*: the type, `CellsSaved` (what a cell shows is
what the table holds) and `Chain` (what stacks still is what its row says, because what
is strengthened does not stack, which `BagAssumption` says of `items.csv`). *In a first
visit*: `InPlace` (an item in a cell is one the role has and believes it is in that cell,
a worn one is in none, and every other that is not empty is in its cell) and `Solvent`
(no item in sight is empty or deleted, and the tables hold the goods and the money). They
give `TypeCorrect`, `CellsHold` (`CellsAgree`) and `TableHolds` (`TableKeepsUp`).
`OnlyUnEquipDoubles` (the action property `DoubledByUnEquip`) needs no more than the
type, so it holds after any reload as well.
Two things carry the proof. The loop of `sortItems` is the recursive function in `Merged`:
`RoundInduction` of `CommonLemmas` is an induction over its rounds, done with well-founded sets of
numbers, since the installed provers take no induction rule over predicates;
`RoundsKeep` and `RoundsSingle` say what every round leaves alone, and the lemmas on
`Share` that it moves units between items of one template only. And `Units` and
`SavedUnits` are sums over functions: `SumFunction` is a fold, of which `CommonLemmas` proves the unfolding
(`SumUnfolds`) by an induction on the size of the domain, and from it that sums add up,
grow with their terms and are left alone when something goes from one term to another
(`SumPlus`, `SumMonotone`, `SumShift`, `SumChange`). From these, step by step, `GoodsKept`
(`GoodsConserved`). `RicherBySources` (`WealthSources`) needs one thing more of the state,
`Purse` (until an odd purchase neither money is below zero, and the table holds no less,
so a sale pays no more than the item is
worth): a request that is none of the listed ones leaves rows that hold less (`Lessens`), and
those are worth less (`LessWorth`); a purchase and a move onto another stack pay for what
they add (`BuyWealth`, `StackWealth`).

**Souls** (`SoulsBagProofs`, from `SoulsInv`). In memory every row has its soul, alike
but for the experience, and the three maps are the rows by type; a swallow that is
never saved changes the experience only. `RowOk` says that a soul's template exists
and is not ahead of its level, and a hunted one is on the screen: `PlacesAreSaved`
(`PlaceIsSaved`), and `ChainsNeverEnd` (`ChainNeverEnds`), for any tables of levels. The
least free index is on the screen because as many souls as places leave no hunt.
`OddsComeByThreeSteps` is the action property `OddsBySteps`, with a lemma for each
request that keeps the cells and the rows together.

**Gems** (`GemsProofs`, from `GemsInv`). What is in an item or in a good row's column is
the id of a row that is good no more (`NoneGood`), and it is at one place (`Once`).
`PutAppends` says that a gem put at a free position without leaving a NULL comes
behind the others, and `NothingRead` that `Split` finds no piece in a column without
semicolons; the second is an induction over the text, done with
`CommonLemmas!SubsetInduction` and `FoldExists`. A flush marks rows as deleted and never
as good (`MarkedKeeps`, `SavedKeeps`), so the invariant asks of no item of the bag that
its row be good: that is false of an item without units. They give `TypeCorrect`,
`GemsAreSingle` (`NoGemTwice`) and `OnlyTheseVanish` (the action property
`VanishBySteps`).

**Messages** (`MessagePathProofs`, third part, from `IMessage`, for any values of the
fields and any bytes on the wire; `WireAssumption`). The invariant is short: both
messages are messages of their type, of which a field that is set has a value of its
kind, and what was not understood (`rest`) is whole fields of which a reader of that type
takes none (`Foreign`); the wire is any bytes. The work is in the laws, which are about the codec. The number
and the text written are read back, at any place (`WrittenIsRead`, `ValueThere`,
`FieldThere`): a varint of up to ten bytes is the sum of its first five
digits, the fifth with its sign. The parser is a loop over the wire, proved about by `RoundInduction` as the sort
of the bag is; `TokenParsed` says that it takes a field off the front of the bytes and
then reads the rest. So bytes that are fields and nothing else (`WholeFields`), which may
be taken apart field by field (`WholeInduction`, by well-founded sets of lengths), are
read by every program as a merge of something fixed into what it has (`Reads`), and two
such in a row as the two merges (`ReadsBoth`). What is written is read as what was
written (`WrittenReads`), hence `ConcatIs`; what the reader in between did not know it
passes on (`SameThrough`, `RelayIs`). Of bytes that were cut, the reader takes the whole
fields in front and refuses what is left of the last (`TokenCut`, `WholeFronts`,
`CutIs`). The four types are lists of fields in which no number comes twice (`FieldList`,
`RoleIsList`, ...), which is all the laws need to know of them. Together: `MessageIsAlwaysKept`
(`MessageIsKept`).

Only model-checked:

* all liveness (`EventuallyPopped` and `EventuallyPushed`): the installed backends have no rule for fairness
  and none for ENABLED;
* `DocumentIsRead` and `DialogIsHeard`: `Documents` and `Dialog` use `RECURSIVE` operators (documents and
  objects are nested to any depth), and `Dialog` `Bitwise` for the cipher; the prover has no
  backend for either;
* `WaitsForBody`, which is refuted.

## 5. Where code and text disagree

* `FrameWait`: "wait for buffer body" (`bson_buffer.cpp:140`) returns 0, and so
  does a parsed frame; the caller pushes the message before it once more.

Met while modelling, in the models, and not stated as a run:

* "ASSERT toIndx is a null space" (`soul_item_servlet.cpp:431`) is not asserted, and
  the cells do not follow a move (`SoulsBag!MoveSoul`, `OddsBySteps`).
* A quality of weight 0 in `data/souls_hunt.csv` takes the place of the one before
  it (`dataset/soul_item_template.cpp:23-46`; `SoulsBag!Rolled`).
* The "single-thread-based login routine" (`account_manager.cpp:149`) runs on
  `thread_num` workers: two of them may register one name, with two rows
  (`Accounts!RegisterCheck`).
* A nick that is taken is answered with Success (`role_servlet.cpp:69-78`;
  `Accounts!CreateCheck`), and LoadRoles sets no error for a wrong token or a missing
  account (`role_servlet.cpp:127-140`; `Accounts!LoadRoles`).
* "This is the cache" (`role_servlet.cpp:200`); nothing is ever in it, and a role
  chosen on two connections is loaded twice (`World!ChooseRole`).
* Gems are written without the semicolon they are read by, and without the last digit
  (`item.cpp:52-60`); a reload restores none (`Gems!Written`, `Gems!Read`). The
  fragments a strengthening costs are never taken (`item_bag.h:47`).
* The test client makes the key of its cipher from the version in network order
  (`client_test/client.cpp:124-126`): 43080 times the size instead of 592 times. What
  it sends is not read as it was sent (`Dialog!GarbledByVersion`).
* `isLegalUTF8` lets surrogates pass (lead 0xED), and a second byte below 0x80 behind
  lead 0xF4 (`encoding.c:70-102`; `Documents!Hole`).
* `bson_append_finish_object` and `bson_ensure_space` assign the error they note where
  the checks add to it, and hide what was noted before (`bson.c:704`, `bson.c:1020`;
  `Builder!HalfIsCovered`).
* A request with an int for X is caught in `dispatchMessage`, one with an int for
  Command is not and ends the process (`servlet.cpp:96-113`; `Dialog!HeadThrows`). An
  unknown Command leaks its message (`servlet.cpp:104-107`).
* `serializeToBuffer` compares the body with the size of the buffer and says "exceeds
  MAX BUFFER SIZE, abort" (`bson_parser.cpp:184-185`), but the frame is ten bytes longer
  (`bson_buffer.cpp:84-85`; `Dialog!Overruns`).
* A bool that was set cannot be read with `getBoolVal` on the other side: it arrives
  as an int (`bson.h:129`, `bson_parser.cpp:129-131`; `Dialog!Seen`).
* Nothing asks whether a count is positive: for a negative one the shop pays
  (`item_servlet.cpp:95-125`; `ItemBag!WealthSources`). A stack moved onto another takes
  the gems in it along (`item_bag.cpp:139-142`; `Gems!VanishBySteps`).

## 6. What is not modelled, and the plan

Not modelled: tasks, skills, chat, friends and timers (no state behind them), the
list of servers (read only), logging, the reading of CSV files, instance requests of
the scene (constant answers), `pq` and `bcon` and `md5` (used by nothing here),
`bson-dev` (a second copy of `bson`), `robot.c` and `peer/test.cpp`. Of the codecs:
allocation failures, printing, `bson_find`, groups of protocol buffers, values of 64
bits beyond an int. Of the database: statements of the bags that fail.

Next, in this order:

1. `Server`: `Frames`, the channel and `World` composed, with the abstract
   specification "each request is carried out once, in order", to see which of the
   clients of 2 get it.
2. Failing statements in the bags, as `Accounts` has them.
