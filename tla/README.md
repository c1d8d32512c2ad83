# A TLA+ model of ufk

ufk is the skeleton of a game: a C++ server engine on libevent (`server/engine`), game logic and
helpers in Lua (`server/logic`, `common`) and a Unity client (`client`). Most of the repository by
volume is vendored (LuaJIT, libevent and protobuf headers, YamlDotNet, MiniJSON) or generated by
protoc; this project models what the repository's own code decides.

## Inventory

| Component | State | Operations | Interaction | Correct when |
|---|---|---|---|---|
| **Timer** `server/engine/common/Timer.{h,cpp}` | map `active` of instances, multiset `queue` of references into it, `nextId`, `done`, each instance's `running` mark | `create`, `destroy`, `exists`, destructor; the worker thread | callers' threads, the worker and the handlers it runs, over one mutex and one condition variable | references stay valid while the lock is released; no wake-up is lost; a destroyed timer never fires; deadlines are served in order; periods do not drift |
| **TcpConnection, packet stream** `server/engine/network/TcpConnection.cpp` | the input buffer of a bufferevent and its low watermark | `Send` (framing), `conn_readcb` (unframing) | libevent calls back when the watermark is reached | every packet is delivered, once, whole and in order, for any segmentation of the stream |
| **TcpConnection, sessions** same file | two maps between sessions and bufferevents, the shared callbacks, event base and listener | `Start`, `Connect`, `Listen`, `listener_cb`, `conn_eventcb`, `BindSession`, `UnBind`, `UnBindSession`, `Stop` | event loop, and whoever calls `Send` | the maps are inverse; no bufferevent is used after it is freed; no session is left over |
| **Application** `server/engine/application` | the `TcpConnection` | `Start`, `Loop`, `Stop`, `ConnReceive` | `ConnReceive` runs inside `conn_readcb` and calls `Send` | one answer to each request, in order |
| **TestNetPacket** `server/engine/test/TestNetPacket` | global connection and session | `RandPacket` every second on the timer's thread; `main` runs the loop | Timer and TcpConnection from two threads | sends only on a connection that is there |
| **zset** `server/logic/Scripts/common/zset.lua` | a hash table and a skip list with spans | `add`, `rem`, `rank`, `getByRank`, `range` | sequential | both structures hold the same members; ranks agree with the order |
| **Synchronisation demo** `client/Assets/SyncTransfrom`, with **ObjectPool** `client/Assets/Scripts/Common` | queue of packets, stack of used ones, clock of the sender, target state | send on input and on a fixed interval, receive coroutine, interpolate | Unity's frame callbacks | packets arrive in order, with times that rise, are not reused while under way, and the sending clock does not drift |
| **DebugLib** `client/Assets/Scripts/Common/DebugLib` | the current writer, its stream, length and disposal; the event subscriptions; a lock | `Startup`, `Release`, `LogCallback` | the callback comes from any thread, the other two from the main one, without the lock | what was logged before a `Release` is in the file, in order, at most once per event; no callback throws or hangs |
| **Sequence** `client/Assets/Lua/Common`, **Singleton** | list of actions and a counter; an instance and a shutdown mark | append, run; instance | | every action runs once in order |
| **Lua helpers, UI configuration, ResMgr** | shuffle; caches | | | a permutation; caches are filled once |

What is hard here: the lock that Timer releases around a handler, and references held across it; a
byte stream cut anywhere and a watermark that is state of its own; callbacks that send from inside
a receive; a second thread that sends on maps the event loop changes; data structures in which two
representations of one set must agree. `PROJECT.json` lists each hazard at its line, with the
properties that cover it or, where none does yet, the reason.

## Plan

1. **Timer** (done): `TimerService` ← `Timer`, `TimerProofs`.
2. **Packet stream** (done): `PacketChannel` ← `PacketStream`, `StreamProofs`.
3. **Application** (done for one connection): `Echo` composes two `PacketStream`s, `EchoProofs`.
4. **Sessions** (done): `TcpSessions` with the client's second thread, `SessionProofs`. Left: `Stop`,
   should a program ever call it.
5. **zset** (done): `SortedSet` ← `Zset`, the skip list with its levels and spans; `SortedSetProofs`,
   `ZsetProofs`.
6. **Client** (done): the log (`DebugLib`, `DebugLibProofs`) and the synchronisation demo with its
   pool (`SyncDemo`, `SyncDemoProofs`).
7. **Proofs** (done): every invariant and action property that a passing run checks is a theorem, and
   so are the four refinements. Left to TLC: liveness.

## Modules

### TimerService, Timer

`Timer.cpp` holds the mutex `sync` in every member function; the worker gives it up in three places
only: `wait` (line 13), `wait_until` (line 58) and around the handler (lines 28 to 30). One stretch
under the mutex is one action:

| Action | Code |
|---|---|
| `CallCreate`, `CreateImpl` | `create` reads the clock without the mutex (lines 85, 94), `createImpl` inserts under it |
| `Destroy` | `destroy`, both branches; on an id that is not in the map it returns false and changes nothing |
| `BeginDestructor` | `~Timer` up to its `join` |
| `WaitForWork`, `WaitUntilDue`, `CallHandler`, `Exit` | one pass of the loop of `threadStart` from the test of `done` to the next release of the mutex |
| `ExitAfterHandler`, `Retire`, `Rearm` | the rest of a pass, after the handler: lines 32 to 55 |
| `Timeout`, `SpuriousWakeUp` | the condition variable; `NotifyAll` is part of the actions that call `notify_all` |

Instances live in memory slots (`mem`). `active` maps ids to slots; `queue` and the worker's
`instance` are references, that is slots, and keep their value when a node is erased and its slot
reused. That is what makes a dangling reference visible: the model reads whatever is in the slot.
`QueueErase` is `multiset::erase` by key and `QueueInsert` the insertion after equal keys. A handler
may call `create` and `destroy` (thread `Worker`); that it destroys the `Timer` itself, which would
join its own thread, is not modelled. `SingleDestroy` restricts the users: nobody destroys a timer
twice. Without it the code is wrong (below), and the theorems name it as an assumption.

`firing`, `destroyed` and `evicted` are history variables: no action of the code depends on them.

`TimerService` is the promise without lock, slots and wake-ups: armed timers with deadline and
period, one firing at a time, earliest first, re-armed exactly one period after the deadline.
`Timer` implements it under the mapping `Service` in `Timer.tla`.

### PacketChannel, PacketStream

One direction of a connection. A packet is the interval of the byte stream it occupies; the network
appends segments of any length (`Receive`), and `reading` says that libevent, or the recursion in
line 267, is about to run `conn_readcb`. `WaitForHeader`, `WaitForBody`, `Oversize` and `TakePacket`
are its four ways out. The watermark `low` is set where the code sets it, lines 84, 193, 216 and
229. Header sizes are scaled: what matters is which of header, packet and limit is larger. The
stream is what `Send` writes, so packet sizes are at least the header's; the 16-bit wrap of
`total_size` is outside the model, because the code has by then written outside its buffer.
`Send` stands for a send to a session that is bound. `PacketChannel` is a FIFO queue of packets.

### Echo

The server's `ConnReceive` on one connection with a client: two instances of `PacketStream`. Taking
a request and writing the answer is one step, as in the code: the callback is called from
`conn_readcb`. The client sends any of the protocols and only prints what it receives, as
`DealNetRecv` does.

### TcpSessions

The connections of one `TcpConnection`. Each callback of libevent is one action, because the event
loop is one thread. `map_session_` and `map_bufevt_` are functions that grow and shrink as the
`unordered_map`s do; `Insert` leaves an existing entry, as `insert` does. A bufferevent is its
address, and an address that was freed may be given out again; a session is an object, and its
identity is not used twice while a `shared_ptr` to it is held.

| Action | Code |
|---|---|
| `Start`, `Listen`, `Connect`, `listener_cb` | the functions of those names; a call that libevent refuses changes nothing |
| `EventConnected`, `EventEof`, `EventError` | the branches of `conn_eventcb` |
| `PeerCloses` | the network |
| `conn_readcb` | its lookup of the session, and the answer that the receive callback sends |
| `SendFindsSession`, `GetBufferevent`, `SendWrites` | `Send` on another thread (`Sender`): two lookups and the write |

`EventError` stands for a failed connect or read, after which libevent reports nothing more of the
connection. A failed write is printed by the same branch and leaves reading on, so that it changes
nothing here. The three steps of `Send` are taken one by one only for the threads in `Sender`; on the
event loop's thread nothing comes between them. The maps are not locked: a lookup by another thread
while the loop changes the map may find the entry or miss it, and the model allows both; what a
torn hash table could do beyond that is not modelled. `UnBind` reads the session from the node it
has just erased. With libstdc++ and glibc the pair is behind the 16 bytes that `free` overwrites, so
that the read gives what was there: `NodeStays` is TRUE in the runs, and an assumption of the
theorems. Where that memory reads as no session, `UnBind` returns with the bufferevent not freed and
its session still in `map_session_`. `owner` and `misses` are history variables.

### SortedSet, Zset

`SortedSet` is a table of values and the relation "ranks above": a member added, also one whose
value changes, ranks below all of its value. `Zset` is the code: `objs` and the skip list `sl`, with
nodes in memory, `Header`, links with their spans on every level, backward links, tail and length.
One call from Lua is one step, and `add`'s removal of an earlier node is part of it. `randomLevel`
is any level. A search is described by where it turns down on each level (`Turns`), and on one level
by where it leaves it (`Walk`): `insert` and `delete` differ in the nodes they pass, `AtLeast` and
`Before`. `getRank` passes the nodes of `delete` and returns at the highest level where the node it
wants is next; `getNodeByRank` goes by spans (`Skip`, `Skips`) and returns at the highest level where
it has counted the rank. The recursive functions have the nodes of a level for their domain
(`On`), which the list never leaves. Values are numbers and `compareFn` their difference.

`range` takes places from either end: `stop` may be left out (`<<>>`), and both arguments are moved to
the first place where they are before it (`ClampedPlace`): a `stop` before the first place stands for the
first, so that `range(1, -9)` of a short list returns one key. `with_value` adds the values of the table,
which the assertion in line 271 requires to be there (`RangeAsserts`): a key left behind by a missed `rem`
fails it, before a miss it holds.

`missed` is a history variable: it says that a `delete` did not find its node, the error of finding
5. `SortedUntilMissed` is the refinement: until then `objs` and the list in the order of level 1
together are the abstract set. What the code promises of its own links (`LinksAgree`,
`SpansMeasure`), and where a delete or a rank may fail (`MissNeedsTie`), is checked after a miss as well.

### DebugLib

`Startup` and `Release` run on Unity's main thread, `LogCallback` on every thread that logs, and only
the latter takes `s_lockFlag`. A step is one access to what the threads share: `s_writer` is read
twice by `LogCallback`, the stream up to four times by `Write` and `Flush`.

| Action | Code |
|---|---|
| `Log`, `Events` | a line raises `logMessageReceivedThreaded`, and for the main thread `logMessageReceived` as well; both are subscribed to |
| `Enter`, `Leave`, `Throw` | the lock statement of `LogCallback`, and how an exception leaves it |
| `Write`, `WriteLine`, `Measure` | `DebugWriter.Write`: the test, the line, `Length` |
| `Flush`, `FlushStream`, `ResetLength` | `DebugWriter.Flush` |
| `StartupOpens`, `Unsubscribe`, `Subscribe` | `Startup` when the file can be opened |
| `StartupFails`, `LogWarning`, `Discard` | its `catch`: the warning is a log line itself |
| `Release`, `ClearLength`, `CloseDrains`, `Close`, `DropStream`, `ForgetWriter` | `Release` and `Dispose`; closing a stream writes its buffer first |

The main thread takes a step of `Startup` or `Release` when its own callbacks have returned. Streams
are sequences of lines; `length` is whether `Length` is positive. Each `Startup` opens a file of its own,
where in the code a second one without a new `LogFilePath` tries the same file; it may fail at any time.
`steady` (the log was open for the line that a thread logged last, and no `Dispose` met its callback),
`disposed` and `failed` are history variables. The stream is assumed to survive calls from two threads at a time: only the
main thread's `Close` can meet another thread's `Write`.

### SyncDemo

Unity's frame in three phases: fixed steps (`FixedUpdate` of both objects), `Update`, the coroutine
(`RecvPkg`). Frames last any of the times in `FrameTime`; Unity runs a fixed step for every
`FixedDelta` that has passed. A packet stands for the ball's state by its number. `Get` and `Release`
are `ObjectPool`'s, with the packets of a full pool left to the collector. `Due` is the coroutine's
test of `pkg.Time`, which nothing sets. Time is in whole units, 10 ms in the run, where the code adds
floats. Where the exact sum is the interval, rounding decides the comparison in Demo1.cs:70: with 0.02f and
0.05f the fifth step does not send, with other values it may. `FixedUpdate` allows both. A fixed step is
shorter than the interval (TimeManager: 0.02), so that the loop sends at most once. `copy` is the packet whose position the second ball was
set to; otherwise physics moves it. `sent`, `clocked` and `held` are history variables.

## Runs

| Run | Shows | Bounds |
|---|---|---|
| `timer` | the invariants and action properties of Timer; a queued timer fires; the destructor returns; Timer implements TimerService | 2 threads and the handlers, 3 ids in 2 slots, so that slots are reused, delays and periods 0 and 1, clock to 2 |
| `timer_double_destroy` | finding 1 | a timer may be destroyed twice |
| `timer_deadline_tie` | finding 2 | |
| `stream` | framing and watermark; PacketStream implements PacketChannel; everything arrives, or the receiver is blocked or stalled for good; legal packets whose sizes never shrink all arrive | 4 packets of sizes 2, 3, 5, 6 with a header of 2 and a limit of 5 |
| `stream_next_packet` | finding 3 | 2 packets |
| `echo` | answers in order; every request answered or a stream held up | 2 packets of 3 sizes, and of 3 protocols, one of which the server does not answer |
| `sessions_threads` | the invariants of the maps, no mixed-up connections, every answer to the session it is for; an object that both connects and listens | 3 addresses for 4 sessions, so that addresses are reused; one other thread that sends |
| `sessions_client` | finding 4 | 2 addresses, 3 sessions, the timer's thread |
| `zset` | links, spans, backward links, reads and the slices of `range` agree with one list; every key of the table has its node, and a delete or a rank of it fails only where a later node of the same value reaches a higher level; the refinement until a delete misses | 3 keys, 3 values, 3 levels, 3 nodes; slices with arguments one place beyond both ends |
| `zset_rank` | finding 5 | 2 values |
| `log_writer` | a line whose callback returned before a Dispose is in a file for good, unless a second Startup replaced its writer meanwhile; order, and at most once per event; finding 6; exceptions come only after a Dispose; every callback returns | the main and 2 other threads, a line each and the warning, 2 writers, one failure |
| `sync_demo` | packets are kept, and received in order with times that rise but for those of `Update`; the clock does not drift; a held button decides the position; finding 7 | 4 packets, a pool of 2, intervals of 5 with steps of 2, frames of 1, 2, 5 and 7, time to 12 |

Why these bounds are enough to be of use: the interesting cases of Timer need a timer whose handler
runs, one that is queued and one created meanwhile, equal and different deadlines, and a reused
slot: three ids, two slots and two instants give all of them. A stream needs a size equal to
the header, two legal sizes of which the smaller comes after the larger, the limit itself and one
above it, and enough packets to have one behind the one that blocks. The sessions need an address
that is freed and given to another connection while a third one lives. A list of three nodes on three
levels has a link over a link, a top level to shrink to and from, and two equal values around a third
node, as finding 5 needs. The log needs a second writer while a callback is in the first one, and two
threads that compete with it. The demo needs frames with no fixed step and with several, more packets
than the pool keeps, and one used twice. The runs do not check for
deadlock: once the bounds are used up, or a Timer is destroyed, the system stops; in `zset` a call of `rem` is always possible
unless the set is empty and no node is free.

### Fairness

`timer` assumes that time passes (`Tick`), that the worker thread is scheduled
(`WorkerStep`: a runnable thread of the operating system, with handlers that return) and that a
`create` begun inside a handler finishes. Callers are not fair: nobody has to create or destroy.
`Timeout` is part of `WorkerStep`; spurious wake-ups are possible, not promised. `stream` and
`echo` assume that TCP delivers what was sent and that each event loop runs (`Application::Loop`
and the client's `main` call it for ever). Nobody has to send. `log_writer` assumes that
a thread inside `LogCallback` is scheduled: file operations return, and a thread waiting for the lock
is in line with two others that each log a bounded number of lines (with unbounded rivals weak fairness would not be enough, and .NET's lock promises no more). The other runs check no liveness.

## Findings

1. `timer_double_destroy`: destroying a timer twice during its handler erases the instance whose
   handler is running (Timer.cpp:114-124), against the comment in line 24.
2. `timer_deadline_tie`: destroying a timer also unschedules every timer with the same deadline
   (Timer.cpp:122), against the comment in Timer.h:100. They stay in the map: `exists` says true.
3. `stream_next_packet`: after a large packet the low watermark keeps a smaller, complete packet in
   the buffer (TcpConnection.cpp:229, 263).
4. `sessions_client`: the timer's thread finds a bufferevent, the event loop frees it at the end of
   the connection, the thread writes to it (TcpConnection.cpp:162-170, 385; TestNetPacket/main.cpp:77).

5. `zset_rank`: among equal values the searches of `rank` and `rem` run past the wanted node on a
   higher level (zset.lua:99, 153), against the comment in line 158; `rank` then fails its assertion
   in line 245, and `rem` leaves the node in the list.
6. `log_writer`: every line is flushed when it is written (DebugUtils.cs:85-86), where the comments in
   DebugUtils.cs:13 and 15 speak of a write to the disk per 1 MB and per interval. Nothing uses the two
   constants. `LogIsKept` states what the code does; a cap on writes is not there to be checked.
7. `sync_demo`: the queue that is to simulate a delay (Demo1.cs:91, 103; line 109 names 100 to 300 ms)
   delays nothing. `pkg.Time`, which line 125 tests, is set by nothing (the senders set `time`), and
   `RandRecvPkgTime` has no caller. `HoldWins` depends on it: what a frame with a held button sends is what
   the next fixed step uses.

Findings 1 to 5 are runs that end in a counterexample. 6 and 7 are statements about every behaviour, that
no line waits and no packet is delayed; so they are with the runs, and the theorems (`LogStaysKept`,
`HeldPositionWins`), that show them.

## Proofs

`TimerProofs`: the inductive invariant is `IInv` of `Timer.tla`, the conjunction of the invariants
the `timer` run checks together with `Bookkeeping`. None of its parts is inductive alone. That the
worker's reference survives a handler (`HandlerKeepsInstance`) needs that a `destroy` in that time takes the branch of line 114,
hence that `running` is set for that instance and no other (`Bookkeeping`), hence that it is off the
queue, and, when the worker re-arms it, that nobody queued it meanwhile (`QueueRefersToLive`).
`Bookkeeping` is where `SingleDestroy` is used. `TypeCorrect` holds without that assumption, the
other theorems state it. The two action properties follow from the invariant step by step:
`DestroyHolds` because a destroyed timer is neither queued nor running, `DeadlinesAreOrdered`
because the queue is sorted and holds every live timer that was not evicted.

`TimerImplementsService` is the refinement of `TimerService`, under `SingleDestroy` as well. The
mapping (`Armed`, `Firing`, `Known` in `Timer.tla`) reads the service's timers off the memory slots:
armed are the ids whose slot is queued, with the deadline and period in it; firing is the one that the
worker holds during the handler. Each action has a lemma that names the step of the service it takes.
What needs the invariant is that a reference still leads to the instance of its id. The one action
that is more than its name says is `Destroy`, which disarms all timers with the deadline of the
destroyed one (finding 2): the service allows it, because the code does.

`StreamProofs`: the inductive invariant is `IInv` of `PacketStream.tla`. The core is `HeaderIsNext`:
what `conn_readcb` reads as a header is the header of the first packet not delivered yet; with it
every way out of `conn_readcb` is arithmetic on offsets. `StreamImplementsChannel` is the refinement
of `PacketChannel`, for any header size, limit, sizes and segmentation. `StreamWatermark` proves
that finding 3 is the only way a complete legal packet is left behind.

`EchoProofs` uses the theorems of `StreamProofs` twice, once for each direction: a step of `Echo` is a
step of both streams, given that the packet the server takes has a legal size, which is the framing of
the upstream. What is new is `AnswersSent`: the packets sent downstream are the answers to the requests
among the packets taken upstream, counted from the front. With the framing of the downstream,
`AnswersInOrder` follows.

`SessionProofs`: the inductive invariant is `IInv` of `TcpSessions.tla`. That the maps stay inverse
needs that a new bufferevent's address is in neither map (`BoundIsAllocated`) and that its session is
new (`made`); that a pending write stays right needs in addition that its session is not one made
later (`CallsAreOfMade`). `AnswersAreRight` is what all calls of `Send` would be promised if they came
from the event loop's thread.

`DebugLibProofs`: the inductive invariant is `IInv` of `DebugLib.tla`. Its core is `Locked`, the lock
seen from the program counters, and `Undisturbed`: until the first `Dispose` every place where a
callback reads `s_writer` or a stream finds it usable, because a second `Startup` only ever replaces a
usable writer by another. `CallbackThrowsLate` follows. `EveryLineIsFlushed` needs `Flushing` in
addition: a line in the buffer of the log belongs to the one callback inside the lock, which has yet
to flush, and a callback that a second `Startup` met writes to the old writer.

`LogStaysKept` rests on a second invariant, `LinesInv`, which is inductive where `IInv` holds. It counts:
how often a line is written already and how often its thread may still write it (`Left`) add up to at
most one per event (`Recent`). Order follows because no line in a file is newer than the last one of its
thread. `KeptSoFar` follows a steady line through its callback: from the write on it is in the buffer of
the stream that the flush will empty, or kept already, or left behind in a writer that a second `Startup`
replaced. That the callback does not throw needs that a stream the writer holds is open except between
`Close` and `DropStream` (`Closing`); that its flush finds the line needs the lock: no other thread
resets the length in between. Once in a file a line stays there.

`SyncDemoProofs`: the inductive invariant is `IInv` of `SyncDemo.tla`. That the pool hands out nothing
under way needs that queue and pool share no packet (`NoneLost`); that times rise (`ReceivedInOrder`)
needs that a frame stops short of its next fixed step, so that the next packet of the clock is later than
the last one of `Update` (`Stamped`); that the clock does not drift, whichever way an equal sum is rounded,
needs that a fixed step is shorter than the interval; that a held button wins needs that the queue is
empty when a frame begins.

`SortedSetProofs`: `Ordered` is inductive as it stands; the work is transitivity around the member
that `add` puts in.

`ZsetProofs`: the inductive invariant is `Inv`: there is a numbering `place` of the nodes with which
the list is `Arranged`. Its parts say that the numbers are 0 for the header and 1 to `length` for the
members (`Placed`), that a link leads to the next node of its level and its span is the difference
of the places (`Linked`), that values do not rise (`Falling`), and that backward and tail go down by
one (`Backward`). None of `LinksAgree`, `SpansMeasure` and `ReadsAgree` is inductive without the
others: where a search turns depends on spans, links and values together.

The argument goes by gaps. A search that passes the nodes of a set ends at one place r, and the links
at which it turned on the levels are exactly those that lead across the gap behind r (`Gap`). `insert`
puts its node into the gap, so that the links across it, and no others, are cut or one longer
(`Inserted`); `deleteNode` closes the place behind it (`Deleted`). This holds for every set of nodes
passed, also where `delete` passes the node it wants: that is why the links stay right after a miss.
A node whose value no other has is the one behind the gap (`AloneIsNext`), hence the rank of untied keys.
`delete` fails where the search goes on past the node it wants: the node it turns at on some level then
stands behind that one, has its value and reaches a level it does not (`MissIsOvertaken`); `getRank` fails
in the same places (`RanklessIsMiss`). That there is a node to want (`HasNodes`) stays true after a miss,
because a delete takes no node but its own. With the place of every clamped argument (`Clamped`, `WantedIs`)
the slices of `range` follow from the order of the list. The refinement of `SortedSet` needs in addition
that table and skip list hold the same keys (`KeysHeld`), which is inductive until the first miss.

What the recursive functions return is proved by descent in the form of sets: `Least` says that a set of
numbers has a least one, `Recursion` that a recursion along which a measure falls has a solution,
which `CHOOSE` then picks; what is to be shown of it is shown of the node of least measure
for which it fails (`LeastOf`). The library's induction theorems, which take an operator, are not used.

The assumptions are those the modules state about their constants (`TimerAssumption`,
`StreamAssumption`, `EchoAssumption`, `SessionsAssumption`, `DebugLibAssumption`, `SyncDemoAssumption`,
`ZsetAssumption`), and that values are integers. Only model-checked: the liveness properties
(`DueFires`, `DestructorReturns`, `PacketsArrive`, `RequestsAnswered`, `CallbackReturns`), which rest on
fairness and `ENABLED`.

## Not modelled

Of the 150,000 lines in the repository about 2,500 are its own; the rest is vendored (LuaJIT, libevent
and protobuf headers, YamlDotNet, MiniJSON, tolua# with its `Profiler.lua`) or generated, and is
modelled only where the modelled code calls it.

- `TcpConnection::Stop` and `UnBindSession`: nothing calls them, and `Stop` iterates over a map while
  it erases from it and frees bufferevents after their event base.
- The callbacks that `Connect` and `Listen` share: every program of the repository sets them once.
- The 16-bit wrap of `total_size`, and headers with a size below the header's: the first writes
  outside its buffer before anything is sent, the second is not sent by `Send`. Failing allocations.
- `Singleton`: nothing derives from it. `ObjectPool.maxSize` is set once.
- `Sequence.lua`: one list and a counter, without callers but its own example. `Shuffle` in
  `randutils.lua` is one loop; it is Sattolo's (no element stays in place), where the comment names
  Fisher and Yates.
- Caches of the user interface and `ResMgr`, filled once, on one thread; stubs (`App.cs`, `Logger.cs`
  and the Lua files without bodies); layout and editor code; the wording of logs; Unity's physics, the
  forces of `SyncObject.Interpolate`, and `SyncTransUtils`' conversions to bytes, which nothing calls.
