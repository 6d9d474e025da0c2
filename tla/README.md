# A TLA+ model of the global-11x game server

The repository is a C++ server for an online role-playing game
(`src/engine/src`, a descendant of The Forgotten Server) with the data pack it
runs (`src/data`, Lua scripts, XML tables and maps).  This directory holds TLA+
modules of its core, the configurations that model-check them with TLC, and
proofs that the TLA+ proof system checks.

In short: `Dispatcher`, `Scheduler` and `DatabaseTasks` are the three threads
through which everything in the server passes; `Sessions` and `LiveCast` are the
network in front of them, from a socket to a character in the game and back;
`Decay`, `Party`, `Trade` and `Market` are pieces of the game whose state is linked
in several places and disturbed from many.  `SerialExecutor` and `Timers` say what
the first two threads promise, and the detailed modules are shown to implement
them.

- [1. The system](#1-the-system)
- [2. Modules, and how they correspond to the code](#2-modules-and-how-they-correspond-to-the-code)
- [3. Runs](#3-runs)
- [4. Where the code and its texts disagree](#4-where-the-code-and-its-texts-disagree)
- [5. Proofs](#5-proofs)
- [6. What is not modelled](#6-what-is-not-modelled)
- [7. Plan](#7-plan)
- [8. Running it](#8-running-it)

## 1. The system

### Threads

| Thread | Code | What it does |
|---|---|---|
| main / network | `otserv.cpp`, `server.cpp`, `connection.cpp`, `signals.cpp` | starts the server, then runs the `asio` loop: accepts sockets, reads packets, receives signals; every request becomes a dispatcher task |
| dispatcher | `tasks.cpp` | runs tasks one at a time; the only thread that touches the game world |
| scheduler | `scheduler.cpp` | holds one-shot timers, hands each to the front of the dispatcher's list when it is due |
| database | `databasetasks.cpp` | runs queries, hands their callbacks to the dispatcher |
| statistics | `stats.cpp` | dumps finished tasks to files (optional, `STATS_ENABLED`) |

```
 network ──addTask──►┌────────────┐◄──addTask(front)── scheduler ◄─addEvent/stopEvent─┐
 signals ──addTask──►│ dispatcher │                                                   │
 database ◄─addTask──│            │───────────────────────────────────────────────────┘
    └──callback─────►└─────┬──────┘
                           ▼
       game world: map, items (Decay), players (Party, Trade, Market), houses, ...
```

The game world therefore needs no locks, and its hazards are not data races.
(The exceptions are what the network thread reads of a player and of a cast:
`Sessions`, `LiveCast`.)  They are *protocol* hazards: pointers between objects that must agree at both
ends, objects that delete themselves from inside a call, values read in one task
and used in a later one, iterators held across a callback.  The hazards of the
threads are those of condition variables: notifications sent after an unlock,
waits without a predicate, state stored without the lock.

### Components

`PROJECT.json` lists every component with its sources.  What each keeps, does,
and must get right:

| Component | State | Operations | Hard part | Correct when |
|---|---|---|---|---|
| Dispatcher | task list, thread state | `addTask` (back, front), thread loop, `stop`, `shutdown` | lost wake-ups, ownership of raw task pointers, end of life | no accepted task is forgotten, run twice or touched after its end; an orderly shutdown drains the list |
| Scheduler | heap of events, set of live identifiers | `addEvent`, `stopEvent`, thread loop, `shutdown` | deadline of a running wait, identifiers that wrap, lazily removed events | one-shot timers: never early, never after a cancel, never lost |
| DatabaseTasks | query list | `addTask`, thread loop, `flush`, `shutdown` | two consumers of one list | every accepted query runs once; order is lost only to a query already held |
| Decay | map from time stamps to items; attributes in each item | `startDecay`, `stopDecay`, `checkDecay`, copying an item | reference counts, three records of one fact, iterator kept over callbacks | records agree, references balance, whatever is listed leaves |
| Party | leader, members, invitees; pointers back; whether experience is shared, and who has fought when | invite, join, revoke, pass leadership, leave, log out; share experience | self-deletion inside a call, cascades through invitations; an answer that is cached | both ends agree; no empty party; nothing points at a player who has gone; experience is shared exactly when it is earned |
| Trade | per player: state, partner, item; map of offers in the game | request, accept, close, and every hook on items | offered items stay in the world and are moved by others | partners mutual, offers disjoint, at hand and unchanged since they were shown |
| Lifecycle | game state, threads | start, signals, save, shutdown, join | five threads end in an order nobody wrote down | every thread is joined, accepted work is done |
| Connections, output | sockets, timers, send queue; pool of buffered output | accept, read, send, close, 10 ms flush | closed from the network, the dispatcher and timers | every closed connection ends, its protocol is released, its output flushed until then |
| Game protocols | protocol and player, each pointing at the other; references | login, a second login that replaces, connect a second later, release, logout | three threads and two timers on the same pointers | one client per character, none left attached to a dead connection, a player deleted when the last lets go |
| Live cast | spectators of a caster | join, leave, broadcast | two locks taken by two threads | no circular wait |
| Market, bank and store | offers in the database, purses and goods in memory or in rows | offer, accept, cancel, expire; deposit, transfer | results of queries used later; players who come and go; crashes | gold and goods are conserved |
| Waiting list | two lists of clients with timeouts | login attempt | expiry, place in line | clients ahead are admitted first; absent ones lose their place |
| World, creatures, combat, spells | map, creatures, conditions | game rules | large numeric state | mostly formulas |
| Houses, guilds, chat, mail, depots | owners, offers, lists | single tasks over one list or SQL | stale checks between two tasks | one owner |
| Spawns, raids, global events | chains of timers | re-arming events | a chain broken or doubled | one timer per chain |
| Lua, configuration, tools | script environments, tables | bindings, parsing | scripts call back into the engine | - |

The hazards themselves, each at its line, are in `PROJECT.json`; each names
the properties that would catch it, or says why none does yet.

## 2. Modules, and how they correspond to the code

`PROJECT.json` (`map`) gives, for each definition, the lines it models.  Two
conventions hold throughout.

*Critical sections.*  In the thread modules a critical section of the component's
mutex is one action.  What the code does outside the lock is a step of its own:
the loop condition that reads the thread state unlocked, the wait, a
`notify_one` after an unlock, an unlocked store.  `pc` says where each thread is.

*Tasks.*  In the game modules one task of the dispatcher is one action, because
the dispatcher runs tasks one at a time (this is what `Dispatcher` establishes).
Inside the action the calls of the code compose as operators on a record of the
state, `World`, in the order the code makes them, and `Become(w)` assigns the
result.  A script that may refuse is a free choice.

### Dispatcher, SerialExecutor

`tasks.cpp`, `tasks.h`, `thread_holder_base.h`, with the shutdown tasks of
`game.cpp:178` and `otserv.cpp:179`, `signals.cpp`.

| Model | Code |
|---|---|
| `taskList`, `threadState` | `Dispatcher::taskList`, `ThreadHolder::threadState` |
| `BeginAddTask`, `Enqueue`, `Refuse`, `Signal` | `addTask`: the call, its locked part when open or closed, the notification after the unlock when the list was empty |
| `CheckState`, `Wait`, `SpuriousWakeup`, `FindNothing`, `TakeTask`, `DropExpired` | `threadMain` |
| `FinishTask`, `CloseEnqueuesShutdown`, `Stop`, `GameShuts`, `RunTerminate` | running a task: an ordinary one; `setGameState(GAME_STATE_SHUTDOWN)`, which enqueues `Game::shutdown` and then calls `stop`; `Game::shutdown`, which calls `Dispatcher::shutdown`; the terminating task |
| `MainShuts`, `SignalArrives` | a failed start-up; SIGINT and SIGTERM |
| `fate` | what has become of each `Task` object (who owns the pointer) |

A task that is running may itself call `addTask`.  The clock does not appear: a
task with an expiration may be dropped whenever it is taken.

`SerialExecutor` has a queue, a running task and a phase; submitting and taking
are single steps and a task at the head is always taken.  `ImplementsExecutor`
maps `queue` to `taskList`, `running` to `current`, `phase` to `threadState`.
Of both abstract modules `SafeSpec` is the part without fairness: TLC checks that
`Spec` is implemented, the proofs that `SafeSpec` is.

### Scheduler, Timers

`scheduler.cpp`, `scheduler.h`.

| Model | Code |
|---|---|
| `eventList`, `eventIds`, `lastEventId` | the heap (as a set: the code uses only its minimum), the identifiers of live events, the counter, which skips 0 when it wraps |
| `BeginAddEvent`, `Insert`, `Refuse`, `Signal` | `addEvent`; it notifies only for a new top (`IsTop`, a strict comparison) |
| `StopEvent` | `stopEvent`: erases the identifier, leaves the event in the heap |
| `Stop`, `ShutdownStore`, `ShutdownClear`, `ShutdownNotify` | `ThreadHolder::stop`; `shutdown` stores the state unlocked, clears under the lock, notifies after |
| `CheckState`, `Wait`, `Expire`, `SpuriousWakeup`, `PopNothing`, `PopEvent`, `PopStopped`, `HandOver` | `threadMain`; the deadline is that of the top when the wait begins |
| `stopped` | events whose `stopEvent` returned true (history) |

`Timers` is a set of one-shot timers with states idle, armed, cancelled, fired,
dropped.  `ImplementsTimers` derives the state of a timer from `fate` and
`stopped`.  The assumption `IdIsFree` stands for the width of the identifiers:
with 2^32 - 1 of them, one is not generated again while an event that has it is
still listed.

### DatabaseTasks

`databasetasks.cpp`.  `Enqueue`, `Drop`, `Signal` are `addTask`; `WorkerPop` with
`Execute` and `PostCallback` is the thread; `BeginFlush`, `FlushPop`, `EndFlush` is
`flush` on the dispatcher thread, which runs queries itself; `Stop`, `Shutdown`,
`ShutdownNotify` end it.  A query is one step because `Database` holds its own
lock over it.  `accepted`, `executed`, `callbacks` are histories.

### Decay

`decay.cpp` with `game.cpp` (`startDecay`, `stopDecay`, `internalDecayItem`,
`cleanup`), `item.cpp` (`setID`, `canDecay`), `container.cpp` (`stopDecaying`).

| Model | Code |
|---|---|
| `map`, `checks`, `eventId` | `decayMap`; the pending `checkDecay` events; the identifier remembered of one of them |
| `item[i].state`, `.stamp`, `.burns`, `.place`, `.refs` | the attributes `decayState` and the time stamp; whether the type decays; parent; reference counter |
| `List`, `Unlist`, `GameStart`, `GameStop` | `Decay::startDecay`, `Decay::stopDecay`, `Game::startDecay`, `Game::stopDecay` |
| `Place`, `Clone`, `Ignite`, `Extinguish`, `SetDuration`, `ScriptStarts`, `ScriptStops`, `Remove`, `Cleanup` | creation, `Item::clone`, transformation, script calls, removal, `Game::cleanup` |
| `BeginCheck`, `Spared`, `Vanishes`, `Stays`, `BecomesBurning`, `BecomesInert`, `EndCheck` | `checkDecay`: the due buckets move to `tempItems` until the cap; each item in turn; the next check is armed from the iterator `it` |

`saved` is that iterator: a stamp, `End`, or `Gone` once its bucket was erased.
A copy is made with the mark of the original and loses the stamp at once, because
it is nowhere yet when `startDecaying` looks at it.
One unit of time is `SCHEDULER_MINTICKS`, 50 ms.

### Party

`party.cpp`, with the requests of `game.cpp` and `Player::onRemoveCreature`.
`leader`, `memberList`, `inviteList` are the party's side; `party`, `invitations`
the player's.  Operators: `Disband`, `RemoveInvite`, `ClearInvitations`,
`PassLeadership`, `Leave`, `Join`.  Actions: `InviteToParty` (which creates a party),
`JoinParty`, `RevokeInvitation`, `PassPartyLeadership`, `LeaveParty`, `Login`,
`Logout`.

`shared` is what a party knows of sharing experience: the switch
(`sharedExpActive`), the answer it keeps (`sharedExpEnabled`) and `ticksMap`, with an
entry that is good (`recent`), one older than `PZ_LOCKED` (`old`) or none.  Of the
members' levels and places only their outcome appears, whether the party is
`fit`; whatever changes them (`Roam`, a join, a departure) chooses it anew.
`CanEnable` and `Update` are `canEnableSharedExperience` and
`updateSharedExperience`; `Fight`, `Rest`, `Tire` and `EnableSharedPartyExperience`
are a hit or a heal, the end of a fight, time passing, and the client's switch.

### Trade

`game.cpp:3971-4399`, the hooks of `player.cpp`, the transfer of `house.cpp`, the
house commands of the data pack.

| Model | Code |
|---|---|
| `at`, `stack` | the parent of each item; the count of a stack |
| `tradeState`, `tradePartner`, `tradeItem` | the members of `Player` |
| `tradeItems`, `refs` | `Game::tradeItems` and the references it holds |
| `RequestTrade`, `Accept`, `AcceptRefused`, `Exchange`, `ExchangeFails`, `CloseTrade` | `playerRequestTrade`, `internalStartTrade`, `playerAcceptTrade`, `playerCloseTrade` |
| `Close` | `internalCloseTrade` |
| `Touches`, `Told` | `checkTradeState`; who is told what happens to an item |
| `Updated`, `Removed`, `Replaced`, `Added` | the hooks that call it when an item is updated, removed, replaced or added |
| `Move`, `Change`, `Replace`, `Destroy`, `WalkAway`, `Logout` | everything that may happen to an offered item, or to its player |
| `SellHouse`, `BuyHouse`, `LeaveHouse` | `house:startTrade`, `house_buy.lua`, `house_leave.lua` |

A house is sold by offering a document; the model names the document after its
house, and it is somewhere exactly while it is offered.

`Game::transformItem` changes an item where it is, takes it off a tile and puts it
back (`Change`), or puts a new item in its place and releases the old one with all
it holds (`Replace`).  A tile and an inventory ask, before the exchange, whether
the old item holds what is offered.  A container has made the exchange by the time
it calls its hook (`Container::replaceThing`, `container.cpp:605` and `611`), and is
itself asked whether it still holds the offer (`player.cpp:1587`): what lay in the
replaced item is not found, and its trade stays open.  The model keeps such things
in the place `Lost`, which no player is near, until the trade is closed or
carried out.

### Sessions

`connection.cpp`, `protocol.h`, `protocolgame.cpp` (login to release),
`outputmessage.cpp`, and the life of a `Player` in `game.cpp` and `creature.h`.  The
network thread runs handlers one at a time, each under its connection's lock; the
dispatcher runs the tasks of `queue` in order; the scheduler adds to it later.

| Model | Code |
|---|---|
| `conn` | `Connection`: its state, its socket, its pending read and write |
| `thread` | which handler the network thread is in: inside `parsePacket`, which follows the pointer to the player, or returning from a close while it still holds the object |
| `player`, `client` | `ProtocolGame::player` and `Player::client` |
| `refs`, `place` | `Creature::referenceCounter`; the map, the list of creatures to check and the list of what is to be released, which hold references |
| `autosend`, `armed` | `OutputMessagePool::bufferedProtocols`, and the events armed for `sendAll` |
| `waiting` | the protocols whose `eventConnect` is armed |
| `Accept`, `FirstMessage`, `ReadFails`, `ReadTooLate`, `ReadTooMany`, `BeginPacket`, `EndPacket`, `Wrote`, `WriteFails`, `Timeout`, `Return` | the handlers of the network thread |
| `OnConnect`, `LoginUnknown`, `LoginRefused`, `LoginEnters`, `LoginTwice`, `LoginReplaces`, `LoginConnects`, `ConnectLater`, `Release`, `Logout` | the tasks; one action for each way out of `login` |
| `Kick`, `Die`, `Cleanup`, `Unlist`, `Speak`, `SendAll`, `ConnectDue` | what the game and the timers do meanwhile |

`Expired` is `std::weak_ptr::expired`: nothing holds the connection any more.  It is
what `connect` asks before it attaches a player, and not quite what it should ask:
a connection that is closed and released may still be held by a handler or a
write.  `late` records the attachments made in that gap.

### LiveCast

`protocolgame.cpp`, `protocolspectator.cpp`, `connection.cpp`.  The locks of a cast
(`liveCastLock`) and of the caster's connection, with the steps at which a thread
waits for one while it has the other; how full the output buffer is decides
whether a message to the caster needs the connection at all.

### Market

`game.cpp:7521-7930`, `iomarket.cpp`.

| Model | Code |
|---|---|
| `offers`, `nextId` | the rows of `market_offers` |
| `mem`, `saved` | bank balance, coins and goods of each player, in the object while it is online and in the row |
| `queries`, `results` | checks for expired offers that wait for the database thread, and their results that wait for the dispatcher |
| `CreateSell`, `CreateBuy`, `Cancel`, `AcceptBuy`, `AcceptSell` | `playerCreateMarketOffer`, `playerCancelMarketOffer`, `playerAcceptMarketOffer` |
| `RemoveMoney` | `Game::removeMoney`, which may take the last stack from the bank once more |
| `Expire`, `CheckExpiredOffers`, `RunQuery`, `ProcessExpiredOffers` | thirty days pass; the query; its result, applied to the rows that are still there |
| `Login`, `Logout`, `Save`, `Crash` | a player is loaded and saved; `saveGameState`; the end of the process without it |

`ledger` is a history of what the code makes or loses: fees, the double payment,
what is given back by an amount that has become stale, and what a crash undoes.

## 3. Runs

| Run | Instance | Distinct states | What it shows |
|---|---|---|---|
| `dispatcher` | a network thread, the scheduler thread, three tasks (one timed), the close and terminating tasks | 14,861 | all properties of the dispatcher, and that it implements `SerialExecutor` |
| `scheduler` | two clients, three events, delays 0 and 1, identifiers 1..2 | 1,004,157 | all properties of the scheduler, and that it implements `Timers` |
| `scheduler_shutdown` | the same | - | a counterexample: section 4 |
| `database_tasks` | the dispatcher thread and another client, three queries | 56,590 | single execution, order, drained shutdown, progress |
| `decay` | a container and an item in it, or a copy, durations 1 and 3 | 268,739 | references, agreement of map and attributes, coverage by a pending check, progress |
| `decay_iterator` | the same | - | a counterexample: section 4 |
| `party` | four players, four parties, up to symmetry | 49,884 | all properties of parties |
| `trade` | three players (up to symmetry), a coin, a box, a bag, a house | 57,520 | all properties of trades |
| `trade_houses` | two players, a coin, two houses | - | a counterexample: section 4 |
| `sessions` | two connections that ask for one character | 187,970 | all properties of sessions, with the end of every closed connection |
| `market` | two players, two offers, two overlapping checks, crashes | 479,171 | conservation, and that expired offers come back |
| `livecast` | a caster, two spectators | - | a counterexample: section 4 |

### Properties

*Dispatcher.*  `NoLostWakeup`: the thread never sleeps on a non-empty list unless
a notification is still to come.  `OneOwner`: each task pointer has one owner.
`DrainedAtExit`: an orderly shutdown leaves nothing accepted in the list.
`CloseEndsWorker`: a signal, or the shutdown after a failed start-up, ends the
thread whatever the clients submit.  `ImplementsExecutor`: the refinement, with its
liveness (what is accepted is taken).

*Scheduler.*  `NoOversleep`: a wait never outlasts the first due event, unless
the notification that shortens it is pending.  `StoppedNeverFires`: a cancel that
returned true holds, although the event stays in the heap and its identifier is
used again.  `IdsMatchEvents`: the set and the heap say the same.
`ImplementsTimers`: the refinement, with its liveness (while open, an armed timer
whose time has come fires).

*DatabaseTasks.*  `RunOnceInOrder`: a query is accepted, held by one thread and run
once each, and is overtaken only while a thread already holds it.
`ShutdownDrains`, `AcceptedIsExecuted`.

*Decay.*  `RefsBalance`: the counter of an item is the sum of its place, its
listing, its seat in `tempItems` and its pending releases.  `AttributesAgree`: an
item is listed exactly under the stamp it carries, and one marked as decaying will
expire (a copy excepted).  `CheckCoversFirst`: some check
is pending no later than the first bucket needs.  `ListedLeaves`: what is listed
leaves.  The last two except a state in which the invalid iterator of section 4
has been read.

*Party.*  `MembershipAgrees`: both ends of each pointer, and no empty party.
`InvitationsAgree`: likewise, and a formed party takes no invitations
(`party.cpp:202`).  `OfflineIsForgotten`.  `SharingIsEarned`: the answer kept is what
would be computed now, but for how long ago somebody fought; and nobody earns by
what was done before leaving.

*Trade.*  `PartnersMutual`, `OffersListed` (map, players and references agree),
`OffersApart` (no item in two offers, directly or nested, and each at hand),
`OfferIsStable` (an action property: while an offer stands nothing in it changes
at any depth).  Both except what was lost in a container that was replaced inside
another: the offer stands, on an item that is nowhere, until somebody closes it.
Even then it stays apart from the others, and only the step that loses it may
change it.

*Sessions.*  `AttachmentMutual`: a protocol has a player exactly as long as that
player has it as its client.  `RefsBalance`: the reference counter is the number
of those who can reach the player, so it is deleted when the last lets go; the
exception is a player that could not be loaded, whose counter the code takes
below zero.  `PacketKeepsPlayer`: what the network thread points at, and what its
tasks point at, is not taken away.  `NoOrphan`: no player stays attached to a
closed connection, except one attached in the gap above.  `AutosendCovered`: while
a protocol has output buffered, a `sendAll` is armed.  `ClosedIsForgotten`: every
closed connection comes to its end.

*Market.*  `Conserved`: gold and goods are what they were, but for the ledger.
`ExpiredComesBack`: an expired offer does not stay.

Each module checked by a passing run has one type invariant, `TypeOK`.

### Bounds, and why they are enough

- *Dispatcher*: two clients make a second `addTask` fall between the unlock and
  the notification of the first; three tasks make a list that is empty, a
  singleton and longer; one is timed.  The theorems of section 5 remove this
  bound for the safety properties.
- *Scheduler*: three events give a top, a new top and one that is stopped;
  `MaxId = 2` makes identifiers wrap and be used again; a clock of two values
  (`MaxTime = 1`) with delays 0 and 1 gives events that are overdue, due, and
  due later than the clock will reach.  `IdIsFree` bounds reuse as said above.
- *DatabaseTasks*: two consumers and three queries: one held by each, one listed.
- *Decay*: the container and its content are the smallest instance in which
  removing one item stops the decay of another.  `Cap = 1` makes each check leave
  work behind.  `MaxStart` and `MaxTime` bound the clock, `MaxChecks` the
  superfluous checks pending, `MaxRelease` the pending releases of an item; each
  restrains only clients, never `checkDecay`, except that an item becomes another
  that decays (`BecomesBurning`) only up to `MaxStart`.
- *Party*: four players make a leader, a successor and an invitee beside a second
  party that shares the invitee.
- *Trade*: three things nest three deep (the coin in the box in the bag), so that a
  box that holds an offer is replaced inside a bag; three players make a bystander
  and a rival of a trade.

- *Sessions*: two connections that ask for one character replace each other and
  race; `MaxTasks = 2` tasks in the dispatcher's list put one of each connection, or
  two of the same, in either order (handlers and timers wait for room, which
  restrains the network only); counters wrap at 16.
- *Market*: two offers, `MaxOffers`, let one be sold in part or cancelled while the
  other expires; `MaxChecks = 2` checks overlap, so the second result names what the
  first has given back; amounts 1 and 2 give partial sales; `Wealth` gives one
  player the goods and the other the gold, and bounds what is traded.
- *LiveCast*: a buffer of two messages is empty, has room, or is full; `MaxQueue = 2`.

Deadlock is checked for Party and Trade, where someone can always act.  The
other systems really stop (the server has shut down and every client is served)
or reach the end of the bounded clock, and their configurations say so.

### Fairness, and why the code justifies it

- A thread that has entered a call leaves it: mutexes are held for a bounded
  time, and no lock is taken inside another here (weak fairness of the locked
  step and of the notification, per thread).
- A service thread that can take a step takes it (weak fairness of its loop).
- A task, and a query, returns: tasks are the server's own code; the database is
  assumed to answer.
- Time passes, up to the bound of the clock.

- *Sessions*: the dispatcher runs its tasks, and a handler returns.  A call on a
  connection waits for the lock that a packet handler takes again and again, so for
  tasks the fairness is strong: a mutex lets the waiter in at last.  On a
  connection that is closed, the pending read and the pending write end, by the
  closed socket, by the peer or by their timers.
- *Market*: checks are made again and again, which takes a configuration with
  `CHECK_EXPIRED_MARKET_OFFERS_EACH_MINUTES` above 0 (`iomarket.cpp:203`; with 0
  there is one check, when the server starts); the database answers, and the server
  crashes only finitely often (a crash loses the queries under way).

There is no fairness for a client calling, a signal arriving, a spurious wake-up
or a save: no liveness property relies on them.  In particular a sleeping thread
is woken only by a notification or its deadline.  Party and Trade have no
liveness and no fairness: clients may stop asking.

## 4. Where the code and its texts disagree

Four runs check a statement of the repository that the code does not keep.

- `scheduler_shutdown` / `ShutdownEndsThread`.  `signals.cpp:89` and `92` say a
  signal "shuts the server down", and `otserv.cpp:188` joins the scheduler thread.
  `Scheduler::shutdown` (`scheduler.cpp:121`) stores the state without the lock and
  notifies once.  The thread may have read the old state in its loop condition
  and not yet wait; it then waits on an empty heap for ever.  The dispatcher does
  not have this hole, because its thread is ended by a task of its own, and
  neither does `Dispatcher` in the model (`CloseEndsWorker`).  `DatabaseTasks` has
  it: its loop reads the state before it takes the lock, and `shutdown`
  (`databasetasks.cpp:98-105`) notifies once.  There the module claims what the
  shutdown leaves in the list, and not that the thread ends.
- `decay_iterator` / `IteratorStaysValid`.  `decay.cpp:114` copies the due items
  because "Iterating here is unsafe", but keeps the iterator itself over the loop
  that decays the copies.  A container that vanishes there stops the decay of
  what it holds, which erases the bucket the iterator is left at; lines 141-142
  read it.
- `trade_houses` / `OneHouseEach`.  A sale is refused to a player who "already
  owns a house" (`tools.cpp:1304`, `house_buy.lua:40`) when it is offered, not when
  it is accepted: `House::executeTransfer` (`house.cpp:409`) does not look again.
- `livecast` / `NoCircularWait`.  `protocolgame.cpp:369` says, under `liveCastLock`,
  "DO NOT do any send operations here"; a few lines later the caster is told who
  came (`addSpectator`, and `removeSpectator` likewise), which sends when its buffer
  is full and so waits for its connection.  `broadcastMessage` (`connection.cpp:371`)
  has that connection's lock and waits for `liveCastLock`.

## 5. Proofs

TLC checks the instances above.  The theorems below hold for every value of the
constants that satisfies the assumption named in the module (`DispatcherAssumption`,
`TradeAssumption` and so on): any threads, tasks, players, parties, items and
connections, any delays and prices, identifiers of any width.  The assumptions say
that names are distinct, that numbers are numbers, that what is counted or added
up is finite (`Things` of Trade, `Items` of Decay, `Players` of Market), that
containers of Decay nest one deep, and that its clock reaches as far as its
durations; TLC evaluates them in the runs.

Every invariant that a passing run checks is a theorem, and so are the one action
property and the safety part of both refinements:

| Module | Theorem | States |
|---|---|---|
| `DispatcherProofs` | `DispatcherTypeCorrect`, `DispatcherNoLostWakeup`, `DispatcherOneOwner`, `DispatcherDrained` | `[]TypeOK`, `[]NoLostWakeup`, `[]OneOwner`, `[]DrainedAtExit` |
| | `DispatcherRefines` | `Spec => Executor!SafeSpec` |
| `SchedulerProofs` | `SchedulerTypeCorrect`, `SchedulerStopped`, `SchedulerNoOversleep`, `SchedulerIdsMatch` | `[]TypeOK`, `[]StoppedNeverFires`, `[]NoOversleep`, `[]IdsMatchEvents` |
| | `SchedulerRefines` | `Spec => Timer!SafeSpec` |
| `DatabaseTasksProofs` | `DatabaseTasksInvariant`, `DatabaseTasksTypeCorrect`, `DatabaseTasksRunOnce`, `DatabaseTasksDrained` | `[]IInv`, `[]TypeOK`, `[]RunOnceInOrder`, `[]ShutdownDrains` |
| `SessionsProofs` | `SessionsTypeCorrect`, `SessionsAttachment`, `SessionsReferences`, `SessionsPacketKeepsPlayer`, `SessionsNoOrphan`, `SessionsAutosend` | `[]TypeOK`, `[]AttachmentMutual`, `[]RefsBalance`, `[]PacketKeepsPlayer`, `[]NoOrphan`, `[]AutosendCovered` |
| `TradeProofs` | `TradeInvariant`, `TradeTypeCorrect`, `TradePartners`, `TradeOffers` | `[]IInv`, `[]TypeOK`, `[]PartnersMutual`, `[]OffersListed` |
| | `TradeOffersApart`, `TradeOffersStable` | `[]OffersApart`, `OfferIsStable` |
| `PartyProofs` | `PartyInvariant`, `PartyTypeCorrect`, `PartyMembership`, `PartyInvitations`, `PartyOffline`, `PartySharing` | `[]IInv`, `[]TypeOK`, `[]MembershipAgrees`, `[]InvitationsAgree`, `[]OfflineIsForgotten`, `[]SharingIsEarned` |
| `DecayProofs` | `DecayInvariant`, `DecayTypeCorrect`, `DecayReferences`, `DecayAttributes`, `DecayChecks` | `[]IInv`, `[]TypeOK`, `[]RefsBalance`, `[]AttributesAgree`, `[]CheckCoversFirst` |
| `MarketProofs` | `MarketInvariant`, `MarketTypeCorrect`, `MarketConserves` | `[]IInv`, `[]TypeOK`, `[]Conserved` |

Each module has the same outline: the inductive invariant `IInv`, lemmas on the
calls an action is composed of, one lemma (or one step) per action, and the
theorems, which combine `Init => IInv` and `IInv /\ [Next]_vars => IInv'`.

### The threads

*Dispatcher*.  `IInv` adds to `TypeOK`, `OneOwner` and `NoLostWakeup`:
`Holding` (where a thread stands tells whether it holds a task: without it
`Enqueue` might push a task that is already listed), `Ending` (who may have
created the terminating task, and that the state is TERMINATED only after it
ran), and `LastInList` (in the orderly path the terminating task is pushed only
when `addTask` already refuses, so it is and stays the last of the list; when it
runs, the list is empty).  `DrainedAtExit` follows from `Ending`, `LastInList` and
`OneOwner`.  `NoLostWakeup` is inductive with `Holding`: the thread starts to wait
only on an empty list, and whoever then makes it non-empty found it empty, so
it is about to notify.  Three lemmas say what appending, consing and popping do
to the occurrences of a task in a list without repetition.  `DispatcherRefines`:
the wait, the notification and the unlocked reads stutter; `Enqueue` submits,
`TakeTask` takes.  It needs one more invariant, `Closed`: when the terminating task
has run, the worker is past its list and takes nothing more.

*Scheduler*.  `IInv` adds `Holding` and `OneOwner` (an event
object is with the heap, with the client that adds it, or with the thread) to
`TypeOK` and the three safety invariants.  `IdsMatchEvents` carries
`StoppedNeverFires`: a stopped event's identifier is absent from the set until the
event is popped, because a new identifier differs from that of every listed
event (`IdIsFree`), so `PopEvent` is disabled for it.  `NoOversleep`: a
new event either becomes the top, and its client is about to notify, or is not
before an event the deadline already covers.  `SchedulerRefines`: a timer's state
is a function of `fate` and `stopped`, and a lemma (`ViewChange`) says which changes
of the two are a step of `Timers`; that nothing fires early is one more invariant,
`DeadlineIsDue`: after a wait that timed out the thread pops the top without
looking at the clock again, so some listed event must be due by the deadline the
wait began with, or the heap has been cleared.

*DatabaseTasks*.  The list is always a suffix of what was accepted (`Listed`); what
has left it is held by one thread, at a place where its code holds it
(`Holding`), or has run (`Progress`); after `shutdown` the list is empty but for
what its flush still pops (`Closing`).  An overtaken query is one that is
held: `RunOnceInOrder` follows from `Listed` and `Progress`.

*Sessions*.  `IInv` adds what the properties rest on: in the queue of the
dispatcher a connection has its login and its connect once each, and its logins and
logouts stand before its releases (`Sorted`); a login runs at most once for a
connection (`OneLogin`); a release is queued only when the connection is closed, a
logout only while the protocol has its player (`Closing`); the handler of a packet
works on an open connection with a player (`PacketOpen`); and references are counted
by holders (`Counted`, a sum of two terms, so that no cardinality is needed).
`PacketKeepsPlayer` follows from `PacketOpen` and `Closing`: only a release takes the
player from its protocol, and no release overtakes a task of a packet.

### The game

*Trade*.  Actions are compositions of calls on the record `World`, and so are the
proofs: `Sound(w, busy)` says that a record is in order but for the players that
are in TRADE_TRANSFER, and a lemma for each call (`ReleaseGives`, `CloseGives`,
`MoveGives`, `OfferGives`, `SettleGives`, `FinishGives`) says that it keeps that and
what it changes.  `IInv` is `Sound(World, {})` with the partners in the game.

`OffersApart` and `OfferIsStable` need a theory of nesting.  `Holders`, the
containers around an item, is computed by a recursive function with as many
steps as there are things.  `HoldersIs` shows that it is the least set with the
parent of the item and the parents of the things in it: a step that is not closed
adds a thing (`ClimbShape`), which cannot happen more often than there are things.
From this least set everything else follows: an item in a container in another is
in the other (`HoldersThrough`), putting a thing where it has room makes no loop
(`PutNoLoop`), and what is not above the thing that moves keeps its holders
(`PutElsewhere`).  The invariant `AInv` is `Apart(World, {})`, which is
`OffersApart` (`Held`: at hand, or lost), and `NoLoop(at)`, that nothing lies in
itself: with a loop, moving a thing could change what is around the things around
it.  `RemovedSees` and `UpdatedSees` say that the hooks of `internalMoveItem` name
every player whose offer holds, is, or lies in what moves, if that is not lost;
`ReplacedSees` says the same of a replacement, but for what lies in a container that
lies in a container.  `EmptiedHolders` is what a replacement does to the nesting:
the contents of the old item, and nothing else, come to lie in `Lost`, so that the
offers whose trade was not closed are lost whole.  The step lemma proves `AInv'` and
`Steady` together, an offer that still stands has not been touched, which is the
action property.  The hard step is `Exchange`, where two items move while their
owners are exempt from the hooks, and one of them may be lost already:
`ExchangeMoves` shows that the second move cannot put one into somebody else's offer
through the first, and `Clear`, that no offer of a third player has to do with
either, stands in for the hooks that a lost item no longer reaches.

*Party*.  `Sound(w, late)` is the agreement of the two ends of each pointer, but for
the answers on shared experience of the parties in `late`, which a call has yet to
recompute; `IInv` is `Sound(World, {})` with everyone concerned in the game.
Cascades (`ClearInvitations`, which may disband other parties) are one call with a
lemma of its own.

*Decay*.  The lemmas say of each call what it does to one item, since most of them
find it half way: marked and not listed, or listed and no longer in the world.
`IInv`: map and attributes agree (`Agree`, `Marked`), each item is owed exactly the
reference that `tempItems` holds (`Balanced`, with `Debt`), and every bucket has a
check in time or lies where the iterator of the running check will re-arm
(`Covered`), unless that iterator was read after its bucket was erased.

*Market*.  Gold and goods are sums over players and offers, and
`SumFunctionOnSet` is a recursive function over the subsets of a set; the proof
begins with its laws (a sum changes by what one term changes, and splits over
disjoint sets), by an induction over finite sets.  `IInv` adds to the balance of the
books that a result that waits speaks of offers as they are
(`Speaks`: a row that is still there has the kind and price of the result, only its
amount may differ), which is why stale amounts are the only thing that
`processExpiredOffers` can get wrong.

### Induction

The library's theorems on induction take an operator as a parameter, which the
installed provers cannot instantiate.  Where a proof needs induction it is stated
for sets: `Least` (a non-empty set of naturals has a least element),
`Counting` (a set with 0 and the successors of its elements below n has all
numbers up to n), and `SubsetInduction` in `MarketProofs` (over the subsets of a
finite set, by their cardinality).  All three come down to the well-foundedness of
the naturals, which is a theorem without parameters.

### Only model-checked

All liveness: `CloseEndsWorker`, `AcceptedIsExecuted`, `ListedLeaves`,
`ClosedIsForgotten`, `ExpiredComesBack`, and the fairness of `SerialExecutor` and
`Timers` in `ImplementsExecutor` and `ImplementsTimers`, since the provers handle
neither ENABLED nor, hence, fairness.  The four statements of section 4 are false
of the code.  `LiveCast` has no theorem: its one property is such a statement.

## 6. What is not modelled

The modules cover the parts of the server whose correctness depends on order,
on two ends of a link, or on a second actor.  Most of the rest is content, tables,
formats and formulas: it is long, each operation of it is one task of the
dispatcher, and a model of it would repeat the code.

- *Within modelled parts.*  Decay: what scripts do from inside the loop of
  `checkDecay` beyond what removal does.  Party: the bindings that skip the checks
  of `game.cpp` (no script calls them), and scripts that veto a disband (the event
  is disabled).  Trade: distances, the pause between requests, imbuement windows,
  money; when a replaced container is released (until then a lost item may be
  exchanged; the model leaves the time open).  Decay: an item that starts with no
  time left and decays at once.  Dispatcher: the statistics a finished task leaves.  Sessions: the
  shutdown, which closes every connection; clones of a character; `isConnecting`.
  Market: offers of store coins, queries that fail, and a crash inside one operation
  (between the `DELETE` of an offer and the saving of its player).
- *Bank and guild accounts*: transfers write the receiver's row at once and the
  payer's at logout, so a crash can make gold, again and again: with them the
  states of Market have no bound that leaves its own operations whole.  What
  goes wrong there is among the hazards.
- *Waiting list*: one sequential function, two slips of which are on record;
  `Sessions` has what it answers.
- *Lifecycle*: the loader's handshake with main and the statistics thread; both
  have a hazard on record.
- *Combat, spells, monsters, path finding, map*: formulas and geometry over large
  numeric state, single task each, tested by playing.
- *Database, player storage, mail*: synchronous SQL on the dispatcher; the database
  itself is outside the repository, and `Market` has the rows it needs.
- *Guilds and chat, spawns, raids, global events*: lists changed by single calls,
  and chains of timers that re-arm themselves, whose timer is `Scheduler`.
- *Lua bindings, protocols' formats, configuration, tools*: parsing and wording,
  no decisions of their own; where a script may veto, the models choose freely.
- *Data pack*: content, except the house commands.

Smaller things seen, each settled by reading the line: a trade stays
open when a container that holds the offer is replaced inside another
(`container.cpp:605` before `611`; a corpse in a backpack that decays into something
that holds nothing does it, where the types in `items.otb` allow), and the offered
item goes with the old container (`game.cpp:1863-1881`); the time
left of a waiting client is computed unsigned (`waitlist.cpp:49`), and an entry of
its priority list is erased through the other list (`waitlist.cpp:128`); two offers
may spend the same store coins (`game.cpp:7594`), and an expired offer of coins
comes back as items (`iomarket.cpp:133`); `guild:setBalance` keeps 32 bits of 64
(`luascript.cpp:13099`); the rank that may withdraw from a guild's account is
checked when the conversation begins and not when it is confirmed
(`Banker.lua:219`); the banker ignores that a deposit was refused
(`Banker.lua:195`); `isConnecting` stays set when the second client goes away
(`player.cpp:4267`); the login server counts spectators without their lock
(`protocollogin.cpp:101`).

## 7. Plan

Done, in this order: `Dispatcher` with `SerialExecutor`; `Scheduler` with `Timers`;
`DatabaseTasks`; `Decay`; `Party`; `Trade`; `Sessions`; `Market`; `LiveCast`; shared
experience in `Party`, copies in `Decay`; then the theorems of section 5.

To come: for the liveness properties, which stay with TLC, the step facts that
their arguments rest on, as theorems of the form `Spec => [][...]_vars`: what the
task that is awaited decreases, and that no other step undoes it (a release that is
queued stays queued until it runs; `checkDecay` always takes from the first bucket;
a result that is applied leaves none of its offers; an accepted query leaves its
list from the front only).

## 8. Running it

In this directory:

```
tlc -workers 2 -config MCDispatcher.cfg MCDispatcher
tlapm DispatcherProofs.tla
```

and likewise for the other `MC*.cfg` and `*Proofs.tla`.  `PROJECT.json` says which
configuration belongs to which module and whether it passes.  A definition whose
comment begins "Mutant of" is not part of a model: it is a plausible bug in the
definition that follows it, and substituting it makes TLC find a property
violated; `PROJECT.json` pairs each checked property with one.
