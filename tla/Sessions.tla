------------------------------ MODULE Sessions ------------------------------
(***************************************************************************)
(* From a socket to a character in the game and back: Connection           *)
(* (connection.cpp), ProtocolGame (login, connect, logout, release), the   *)
(* autosend list of OutputMessagePool, and the references that keep a      *)
(* Player alive.  Three parties work on them:                              *)
(*   - the network thread, which runs the handlers of the sockets one at a *)
(*     time, each under the lock of its connection;                        *)
(*   - the dispatcher, which runs the tasks of one queue in order;         *)
(*   - the scheduler, which puts a task into that queue some time later.   *)
(*                                                                         *)
(* Each connection has a protocol, named like it, and a login may create a *)
(* Player, named like the connection that asked for it.  An object of the  *)
(* code is alive as long as something points at it; a Connection is held   *)
(* by the ConnectionManager until it is closed and by its handlers.        *)
(*                                                                         *)
(* Left out: the contents of messages, live casts, the shutdown, clones    *)
(* (allowClones is off) and Player::isConnecting, which only postpones one *)
(* of the causes of Kick.                                                  *)
(***************************************************************************)
EXTENDS Integers, Sequences, FiniteSets

CONSTANTS
    Conns,
    Characters,
    Asks,          \* the character that each connection asks for
    RefMod,        \* Creature::referenceCounter wraps, at 2^32 in the code
    MaxTasks,      \* handlers and timers run while the queue is shorter
    NoConn, NoPlayer

ASSUME SessionsAssumption ==
    /\ Asks \in [Conns -> Characters]
    /\ RefMod \in Nat /\ RefMod > 3
    /\ NoConn \notin Conns /\ NoPlayer \notin Conns

VARIABLES
    conn,       \* Connection: its state, its socket, its pending read and writes
    greeted,    \* Connection::receivedFirst
    thread,     \* which handler the network thread is in
    queue,      \* the tasks of the dispatcher
    waiting,    \* protocols whose eventConnect is armed
    armed,      \* events armed for OutputMessagePool::sendAll
    autosend,   \* OutputMessagePool::bufferedProtocols, with multiplicity
    accepts,    \* ProtocolGame::acceptPackets
    player,     \* ProtocolGame::player
    client,     \* Player::client
    refs,       \* Creature::referenceCounter
    place,      \* where the Player is
    late        \* history: attached after the last release, see Attach

netVars    == <<conn, queue>>
playerVars == <<player, client, refs, place, late>>
poolVars   == <<armed, autosend>>
vars == <<conn, greeted, thread, queue, waiting, armed, autosend, accepts,
          player, client, refs, place, late>>

\* "PENDING" until it is accepted, and then CONNECTING_STAGE2 and GAME.
Phases == {"pending", "open", "disconnected"}

\* A handler that has unlocked its connection may still hold the object.
Handlers == {"none", "packet", "returning"}

\* In the map and in one of checkCreatureLists; removed, with both references
\* still to be given back; removed, and still listed; neither.
Stations == {"none", "failed", "world", "removed", "listed", "gone"}

Tasks == [does : {"onConnect", "login", "connect", "logout", "release"}, for : Conns]

(***************************************************************************)
(* The one type invariant.                                                 *)
(***************************************************************************)
TypeOK ==
    /\ conn \in [Conns -> [phase : Phases, socket : BOOLEAN,
                           reading : BOOLEAN, writing : BOOLEAN]]
    /\ greeted \in SUBSET Conns
    /\ thread \in [in : Handlers, on : Conns \cup {NoConn}]
    /\ queue \in Seq(Tasks)
    /\ waiting \in SUBSET Conns
    /\ armed \in Nat
    /\ autosend \in [Conns -> Nat]
    /\ accepts \in SUBSET Conns
    /\ player \in [Conns -> Conns \cup {NoPlayer}]
    /\ client \in [Conns -> Conns \cup {NoConn}]
    /\ refs \in [Conns -> 0 .. RefMod - 1]
    /\ place \in [Conns -> Stations]
    /\ late \in SUBSET Conns

Init ==
    /\ conn = [c \in Conns |-> [phase |-> "pending", socket |-> FALSE,
                                reading |-> FALSE, writing |-> FALSE]]
    /\ greeted = {} /\ accepts = {}
    /\ thread = [in |-> "none", on |-> NoConn]
    /\ queue = <<>>
    /\ waiting = {} /\ armed = 0
    /\ autosend = [c \in Conns |-> 0]
    /\ player = [c \in Conns |-> NoPlayer]
    /\ client = [o \in Conns |-> NoConn]
    /\ refs = [o \in Conns |-> 0]
    /\ place = [o \in Conns |-> "none"]
    /\ late = {}

-----------------------------------------------------------------------------
(* What the calls do to the connections and the queue, so that they        *)
(* compose like the calls.                                                 *)

Net == [conn |-> conn, queue |-> queue]
Become(n) == conn' = n.conn /\ queue' = n.queue

Task(does, c) == [does |-> does, for |-> c]
Enqueue(n, does, c) == [n EXCEPT !.queue = Append(@, Task(does, c))]
Queued(does, c) == \E k \in DOMAIN queue : queue[k] = Task(does, c)

\* std::weak_ptr<Connection>::expired, seen from the dispatcher.
ExpiredIn(n, c) == /\ n.conn[c].phase = "disconnected"
                   /\ ~n.conn[c].reading /\ ~n.conn[c].writing
                   /\ thread.on # c

\* Mutant of Expired: connect does not look whether the connection is gone.
NeverExpired(c) == FALSE

Expired(c) == ExpiredIn(Net, c)

\* Mutant of Close: the socket is left to the destructor.
CloseWithoutSocket(n, c, force) ==
    Enqueue([n EXCEPT !.conn[c].phase = "disconnected"], "release", c)

\* Connection::close.  What is still to be written is written first, unless forced.
Close(n, c, force) ==
    LET closed == [n.conn[c] EXCEPT !.phase = "disconnected",
                                    !.socket = @ /\ n.conn[c].writing /\ ~force]
    IN  Enqueue([n EXCEPT !.conn[c] = closed], "release", c)

\* Connection::send
Send(n, c) == [n EXCEPT !.conn[c].writing = @ \/ n.conn[c].phase = "open"]

\* Protocol::disconnect
Disconnect(n, c) == IF ExpiredIn(n, c) THEN n ELSE Close(n, c, FALSE)

\* ProtocolGame::disconnectClient
DisconnectClient(n, c) == Disconnect(Send(n, c), c)

-----------------------------------------------------------------------------
(* The network thread.                                                     *)

Idle == thread.in = "none"

\* A bound of the model: the dispatcher keeps up with the network.  A request
\* leaves the last place to the handlers, lest it keep a connection from closing.
Room == Len(queue) < MaxTasks

\* The handler has closed the connection, and holds it until it returns.
Returning(c) == thread' = [in |-> "returning", on |-> c]

Return ==
    /\ thread.in = "returning"
    /\ thread' = [in |-> "none", on |-> NoConn]
    /\ UNCHANGED <<netVars, greeted, waiting, poolVars, accepts, playerVars>>

\* ServicePort::onAccept and Connection::accept: the server speaks first.
Accept(c) ==
    /\ Idle /\ Room /\ conn[c].phase = "pending"
    /\ Become(Enqueue([Net EXCEPT !.conn[c] = [phase |-> "open", socket |-> TRUE,
                                               reading |-> TRUE, writing |-> FALSE]],
                      "onConnect", c))
    /\ UNCHANGED <<greeted, thread, waiting, poolVars, accepts, playerVars>>

Reads(c) == Idle /\ conn[c].reading
ReadDone(n, c) == [n EXCEPT !.conn[c].reading = FALSE]

\* parseHeader and parsePacket: the peer has gone, has sent nonsense, or the
\* socket has been closed on this side.
ReadFails(c) ==
    /\ Reads(c) /\ Room
    /\ Become(Close(ReadDone(Net, c), c, TRUE))
    /\ Returning(c)
    /\ UNCHANGED <<greeted, waiting, poolVars, accepts, playerVars>>

\* Something arrived on a connection that has been closed meanwhile.
ReadTooLate(c) ==
    /\ Reads(c) /\ conn[c].phase = "disconnected"
    /\ Become(ReadDone(Net, c))
    /\ UNCHANGED <<greeted, thread, waiting, poolVars, accepts, playerVars>>

\* More packets in a second than the configuration allows.
ReadTooMany(c) ==
    /\ Reads(c) /\ Room /\ conn[c].phase = "open"
    /\ Become(Close(ReadDone(Net, c), c, FALSE))
    /\ Returning(c)
    /\ UNCHANGED <<greeted, waiting, poolVars, accepts, playerVars>>

\* ProtocolGame::onRecvFirstMessage; parsePacket reads on, whatever it did.
FirstMessage(c) ==
    /\ Reads(c) /\ Room /\ conn[c].phase = "open" /\ c \notin greeted
    /\ greeted' = greeted \cup {c}
    /\ \/ Become(Enqueue(Net, "login", c)) /\ UNCHANGED thread
       \/ /\ \E told \in {Net, Send(Net, c)} : Become(Close(told, c, FALSE))
          /\ Returning(c)
    /\ UNCHANGED <<waiting, poolVars, accepts, playerVars>>

\* Mutant of BeginPacket: parsePacket does not look at the connection's state.
BeginPacketAnyway(c) ==
    /\ Reads(c) /\ c \in greeted /\ c \in accepts
    /\ Become(ReadDone(Net, c))
    /\ thread' = [in |-> "packet", on |-> c]
    /\ UNCHANGED <<greeted, waiting, poolVars, accepts, playerVars>>

\* ProtocolGame::parsePacket runs under the lock of the connection, and follows
\* the pointer to the player.
BeginPacket(c) ==
    /\ Reads(c) /\ conn[c].phase = "open" /\ c \in greeted
    /\ c \in accepts
    /\ Become(ReadDone(Net, c))
    /\ thread' = [in |-> "packet", on |-> c]
    /\ UNCHANGED <<greeted, waiting, poolVars, accepts, playerVars>>

EndPacket(c) ==
    LET next == [Net EXCEPT !.conn[c].reading = TRUE] IN
    /\ thread = [in |-> "packet", on |-> c]
    /\ \/ /\ \/ Become(next)
             \/ Len(queue) + 1 < MaxTasks /\ Become(Enqueue(next, "logout", c))
          /\ thread' = [in |-> "none", on |-> NoConn]
       \/ Room /\ Become(Close(next, c, FALSE)) /\ Returning(c)
    /\ UNCHANGED <<greeted, waiting, poolVars, accepts, playerVars>>

\* Connection::onWriteOperation, when nothing is left to be written.
Wrote(c) ==
    /\ Idle /\ conn[c].writing
    /\ conn' = [conn EXCEPT ![c] = [conn[c] EXCEPT !.writing = FALSE,
                                                   !.socket = @ /\ conn[c].phase = "open"]]
    /\ UNCHANGED <<greeted, thread, queue, waiting, poolVars, accepts, playerVars>>

WriteFails(c) ==
    /\ Idle /\ Room /\ conn[c].writing
    /\ Become(Close([Net EXCEPT !.conn[c].writing = FALSE], c, TRUE))
    /\ Returning(c)
    /\ UNCHANGED <<greeted, waiting, poolVars, accepts, playerVars>>

\* Connection::handleTimeout, of the read or of the write timer.
Timeout(c) ==
    /\ Idle /\ Room /\ conn[c].socket
    /\ conn[c].reading \/ conn[c].writing
    /\ Become(Close(Net, c, TRUE))
    /\ Returning(c)
    /\ UNCHANGED <<greeted, waiting, poolVars, accepts, playerVars>>

-----------------------------------------------------------------------------
(* The dispatcher.                                                         *)

Runs(does, c) == queue # <<>> /\ Head(queue) = Task(does, c)

Rest == [Net EXCEPT !.queue = Tail(@)]

\* A call on the connection waits for the handler that has its lock.
Unlocked(c) == thread # [in |-> "packet", on |-> c]

OnConnect(c) ==
    /\ Runs("onConnect", c)
    /\ Become(Send(Rest, c))
    /\ UNCHANGED <<greeted, thread, waiting, poolVars, accepts, playerVars>>

\* Game::getPlayerByName, getPlayerByID
Found(c) == {o \in Conns : place[o] = "world" /\ Asks[o] = Asks[c]}

\* Mutant of Decrement: a counter that is at zero goes on below it.
DecrementPlain(n) == n - 1

Decrement(n) == (n + RefMod - 1) % RefMod

\* OutputMessagePool::addProtocolToAutosend
Autosend(c) ==
    /\ autosend' = [autosend EXCEPT ![c] = @ + 1]
    /\ armed' = IF autosend = [d \in Conns |-> 0] THEN armed + 1 ELSE armed

\* A new Player points at its protocol; the name is not in the database.
LoginUnknown(c) ==
    /\ Runs("login", c) /\ Found(c) = {}
    /\ player' = [player EXCEPT ![c] = c]
    /\ client' = [client EXCEPT ![c] = c]
    /\ place' = [place EXCEPT ![c] = "failed"]
    /\ Become(DisconnectClient(Rest, c))
    /\ UNCHANGED <<greeted, thread, waiting, poolVars, accepts, refs, late>>

\* Banned, the server closing, the waiting list, no room: with a Player loaded.
LoginRefused(c) ==
    /\ Runs("login", c) /\ Found(c) = {}
    /\ player' = [player EXCEPT ![c] = c]
    /\ client' = [client EXCEPT ![c] = c]
    /\ refs' = [refs EXCEPT ![c] = 1]
    /\ Become(DisconnectClient(Rest, c))
    /\ UNCHANGED <<greeted, thread, waiting, poolVars, accepts, place, late>>

\* Game::placeCreature takes one reference, addCreatureCheck another.
LoginEnters(c) ==
    /\ Runs("login", c) /\ Found(c) = {}
    /\ player' = [player EXCEPT ![c] = c]
    /\ client' = [client EXCEPT ![c] = c]
    /\ refs' = [refs EXCEPT ![c] = 3]
    /\ place' = [place EXCEPT ![c] = "world"]
    /\ accepts' = accepts \cup {c}
    /\ Autosend(c)
    /\ Become(Rest)
    /\ UNCHANGED <<greeted, thread, waiting, late>>

\* replaceKickOnLogin is off: the configuration may be reloaded at any time.
LoginTwice(c) ==
    /\ Runs("login", c) /\ Found(c) # {}
    /\ Become(DisconnectClient(Rest, c))
    /\ UNCHANGED <<greeted, thread, waiting, poolVars, accepts, playerVars>>

\* The other client is disconnected, and a second later this one connects.
LoginReplaces(c) ==
    /\ Runs("login", c)
    /\ \E o \in Found(c) :
        /\ client[o] # NoConn
        /\ Unlocked(client[o])
        /\ Become(Disconnect(Rest, client[o]))
    /\ waiting' = waiting \cup {c}
    /\ Autosend(c)
    /\ UNCHANGED <<greeted, thread, accepts, playerVars>>

\* Mutant of Attach: no reference is taken.
AttachUncounted(c, o) ==
    /\ player' = [player EXCEPT ![c] = o]
    /\ client' = [client EXCEPT ![o] = c]
    /\ accepts' = accepts \cup {c}
    /\ late' = late
    /\ UNCHANGED <<refs, place>>

\* The end of ProtocolGame::connect.  The guard on expired connections misses one
\* that is closed and released and still held, by a handler or a write: that is late.
Attach(c, o) ==
    /\ player' = [player EXCEPT ![c] = o]
    /\ client' = [client EXCEPT ![o] = c]
    /\ refs' = [refs EXCEPT ![o] = @ + 1]
    /\ accepts' = accepts \cup {c}
    /\ late' = IF /\ conn[c].phase = "disconnected" /\ ~Queued("release", c)
                  /\ ~ExpiredIn(Net, c)
               THEN late \cup {c} ELSE late
    /\ UNCHANGED place

\* ProtocolGame::connect, called from login or by the scheduler.
Connect(c) ==
    \/ /\ \A o \in Found(c) : client[o] # NoConn
       /\ Become(DisconnectClient(Rest, c))
       /\ UNCHANGED <<accepts, playerVars>>
    \/ /\ \E o \in Found(c) : client[o] = NoConn
       /\ Expired(c)
       /\ Become(Rest)
       /\ UNCHANGED <<accepts, playerVars>>
    \/ \E o \in Found(c) :
       /\ client[o] = NoConn
       /\ ~Expired(c)
       /\ Become(Rest)
       /\ Attach(c, o)

LoginConnects(c) ==
    /\ Runs("login", c)
    /\ \E o \in Found(c) : client[o] = NoConn
    /\ Connect(c)
    /\ Autosend(c)
    /\ UNCHANGED <<greeted, thread, waiting>>

ConnectLater(c) ==
    /\ Runs("connect", c)
    /\ Connect(c)
    /\ UNCHANGED <<greeted, thread, waiting, poolVars>>

\* Mutant of Release: the player keeps its client.
ReleaseOneSided(c) ==
    /\ Runs("release", c)
    /\ IF player[c] # NoPlayer /\ client[player[c]] = c
       THEN /\ refs' = [refs EXCEPT ![player[c]] = Decrement(@)]
            /\ player' = [player EXCEPT ![c] = NoPlayer]
            /\ UNCHANGED client
       ELSE UNCHANGED <<player, client, refs>>
    /\ autosend' = [autosend EXCEPT ![c] = IF @ = 0 THEN 0 ELSE @ - 1]
    /\ Become(Rest)
    /\ UNCHANGED <<greeted, thread, waiting, armed, accepts, place, late>>

\* ProtocolGame::release, which every close asks for.
Release(c) ==
    /\ Runs("release", c)
    /\ IF player[c] # NoPlayer /\ client[player[c]] = c
       THEN /\ client' = [client EXCEPT ![player[c]] = NoConn]
            /\ refs' = [refs EXCEPT ![player[c]] = Decrement(@)]
            /\ player' = [player EXCEPT ![c] = NoPlayer]
       ELSE UNCHANGED <<player, client, refs>>
    /\ autosend' = [autosend EXCEPT ![c] = IF @ = 0 THEN 0 ELSE @ - 1]
    /\ Become(Rest)
    /\ UNCHANGED <<greeted, thread, waiting, armed, accepts, place, late>>

\* Game::removeCreature
Removed(o) == IF place[o] = "world" THEN [place EXCEPT ![o] = "removed"] ELSE place

\* ProtocolGame::logout, asked for by the client, which may be refused.
Logout(c) ==
    /\ Runs("logout", c)
    /\ \/ Become(Rest) /\ UNCHANGED place
       \/ /\ player[c] # NoPlayer
          /\ Unlocked(c)
          /\ Become(Disconnect(Rest, c))
          /\ place' = Removed(player[c])
    /\ UNCHANGED <<greeted, thread, waiting, poolVars, accepts, player, client, refs, late>>

(* Tasks that come and go without leaving anything here: creatures think,  *)
(* players act.                                                            *)

\* Player::sendPing without an answer, an idle player, a dead one:
\* ProtocolGame::logout by force, or Game::removeCreature without a client.
Kick(o) ==
    /\ place[o] = "world"
    /\ IF client[o] = NoConn THEN UNCHANGED netVars
       ELSE Unlocked(client[o]) /\ Become(Disconnect(Net, client[o]))
    /\ place' = Removed(o)
    /\ UNCHANGED <<greeted, thread, waiting, poolVars, accepts, player, client, refs, late>>

\* Creature::onDeath removes a player from the map and leaves it its client.
Die(o) ==
    /\ place[o] = "world"
    /\ place' = Removed(o)
    /\ UNCHANGED <<greeted, thread, waiting, netVars, poolVars, accepts,
                   player, client, refs, late>>

\* Game::cleanup, after another of checkCreatureLists than that of o.
Cleanup(o) ==
    /\ place[o] = "removed"
    /\ place' = [place EXCEPT ![o] = "listed"]
    /\ refs' = [refs EXCEPT ![o] = Decrement(@)]
    /\ UNCHANGED <<greeted, thread, waiting, netVars, poolVars, accepts, player, client, late>>

\* Game::checkCreatures, of the list that has o, and the cleanup that ends it.
Unlist(o) ==
    /\ place[o] \in {"removed", "listed"}
    /\ place' = [place EXCEPT ![o] = "gone"]
    /\ refs' = [refs EXCEPT ![o] = IF place[o] = "removed" THEN Decrement(Decrement(@))
                                   ELSE Decrement(@)]
    /\ UNCHANGED <<greeted, thread, waiting, netVars, poolVars, accepts, player, client, late>>

\* A message of the game that does not go through the buffer or overfills it.
Speak(c) ==
    /\ player[c] # NoPlayer
    /\ Unlocked(c)
    /\ Become(Send(Net, c))
    /\ UNCHANGED <<greeted, thread, waiting, poolVars, accepts, playerVars>>

(* The scheduler.                                                          *)

ConnectDue(c) ==
    /\ c \in waiting /\ Room
    /\ waiting' = waiting \ {c}
    /\ Become(Enqueue(Net, "connect", c))
    /\ UNCHANGED <<greeted, thread, poolVars, accepts, playerVars>>

\* Mutant of SendAll: it goes on only while something was there to be sent.
SendAllOnce ==
    /\ armed > 0
    /\ \E full \in SUBSET {c \in Conns : autosend[c] > 0} :
        /\ \A c \in full : Unlocked(c)
        /\ conn' = [c \in Conns |-> IF c \in full THEN Send(Net, c).conn[c] ELSE conn[c]]
        /\ armed' = IF full # {} THEN armed ELSE armed - 1
    /\ UNCHANGED <<greeted, thread, queue, waiting, autosend, accepts, playerVars>>

\* OutputMessagePool::sendAll, for the protocols that have something buffered.  It
\* does the same wherever in the queue it is, so it is not put there.
SendAll ==
    /\ armed > 0
    /\ \E full \in SUBSET {c \in Conns : autosend[c] > 0} :
        /\ \A c \in full : Unlocked(c)
        /\ conn' = [c \in Conns |-> IF c \in full THEN Send(Net, c).conn[c] ELSE conn[c]]
    /\ armed' = IF \E c \in Conns : autosend[c] > 0 THEN armed ELSE armed - 1
    /\ UNCHANGED <<greeted, thread, queue, waiting, autosend, accepts, playerVars>>

-----------------------------------------------------------------------------

Handle(c) ==
    \/ Accept(c) \/ FirstMessage(c)
    \/ ReadFails(c) \/ ReadTooLate(c) \/ ReadTooMany(c)
    \/ BeginPacket(c) \/ EndPacket(c)
    \/ Wrote(c) \/ WriteFails(c) \/ Timeout(c)

RunTask ==
    \E c \in Conns :
        \/ OnConnect(c) \/ Release(c) \/ Logout(c) \/ ConnectLater(c)
        \/ LoginUnknown(c) \/ LoginRefused(c) \/ LoginEnters(c)
        \/ LoginTwice(c) \/ LoginReplaces(c) \/ LoginConnects(c)

Next ==
    \/ Return \/ \E c \in Conns : Handle(c)
    \/ RunTask
    \/ \E o \in Conns : Kick(o) \/ Die(o) \/ Cleanup(o) \/ Unlist(o) \/ Speak(o)
    \/ SendAll \/ \E c \in Conns : ConnectDue(c)

Spec == Init /\ [][Next]_vars

\* A socket closed on this side ends its pending read and its pending write; a
\* write that does not end has a timer.
Settles(c) ==
    /\ conn[c].phase = "disconnected"
    /\ ReadFails(c) \/ Wrote(c) \/ WriteFails(c) \/ Timeout(c)

FairSpec ==
    /\ Spec
    /\ SF_vars(RunTask)
    /\ WF_vars(Return)
    /\ \A c \in Conns : /\ WF_vars(EndPacket(c))
                        /\ SF_vars(Settles(c))
                        /\ WF_vars(ConnectDue(c))

-----------------------------------------------------------------------------
(* Properties.                                                             *)

(***************************************************************************)
(* A protocol has a player exactly as long as that player has it as its    *)
(* client, through every login, replacement and release; so two clients    *)
(* never share a character, and release always knows which of them it is.  *)
(***************************************************************************)
AttachmentMutual == \A c, o \in Conns : player[c] = o <=> client[o] = c

(***************************************************************************)
(* A Player has one reference for each that can reach it: its protocol,    *)
(* the map (or the list of what is to be released), the list of creatures  *)
(* to check.  So it is deleted when the last lets go and not before, in    *)
(* whatever order they do.  One that could not be loaded is the exception: *)
(* release gives back a reference that login never took.                   *)
(***************************************************************************)
Holders(o) ==
    Cardinality({c \in Conns : player[c] = o})
    + CASE place[o] \in {"world", "removed"} -> 2
        [] place[o] = "listed" -> 1
        [] OTHER -> 0

RefsBalance == \A o \in Conns : place[o] = "failed" \/ refs[o] = Holders(o)

(***************************************************************************)
(* While the network thread is inside parsePacket, the dispatcher does not *)
(* take the player away that it points at, although neither the pointer    *)
(* nor the player has a lock: the connection is open and its lock taken,   *)
(* so no close of it, and no release, can be on its way.  And what it asks *)
(* of the dispatcher, with a bare Player* in the task (protocolgame.cpp:   *)
(* 572), runs before any release.                                          *)
(***************************************************************************)
Asked(c, k) == queue[k] = Task("logout", c)

PacketKeepsPlayer ==
    \A c \in Conns :
        /\ thread = [in |-> "packet", on |-> c] => player[c] # NoPlayer /\ ~Queued("release", c)
        /\ \A k \in DOMAIN queue : Asked(c, k) =>
               /\ player[c] # NoPlayer
               /\ \A j \in 1 .. k : queue[j] # Task("release", c)

(***************************************************************************)
(* A player attached to a connection that is closed has a release to come, *)
(* which detaches it ("to prevent leakage of the Player"), except one that *)
(* was attached late.                                                      *)
(***************************************************************************)
NoOrphan ==
    \A c \in Conns : player[c] # NoPlayer /\ c \notin late =>
        conn[c].phase = "open" \/ Queued("release", c)

(***************************************************************************)
(* While a protocol waits for its output to be sent, a sendAll is armed;   *)
(* and no protocol stays in the list after its last release, or is in it   *)
(* twice.                                                                  *)
(***************************************************************************)
AutosendCovered ==
    \A c \in Conns : autosend[c] > 0 =>
        /\ armed > 0
        /\ autosend[c] = 1
        /\ conn[c].phase = "open" \/ Queued("release", c)

(***************************************************************************)
(* A connection that is closed, by whichever thread, with or without       *)
(* output pending, comes to its end: its socket is closed, no handler      *)
(* holds it, it sends no more and the player is free for another client.   *)
(***************************************************************************)
Forgotten(c) == /\ Expired(c) /\ ~conn[c].socket
                /\ autosend[c] = 0
                /\ player[c] = NoPlayer \/ c \in late

ClosedIsForgotten ==
    \A c \in Conns : conn[c].phase = "disconnected" ~> Forgotten(c)
=============================================================================
