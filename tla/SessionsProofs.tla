---------------------------- MODULE SessionsProofs ----------------------------
(***************************************************************************)
(* Theorems about the sessions, for any connections, characters and length *)
(* of the dispatcher's queue.  The invariant IInv adds to the properties   *)
(* of the module Sessions what they rest on: the order of the tasks in the *)
(* queue, and that a login runs at most once for a connection.             *)
(***************************************************************************)
EXTENDS Sessions, FiniteSetTheorems, TLAPS

USE SessionsAssumption

-----------------------------------------------------------------------------
(* The queue.                                                              *)

In(q, t) == \E k \in DOMAIN q : q[k] = t

\* No task is put twice of those that run once, and what follows a pointer to
\* the player comes before the release that takes it away.
Sorted(q) ==
    /\ \A c \in Conns : \A j, k \in DOMAIN q :
         q[j] = q[k] /\ q[j] \in {Task("login", c), Task("connect", c)} => j = k
    /\ \A c \in Conns : \A j, k \in DOMAIN q :
         q[j] = Task("release", c) /\ q[k] \in {Task("login", c), Task("logout", c)} => k < j

\* A task that does not disturb the order at the end of the queue.
Fits(q, t) ==
    /\ t.does \in {"login", "connect"} => ~In(q, t)
    /\ t.does \in {"login", "logout"} => ~In(q, Task("release", t.for))

LEMMA Push ==
    ASSUME NEW q \in Seq(Tasks), NEW t \in Tasks, Sorted(q), Fits(q, t)
    PROVE  /\ Append(q, t) \in Seq(Tasks)
           /\ Sorted(Append(q, t))
           /\ \A u : In(Append(q, t), u) <=> (u = t \/ In(q, u))
  <1> DEFINE a == Append(q, t)
  <1>1. /\ a \in Seq(Tasks)
        /\ Len(q) \in Nat
        /\ DOMAIN q = 1 .. Len(q)
        /\ DOMAIN a = 1 .. Len(q) + 1
        /\ a[Len(q) + 1] = t
        /\ \A i \in 1 .. Len(q) : a[i] = q[i]
    OBVIOUS
  <1> HIDE DEF a
  <1>2. \A u : In(a, u) <=> (u = t \/ In(q, u))
    BY <1>1 DEF In
  <1>3. ASSUME NEW c \in Conns, NEW j \in DOMAIN a, NEW k \in DOMAIN a, a[j] = a[k],
               a[j] \in {Task("login", c), Task("connect", c)}
        PROVE  j = k
    <2>1. CASE j \in DOMAIN q /\ k \in DOMAIN q
      BY <1>1, <1>3, <2>1 DEF Sorted
    <2>2. CASE j = Len(q) + 1 \/ k = Len(q) + 1
      BY <1>1, <1>3, <2>2 DEF Fits, In, Task
    <2> QED BY <1>1, <2>1, <2>2
  <1>4. ASSUME NEW c \in Conns, NEW j \in DOMAIN a, NEW k \in DOMAIN a,
               a[j] = Task("release", c),
               a[k] \in {Task("login", c), Task("logout", c)}
        PROVE  k < j
    <2>1. CASE j \in DOMAIN q /\ k \in DOMAIN q
      BY <1>1, <1>4, <2>1 DEF Sorted
    <2>2. CASE j = Len(q) + 1 /\ k # Len(q) + 1
      BY <1>1, <2>2
    <2>3. CASE k = Len(q) + 1
      BY <1>1, <1>4, <2>3 DEF Fits, In, Task
    <2> QED BY <1>1, <2>1, <2>2, <2>3
  <1> QED BY <1>1, <1>2, <1>3, <1>4 DEF a, Sorted

LEMMA Pop ==
    ASSUME NEW q \in Seq(Tasks), q # <<>>, Sorted(q)
    PROVE  /\ Tail(q) \in Seq(Tasks)
           /\ Sorted(Tail(q))
           /\ Head(q) \in Tasks
           /\ In(q, Head(q))
           /\ \A u : In(Tail(q), u) => In(q, u)
           /\ \A u : In(q, u) => u = Head(q) \/ In(Tail(q), u)
           /\ Head(q).does \in {"login", "connect"} => ~In(Tail(q), Head(q))
           /\ \A c \in Conns : Head(q) = Task("release", c) =>
                ~In(q, Task("login", c)) /\ ~In(q, Task("logout", c))
  <1> DEFINE a == Tail(q)
  <1>1. /\ a \in Seq(Tasks)
        /\ Len(a) \in Nat
        /\ Len(q) = Len(a) + 1
        /\ DOMAIN q = 1 .. Len(q)
        /\ DOMAIN a = 1 .. Len(a)
        /\ Head(q) = q[1]
        /\ Head(q) \in Tasks
        /\ \A i \in 1 .. Len(a) : a[i] = q[i + 1]
    OBVIOUS
  <1> HIDE DEF a
  <1>2. \A i \in DOMAIN a : i + 1 \in DOMAIN q /\ a[i] = q[i + 1]
    BY <1>1
  <1>3. \A i \in DOMAIN q : i = 1 \/ (i - 1 \in DOMAIN a /\ q[i] = a[i - 1])
    BY <1>1
  <1>4. Sorted(a)
    <2>1. ASSUME NEW c \in Conns, NEW j \in DOMAIN a, NEW k \in DOMAIN a, a[j] = a[k],
                 a[j] \in {Task("login", c), Task("connect", c)}
          PROVE  j = k
      <3>1. j + 1 = k + 1
        BY <1>2, <2>1 DEF Sorted
      <3> QED BY <1>1, <3>1
    <2>2. ASSUME NEW c \in Conns, NEW j \in DOMAIN a, NEW k \in DOMAIN a,
                 a[j] = Task("release", c),
                 a[k] \in {Task("login", c), Task("logout", c)}
          PROVE  k < j
      <3>1. k + 1 < j + 1
        BY <1>2, <2>2 DEF Sorted
      <3> QED BY <1>1, <3>1
    <2> QED BY <2>1, <2>2 DEF Sorted
  <1>5. /\ In(q, Head(q))
        /\ \A u : In(a, u) => In(q, u)
        /\ \A u : In(q, u) => u = Head(q) \/ In(a, u)
    <2>1. In(q, Head(q))
      BY <1>1 DEF In
    <2>2. ASSUME NEW u, In(a, u) PROVE In(q, u)
      BY <1>2, <2>2 DEF In
    <2>3. ASSUME NEW u, In(q, u) PROVE u = Head(q) \/ In(a, u)
      BY <1>1, <1>3, <2>3 DEF In
    <2> QED BY <2>1, <2>2, <2>3
  <1>6. Head(q).does \in {"login", "connect"} => ~In(a, Head(q))
    <2>1. SUFFICES ASSUME Head(q).does \in {"login", "connect"},
                          NEW i \in DOMAIN a, a[i] = Head(q)
                   PROVE  FALSE
      BY DEF In
    <2>2. /\ 1 \in DOMAIN q /\ i + 1 \in DOMAIN q /\ i + 1 # 1
          /\ q[1] = q[i + 1]
          /\ q[1] \in {Task("login", q[1].for), Task("connect", q[1].for)}
          /\ q[1].for \in Conns
      BY <1>1, <1>2, <2>1, SMTT(30) DEF Task, Tasks
    <2> QED BY <2>2 DEF Sorted
  <1>7. ASSUME NEW c \in Conns, Head(q) = Task("release", c)
        PROVE  ~In(q, Task("login", c)) /\ ~In(q, Task("logout", c))
    <2>1. \A k \in DOMAIN q : ~(k < 1) /\ 1 \in DOMAIN q
      BY <1>1
    <2> QED BY <1>1, <1>7, <2>1 DEF In, Sorted
  <1> QED BY <1>1, <1>4, <1>5, <1>6, <1>7 DEF a
-----------------------------------------------------------------------------
(* The calls on a connection.                                              *)

ConnType == [Conns -> [phase : Phases, socket : BOOLEAN, reading : BOOLEAN, writing : BOOLEAN]]
NetType == [conn : ConnType, queue : Seq(Tasks)]

LEMMA SendNet ==
    ASSUME NEW n \in NetType, NEW c \in Conns
    PROVE  /\ Send(n, c) \in NetType
           /\ Send(n, c).queue = n.queue
           /\ \A d \in Conns : Send(n, c).conn[d].phase = n.conn[d].phase
           /\ \A d \in Conns : d # c => Send(n, c).conn[d] = n.conn[d]
  BY ZenonT(40) DEF Send, NetType, ConnType

LEMMA CloseNet ==
    ASSUME NEW n \in NetType, NEW c \in Conns, NEW force \in BOOLEAN
    PROVE  /\ Close(n, c, force) \in NetType
           /\ Close(n, c, force).queue = Append(n.queue, Task("release", c))
           /\ \A d \in Conns : Close(n, c, force).conn[d].phase =
                                IF d = c THEN "disconnected" ELSE n.conn[d].phase
  <1>1. Task("release", c) \in Tasks
    BY DEF Task, Tasks
  <1> DEFINE r == [n.conn[c] EXCEPT !.phase = "disconnected",
                                    !.socket = @ /\ n.conn[c].writing /\ ~force]
             m == [n EXCEPT !.conn[c] = r]
  <1>2. r \in [phase : Phases, socket : BOOLEAN, reading : BOOLEAN, writing : BOOLEAN]
        /\ r.phase = "disconnected"
    BY DEF NetType, ConnType, Phases
  <1>3. Close(n, c, force) = [m EXCEPT !.queue = Append(@, Task("release", c))]
    BY DEF Close, Enqueue
  <1> HIDE DEF r
  <1>4. /\ m \in NetType
        /\ m.queue = n.queue
        /\ \A d \in Conns : m.conn[d] = IF d = c THEN r ELSE n.conn[d]
    BY <1>2 DEF NetType, ConnType
  <1> HIDE DEF m
  <1>5. /\ [m EXCEPT !.queue = Append(@, Task("release", c))].conn = m.conn
        /\ [m EXCEPT !.queue = Append(@, Task("release", c))].queue =
             Append(n.queue, Task("release", c))
        /\ [m EXCEPT !.queue = Append(@, Task("release", c))] \in NetType
    <2> DEFINE a == Append(m.queue, Task("release", c))
    <2>1. a \in Seq(Tasks) /\ m.queue = n.queue
      BY <1>1, <1>4 DEF NetType
    <2> HIDE DEF a
    <2>2. [m EXCEPT !.queue = a].conn = m.conn /\ [m EXCEPT !.queue = a].queue = a
          /\ [m EXCEPT !.queue = a] \in NetType
      BY <1>4, <2>1 DEF NetType
    <2> QED BY <2>1, <2>2 DEF a
  <1> QED BY <1>2, <1>3, <1>4, <1>5

\* m differs from n in nothing but what is pending on the sockets.
Alike(m, n) ==
    /\ m \in NetType /\ n \in NetType
    /\ m.queue = n.queue
    /\ \A d \in Conns : m.conn[d].phase = n.conn[d].phase

\* What the calls above make of n, when the connection is c.
Goes(n, c) ==
    /\ conn' \in ConnType /\ queue' \in Seq(Tasks)
    /\ Sorted(queue')
    /\ \A u : In(n.queue, u) => In(queue', u)
    /\ \A u : In(queue', u) =>
         In(n.queue, u) \/ (u = Task("release", c) /\ conn'[c].phase = "disconnected")
    /\ \A d \in Conns :
         \/ conn'[d].phase = n.conn[d].phase
         \/ d = c /\ conn'[d].phase = "disconnected" /\ In(queue', Task("release", d))

LEMMA GoesAlike ==
    ASSUME NEW m, NEW n, NEW c, Alike(m, n), Sorted(n.queue), Become(m)
    PROVE  Goes(n, c)
  BY DEF Alike, Goes, Become, NetType

LEMMA GoesClose ==
    ASSUME NEW m, NEW n, NEW c \in Conns, NEW force \in BOOLEAN,
           Alike(m, n), Sorted(n.queue), Become(Close(m, c, force))
    PROVE  Goes(n, c) /\ conn'[c].phase = "disconnected"
  <1>1. /\ conn' \in ConnType
        /\ queue' = Append(n.queue, Task("release", c))
        /\ \A d \in Conns : conn'[d].phase = IF d = c THEN "disconnected" ELSE n.conn[d].phase
    BY CloseNet DEF Alike, Become, NetType
  <1>2. Task("release", c) \in Tasks /\ Fits(n.queue, Task("release", c))
    BY DEF Task, Tasks, Fits
  <1>3. /\ queue' \in Seq(Tasks)
        /\ Sorted(queue')
        /\ \A u : In(queue', u) <=> (u = Task("release", c) \/ In(n.queue, u))
    BY <1>1, <1>2, Push DEF Alike, NetType
  <1> QED BY <1>1, <1>3 DEF Goes

LEMMA GoesDisconnect ==
    ASSUME NEW m, NEW n, NEW c \in Conns,
           Alike(m, n), Sorted(n.queue),
           Become(Disconnect(m, c)) \/ Become(DisconnectClient(m, c))
    PROVE  Goes(n, c) /\ conn'[c].phase = "disconnected"
  <1>1. ASSUME NEW k, Alike(k, n), Become(Disconnect(k, c))
        PROVE  Goes(n, c) /\ conn'[c].phase = "disconnected"
    <2>1. CASE ExpiredIn(k, c)
      BY <1>1, <2>1, GoesAlike DEF Disconnect, ExpiredIn, Become
    <2>2. CASE ~ExpiredIn(k, c)
      BY <1>1, <2>2, GoesClose DEF Disconnect
    <2> QED BY <2>1, <2>2
  <1>2. Alike(Send(m, c), n)
    BY SendNet DEF Alike
  <1> QED BY <1>1, <1>2 DEF DisconnectClient

-----------------------------------------------------------------------------
(* The strengthening.                                                      *)

\* Nothing has been done yet for the player that a login of c would create.
Untouched(c) ==
    /\ player[c] = NoPlayer /\ client[c] = NoConn
    /\ refs[c] = 0 /\ place[c] = "none"
    /\ autosend[c] = 0 /\ c \notin accepts

(* A login runs once for a connection, and a connect after it.             *)
OneLogin ==
    \A c \in Conns :
        /\ c \notin greeted => /\ ~Queued("login", c) /\ ~Queued("connect", c)
                              /\ c \notin waiting
        /\ c \in greeted => conn[c].phase # "pending"
        /\ c \notin greeted \/ Queued("login", c) => Untouched(c)
        /\ Queued("login", c) => c \notin waiting /\ ~Queued("connect", c)
        /\ c \in waiting => ~Queued("connect", c)
        /\ c \in waiting \/ Queued("connect", c) => player[c] = NoPlayer

(* A release is asked for when a connection is closed, and not before, and *)
(* so whoever is attached to it learns of it.                              *)
Closing ==
    \A c \in Conns :
        /\ Queued("release", c) => conn[c].phase = "disconnected"
        /\ Queued("login", c) => conn[c].phase = "open" \/ Queued("release", c)
        /\ Queued("logout", c) => player[c] # NoPlayer
        /\ c \in accepts => player[c] # NoPlayer \/ conn[c].phase = "disconnected"

(* The handler of a packet works on an open connection with a player.      *)
PacketOpen ==
    thread.in = "packet" =>
        thread.on \in Conns /\ conn[thread.on].phase = "open" /\ player[thread.on] # NoPlayer

(* RefsBalance, with the only protocol that a player can have counted by   *)
(* Player::client.                                                         *)
Weight(o) ==
    (IF client[o] = NoConn THEN 0 ELSE 1)
    + CASE place[o] \in {"world", "removed"} -> 2
        [] place[o] = "listed" -> 1
        [] OTHER -> 0

Counted == \A o \in Conns : place[o] = "failed" \/ refs[o] = Weight(o)

IInv == /\ TypeOK
        /\ Sorted(queue)
        /\ OneLogin
        /\ Closing
        /\ PacketOpen
        /\ AttachmentMutual
        /\ Counted
        /\ NoOrphan
        /\ AutosendCovered

LEMMA InitIInv == Init => IInv
  <1> SUFFICES ASSUME Init PROVE IInv
    OBVIOUS
  <1>1. TypeOK
    BY DEF Init, TypeOK, Phases, Handlers, Stations
  <1>2. OneLogin /\ Closing /\ PacketOpen
    BY DEF Init, OneLogin, Closing, PacketOpen, Untouched, Queued
  <1>3. Sorted(queue) /\ AttachmentMutual /\ NoOrphan /\ AutosendCovered
    BY DEF Init, Sorted, AttachmentMutual, NoOrphan, AutosendCovered
  <1>4. Counted
    BY DEF Init, Counted, Weight
  <1> QED BY <1>1, <1>2, <1>3, <1>4 DEF IInv

\* IInv in terms of In, which the lemmas on the queue speak of.
LEMMA NetFacts ==
    ASSUME IInv
    PROVE  /\ Net \in NetType /\ Alike(Net, Net)
           /\ Net.queue = queue /\ Net.conn = conn
           /\ Sorted(queue)
           /\ \A c : Queued("login", c) <=> In(queue, Task("login", c))
           /\ \A c : Queued("connect", c) <=> In(queue, Task("connect", c))
           /\ \A c : Queued("logout", c) <=> In(queue, Task("logout", c))
           /\ \A c : Queued("release", c) <=> In(queue, Task("release", c))
  BY DEF IInv, TypeOK, Net, NetType, ConnType, Alike, Queued, In

LEMMA TasksDiffer ==
    \A d, e, c, x : Task(d, c) = Task(e, x) => d = e /\ c = x
  BY DEF Task

\* What a step may do to the network thread that leaves the players alone.
ThreadNext ==
    /\ thread' \in [in : Handlers, on : Conns \cup {NoConn}]
    /\ thread'.in = "packet" =>
         /\ thread'.on \in Conns
         /\ conn'[thread'.on].phase = "open"
         /\ player[thread'.on] # NoPlayer

(* The steps that take nothing from the queue, and put there at most a     *)
(* release of the connection that they close.                              *)
LEMMA NetStep ==
    ASSUME IInv, NEW c, Goes(Net, c),
           ThreadNext,
           \/ greeted' = greeted
           \/ c \in Conns /\ conn[c].phase # "pending" /\ greeted' = greeted \cup {c},
           UNCHANGED <<waiting, autosend, accepts, player, client, late>>,
           armed' \in Nat, armed' = 0 => armed = 0 \/ \A d \in Conns : autosend[d] = 0,
           refs' \in [Conns -> 0 .. RefMod - 1], place' \in [Conns -> Stations],
           \A o \in Conns : place[o] = "none" => place'[o] = place[o] /\ refs'[o] = refs[o],
           Counted'
    PROVE  IInv'
  <1>1. /\ \A d, x : Queued(d, x)' <=> In(queue', Task(d, x))
        /\ \A d, x : Queued(d, x) <=> In(queue, Task(d, x))
    BY DEF Queued, In
  <1>2. /\ \A x : Queued("login", x)' <=> Queued("login", x)
        /\ \A x : Queued("connect", x)' <=> Queued("connect", x)
        /\ \A x : Queued("logout", x)' <=> Queued("logout", x)
        /\ \A x : Queued("release", x) => Queued("release", x)'
        /\ \A x : Queued("release", x)' =>
             Queued("release", x) \/ (x = c /\ conn'[x].phase = "disconnected")
    BY <1>1, NetFacts, TasksDiffer DEF Goes
  <1>3. \A d \in Conns : \/ conn'[d].phase = conn[d].phase
                         \/ d = c /\ conn'[d].phase = "disconnected" /\ Queued("release", d)'
    BY <1>1, NetFacts DEF Goes
  <1>4. TypeOK' /\ Sorted(queue')
    BY DEF ThreadNext, IInv, TypeOK, Goes, ConnType
  <1>5. OneLogin'
    <2>1. SUFFICES ASSUME NEW d \in Conns PROVE OneLogin!(d)'
      BY DEF OneLogin
    <2>2. Untouched(d) => Untouched(d)'
      BY DEF Untouched, IInv, TypeOK
    <2>3. d \in greeted => d \in greeted'
      OBVIOUS
    <2>4. d \in greeted' => conn'[d].phase # "pending"
      BY <1>3 DEF IInv, OneLogin
    <2> QED BY <1>2, <2>2, <2>3, <2>4 DEF IInv, OneLogin
  <1>6. Closing' /\ PacketOpen'
    BY <1>2, <1>3 DEF ThreadNext, IInv, TypeOK, Closing, PacketOpen
  <1>7. AttachmentMutual' /\ NoOrphan'
    BY <1>2, <1>3 DEF IInv, AttachmentMutual, NoOrphan
  <1>8. AutosendCovered'
    BY <1>2, <1>3 DEF IInv, TypeOK, AutosendCovered
  <1> QED BY <1>4, <1>5, <1>6, <1>7, <1>8 DEF IInv

\* A handler may leave the network thread holding its connection, or nothing.
LEMMA Leaves ==
    ASSUME IInv, NEW c \in Conns,
           Returning(c) \/ thread' = [in |-> "none", on |-> NoConn]
    PROVE  ThreadNext
  BY DEF ThreadNext, Returning, Handlers

\* The steps that change nothing but the connections and the thread.
LEMMA QuietStep ==
    ASSUME IInv, NEW c, Goes(Net, c),
           ThreadNext,
           \/ greeted' = greeted
           \/ c \in Conns /\ conn[c].phase # "pending" /\ greeted' = greeted \cup {c},
           UNCHANGED <<waiting, poolVars, accepts, playerVars>>
    PROVE  IInv'
  <1>1. /\ UNCHANGED <<waiting, autosend, accepts, player, client, late>>
        /\ UNCHANGED <<armed, refs, place>>
    BY DEF poolVars, playerVars
  <1>2. /\ armed' \in Nat
        /\ armed' = 0 => armed = 0
        /\ refs' \in [Conns -> 0 .. RefMod - 1] /\ place' \in [Conns -> Stations]
        /\ Counted'
    BY <1>1 DEF IInv, TypeOK, Counted, Weight
  <1>3. \A o \in Conns : place[o] = "none" => place'[o] = place[o] /\ refs'[o] = refs[o]
    BY <1>1
  <1> QED BY <1>1, <1>2, <1>3, NetStep

LEMMA ThreadStays ==
    ASSUME IInv, NEW c, Goes(Net, c), thread' = thread, UNCHANGED player,
           c \in Conns => Unlocked(c) \/ conn'[c].phase = conn[c].phase
    PROVE  ThreadNext
  <1>1. thread \in [in : Handlers, on : Conns \cup {NoConn}]
    BY DEF IInv, TypeOK
  <1> QED BY <1>1, NetFacts DEF ThreadNext, IInv, PacketOpen, Goes, Unlocked

LEMMA CloseStep ==
    ASSUME IInv, NEW c \in Conns,
           ReadFails(c) \/ ReadTooMany(c) \/ WriteFails(c) \/ Timeout(c)
    PROVE  IInv'
  <1>1. ASSUME NEW n, Alike(n, Net), NEW force \in BOOLEAN, Become(Close(n, c, force))
        PROVE  Goes(Net, c)
    BY <1>1, GoesClose, NetFacts
  <1>2. Alike(ReadDone(Net, c), Net)
    BY NetFacts DEF ReadDone, Alike, NetType, ConnType
  <1>3. Alike([Net EXCEPT !.conn[c].writing = FALSE], Net)
    BY NetFacts DEF Alike, NetType, ConnType
  <1>4. Goes(Net, c)
    BY <1>1, <1>2, <1>3, NetFacts DEF ReadFails, ReadTooMany, WriteFails, Timeout
  <1>5. Returning(c) /\ greeted' = greeted /\ UNCHANGED <<waiting, poolVars, accepts, playerVars>>
    BY DEF ReadFails, ReadTooMany, WriteFails, Timeout
  <1>6. ThreadNext
    BY <1>5, Leaves
  <1> QED BY <1>4, <1>5, <1>6, QuietStep

LEMMA ReturnStep == ASSUME IInv, Return PROVE IInv'
  <1>1. Become(Net)
    BY DEF Return, Become, Net, netVars
  <1>2. Goes(Net, NoConn)
    BY <1>1, GoesAlike, NetFacts
  <1>3. ThreadNext
    BY DEF ThreadNext, Return, Handlers
  <1> QED BY <1>2, <1>3, QuietStep DEF Return

LEMMA ReadStep ==
    ASSUME IInv, NEW c \in Conns, ReadTooLate(c) \/ BeginPacket(c) \/ Wrote(c)
    PROVE  IInv'
  <1>1. Alike(ReadDone(Net, c), Net)
    BY NetFacts DEF ReadDone, Alike, NetType, ConnType
  <1>2. Goes(Net, c) /\ \A d \in Conns : conn'[d].phase = conn[d].phase
    <2>1. CASE ReadTooLate(c) \/ BeginPacket(c)
      <3>1. Become(ReadDone(Net, c))
        BY <2>1 DEF ReadTooLate, BeginPacket
      <3>2. Goes(Net, c)
        BY <1>1, <3>1, GoesAlike, NetFacts
      <3>3. \A d \in Conns : conn'[d].phase = conn[d].phase
        BY <1>1, <3>1, NetFacts DEF Alike, Become
      <3> QED BY <3>2, <3>3
    <2>2. CASE Wrote(c)
      <3> DEFINE r == [conn[c] EXCEPT !.writing = FALSE,
                                      !.socket = @ /\ conn[c].phase = "open"]
      <3>1. conn' = [conn EXCEPT ![c] = r]
        BY <2>2, Zenon DEF Wrote
      <3>2. /\ r \in [phase : Phases, socket : BOOLEAN, reading : BOOLEAN, writing : BOOLEAN]
            /\ r.phase = conn[c].phase
        <4>1. conn[c] \in [phase : Phases, socket : BOOLEAN, reading : BOOLEAN, writing : BOOLEAN]
          BY DEF IInv, TypeOK
        <4> QED BY <4>1
      <3> HIDE DEF r
      <3>3. conn' \in ConnType /\ \A d \in Conns : conn'[d].phase = conn[d].phase
        BY <3>1, <3>2 DEF IInv, TypeOK, ConnType
      <3> QED BY <2>2, <3>3, NetFacts DEF Goes, Wrote, IInv, TypeOK
    <2> QED BY <2>1, <2>2
  <1>3. greeted' = greeted /\ UNCHANGED <<waiting, poolVars, accepts, playerVars>>
    BY DEF ReadTooLate, BeginPacket, Wrote
  <1>4. CASE BeginPacket(c)
    <2>1. thread' = [in |-> "packet", on |-> c] /\ conn[c].phase = "open" /\ player[c] # NoPlayer
      BY <1>4 DEF BeginPacket, IInv, Closing
    <2>2. ThreadNext
      BY <1>2, <2>1 DEF ThreadNext, Handlers
    <2>3. Goes(Net, c) /\ greeted' = greeted
      BY <1>2, <1>3
    <2> QED BY <1>3, <2>2, <2>3, QuietStep
  <1>5. CASE ReadTooLate(c) \/ Wrote(c)
    <2>1. thread' = thread /\ UNCHANGED player
      BY <1>5 DEF ReadTooLate, Wrote, playerVars
    <2>2. ThreadNext
      BY <1>2, <2>1, ThreadStays
    <2> QED BY <1>2, <1>3, <2>2, QuietStep
  <1> QED BY <1>4, <1>5

LEMMA EnqueueFacts ==
    ASSUME IInv, NEW n, Alike(n, Net),
           NEW does \in {"onConnect", "login", "connect", "logout"}, NEW c \in Conns,
           Fits(queue, Task(does, c)), Become(Enqueue(n, does, c))
    PROVE  /\ conn' \in ConnType /\ queue' \in Seq(Tasks) /\ Sorted(queue')
           /\ \A d \in Conns : conn'[d].phase = n.conn[d].phase
           /\ \A k, d : Queued(k, d)' <=> Queued(k, d) \/ (k = does /\ d = c)
  <1>1. Task(does, c) \in Tasks
    BY DEF Task, Tasks
  <1>2. /\ conn' = n.conn /\ conn' \in ConnType
        /\ queue' = Append(queue, Task(does, c))
    <2> DEFINE a == Append(n.queue, Task(does, c))
    <2>1. n \in NetType /\ n.queue = queue
      BY NetFacts DEF Alike
    <2> HIDE DEF a
    <2>2. [n EXCEPT !.queue = a].conn = n.conn /\ [n EXCEPT !.queue = a].queue = a
      BY <2>1 DEF NetType
    <2> QED BY <2>1, <2>2 DEF a, Become, Enqueue, NetType
  <1>3. /\ queue' \in Seq(Tasks) /\ Sorted(queue')
        /\ \A u : In(queue', u) <=> (u = Task(does, c) \/ In(queue, u))
    BY <1>1, <1>2, Push, NetFacts DEF IInv, TypeOK
  <1>4. \A k, d : Queued(k, d)' <=> Queued(k, d) \/ (k = does /\ d = c)
    <2>1. \A k, d : /\ Queued(k, d) <=> In(queue, Task(k, d))
                    /\ Queued(k, d)' <=> In(queue', Task(k, d))
      BY DEF Queued, In
    <2> QED BY <1>3, <2>1, TasksDiffer
  <1> QED BY <1>2, <1>3, <1>4

LEMMA FirstMessageStep ==
    ASSUME IInv, NEW c \in Conns, FirstMessage(c)
    PROVE  IInv'
  <1>1. /\ conn[c].phase = "open" /\ c \notin greeted
        /\ greeted' = greeted \cup {c}
        /\ UNCHANGED <<waiting, poolVars, accepts, playerVars>>
    BY DEF FirstMessage
  <1>2. CASE Become(Enqueue(Net, "login", c)) /\ UNCHANGED thread
    <2>1. ~Queued("login", c) /\ ~Queued("release", c)
      BY <1>1 DEF IInv, OneLogin, Closing
    <2>2. Fits(queue, Task("login", c))
      BY <2>1, NetFacts DEF Fits, Task
    <2>3. /\ conn' \in ConnType /\ queue' \in Seq(Tasks) /\ Sorted(queue')
          /\ \A d \in Conns : conn'[d].phase = conn[d].phase
          /\ \A k, d : Queued(k, d)' <=> Queued(k, d) \/ (k = "login" /\ d = c)
      BY <1>2, <2>2, EnqueueFacts, NetFacts
    <2>4. UNCHANGED <<waiting, armed, autosend, accepts, player, client, refs, place, late>>
      BY <1>1 DEF poolVars, playerVars
    <2>5. TypeOK'
      BY <1>1, <1>2, <2>3, <2>4 DEF IInv, TypeOK, ConnType
    <2>6. OneLogin'
      BY <1>1, <2>3, <2>4 DEF IInv, OneLogin, Untouched
    <2>7. Closing' /\ PacketOpen'
      BY <1>1, <1>2, <2>3, <2>4 DEF IInv, TypeOK, Closing, PacketOpen
    <2>8. AttachmentMutual' /\ Counted' /\ NoOrphan' /\ AutosendCovered'
      BY <2>3, <2>4 DEF IInv, AttachmentMutual, Counted, Weight, NoOrphan, AutosendCovered
    <2> QED BY <2>3, <2>5, <2>6, <2>7, <2>8 DEF IInv
  <1>3. CASE /\ \E told \in {Net, Send(Net, c)} : Become(Close(told, c, FALSE))
             /\ Returning(c)
    <2>1. PICK told \in {Net, Send(Net, c)} : Become(Close(told, c, FALSE))
      BY <1>3
    <2>2. Alike(told, Net)
      BY SendNet, NetFacts DEF Alike
    <2>3. Goes(Net, c)
      BY <2>1, <2>2, GoesClose, NetFacts
    <2>4. ThreadNext
      BY <1>3, Leaves
    <2>5. conn[c].phase # "pending"
      BY <1>1
    <2> QED BY <1>1, <2>3, <2>4, <2>5, QuietStep
  <1> QED BY <1>2, <1>3 DEF FirstMessage

LEMMA EndPacketStep ==
    ASSUME IInv, NEW c \in Conns, EndPacket(c)
    PROVE  IInv'
  <1> DEFINE next == [Net EXCEPT !.conn[c].reading = TRUE]
  <1>1. Alike(next, Net)
    BY NetFacts DEF Alike, NetType, ConnType
  <1>2. /\ thread = [in |-> "packet", on |-> c]
        /\ UNCHANGED <<greeted, waiting, poolVars, accepts, playerVars>>
        /\ \/ /\ thread' = [in |-> "none", on |-> NoConn]
              /\ Become(next) \/ Become(Enqueue(next, "logout", c))
           \/ Become(Close(next, c, FALSE)) /\ Returning(c)
    BY Zenon DEF EndPacket
  <1>3. ThreadNext
    BY <1>2, Leaves
  <1> HIDE DEF next
  <1>4. CASE Become(next) \/ Become(Close(next, c, FALSE))
    <2>1. Goes(Net, c)
      BY <1>1, <1>4, GoesAlike, GoesClose, NetFacts
    <2> QED BY <1>2, <1>3, <2>1, QuietStep
  <1>5. CASE Become(Enqueue(next, "logout", c)) /\ thread' = [in |-> "none", on |-> NoConn]
    <2>1. conn[c].phase = "open" /\ player[c] # NoPlayer /\ ~Queued("release", c)
      BY <1>2 DEF IInv, Closing, PacketOpen
    <2>2. Fits(queue, Task("logout", c))
      BY <2>1, NetFacts DEF Fits, Task
    <2>3. /\ conn' \in ConnType /\ queue' \in Seq(Tasks) /\ Sorted(queue')
          /\ \A d \in Conns : conn'[d].phase = conn[d].phase
          /\ \A k, d : Queued(k, d)' <=> Queued(k, d) \/ (k = "logout" /\ d = c)
      BY <1>1, <1>5, <2>2, EnqueueFacts, NetFacts DEF Alike
    <2>4. UNCHANGED <<greeted, waiting, armed, autosend, accepts, player, client, refs, place, late>>
      BY <1>2 DEF poolVars, playerVars
    <2>5. TypeOK'
      BY <1>3, <2>3, <2>4 DEF IInv, TypeOK, ConnType, ThreadNext
    <2>6. OneLogin'
      BY <2>3, <2>4 DEF IInv, OneLogin, Untouched
    <2>7. Closing' /\ PacketOpen'
      BY <1>5, <2>1, <2>3, <2>4 DEF IInv, TypeOK, Closing, PacketOpen
    <2>8. AttachmentMutual' /\ Counted' /\ NoOrphan' /\ AutosendCovered'
      BY <2>3, <2>4 DEF IInv, AttachmentMutual, Counted, Weight, NoOrphan, AutosendCovered
    <2> QED BY <2>3, <2>5, <2>6, <2>7, <2>8 DEF IInv
  <1> QED BY <1>2, <1>4, <1>5

LEMMA AcceptStep ==
    ASSUME IInv, NEW c \in Conns, Accept(c)
    PROVE  IInv'
  <1> DEFINE r == [phase |-> "open", socket |-> TRUE, reading |-> TRUE, writing |-> FALSE]
             n == [Net EXCEPT !.conn[c] = r]
  <1>1. /\ conn[c].phase = "pending"
        /\ Become(Enqueue(n, "onConnect", c))
        /\ UNCHANGED <<greeted, thread, waiting, armed, autosend, accepts,
                       player, client, refs, place, late>>
    BY Zenon DEF Accept, poolVars, playerVars
  <1>2. /\ n \in NetType
        /\ n.queue = queue
        /\ \A d \in Conns : n.conn[d].phase = IF d = c THEN "open" ELSE conn[d].phase
    <2>1. r \in [phase : Phases, socket : BOOLEAN, reading : BOOLEAN, writing : BOOLEAN]
          /\ r.phase = "open"
      BY DEF Phases
    <2> HIDE DEF r
    <2> QED BY <2>1, NetFacts DEF NetType, ConnType
  <1> HIDE DEF n
  <1>3. Task("onConnect", c) \in Tasks /\ Fits(queue, Task("onConnect", c))
    BY DEF Task, Tasks, Fits
  <1>4. /\ conn' = n.conn /\ queue' = Append(queue, Task("onConnect", c))
    BY <1>1, <1>2 DEF Become, Enqueue, NetType
  <1>5. /\ queue' \in Seq(Tasks) /\ Sorted(queue')
        /\ \A u : In(queue', u) <=> (u = Task("onConnect", c) \/ In(queue, u))
    BY <1>3, <1>4, Push, NetFacts DEF IInv, TypeOK
  <1>6. \A k \in {"login", "connect", "logout", "release"}, d \in Conns :
            Queued(k, d)' <=> Queued(k, d)
    <2>1. \A k, d : /\ Queued(k, d) <=> In(queue, Task(k, d))
                    /\ Queued(k, d)' <=> In(queue', Task(k, d))
      BY DEF Queued, In
    <2> QED BY <1>5, <2>1, TasksDiffer
  <1>7. \A d \in Conns : conn'[d].phase = IF d = c THEN "open" ELSE conn[d].phase
    BY <1>2, <1>4
  <1>8. TypeOK'
    BY <1>1, <1>2, <1>4, <1>5 DEF IInv, TypeOK, NetType, ConnType
  <1>9. OneLogin'
    BY <1>1, <1>6, <1>7 DEF IInv, OneLogin, Untouched
  <1>10. Closing' /\ PacketOpen'
    BY <1>1, <1>6, <1>7 DEF IInv, TypeOK, OneLogin, Closing, PacketOpen, Untouched
  <1>11. AttachmentMutual' /\ Counted' /\ NoOrphan' /\ AutosendCovered'
    BY <1>1, <1>6, <1>7 DEF IInv, AttachmentMutual, Counted, Weight, NoOrphan, AutosendCovered
  <1> QED BY <1>5, <1>8, <1>9, <1>10, <1>11 DEF IInv

LEMMA ConnectDueStep ==
    ASSUME IInv, NEW c \in Conns, ConnectDue(c)
    PROVE  IInv'
  <1>1. /\ c \in waiting /\ waiting' = waiting \ {c}
        /\ Become(Enqueue(Net, "connect", c))
        /\ UNCHANGED <<greeted, thread, armed, autosend, accepts,
                       player, client, refs, place, late>>
    BY DEF ConnectDue, poolVars, playerVars
  <1>2. Fits(queue, Task("connect", c))
    BY <1>1, NetFacts DEF IInv, OneLogin, Fits, Task
  <1>3. /\ conn' \in ConnType /\ queue' \in Seq(Tasks) /\ Sorted(queue')
        /\ \A d \in Conns : conn'[d].phase = conn[d].phase
        /\ \A k, d : Queued(k, d)' <=> Queued(k, d) \/ (k = "connect" /\ d = c)
    BY <1>1, <1>2, EnqueueFacts, NetFacts
  <1>4. TypeOK'
    BY <1>1, <1>3 DEF IInv, TypeOK, ConnType
  <1>5. OneLogin'
    BY <1>1, <1>3 DEF IInv, OneLogin, Untouched
  <1>6. Closing' /\ PacketOpen'
    BY <1>1, <1>3 DEF IInv, TypeOK, Closing, PacketOpen
  <1>7. AttachmentMutual' /\ Counted' /\ NoOrphan' /\ AutosendCovered'
    BY <1>1, <1>3 DEF IInv, AttachmentMutual, Counted, Weight, NoOrphan, AutosendCovered
  <1> QED BY <1>3, <1>4, <1>5, <1>6, <1>7 DEF IInv

LEMMA DecrementDown ==
    ASSUME NEW n \in 0 .. RefMod - 1
    PROVE  /\ Decrement(n) \in 0 .. RefMod - 1
           /\ n > 0 => Decrement(n) = n - 1
  BY DEF Decrement

(* The steps of the game that leave the queue alone.                       *)
LEMMA SpeakStep ==
    ASSUME IInv, NEW c \in Conns, Speak(c)
    PROVE  IInv'
  <1>1. Alike(Send(Net, c), Net)
    BY SendNet, NetFacts DEF Alike
  <1>2. Become(Send(Net, c)) /\ Unlocked(c) /\ thread' = thread /\ UNCHANGED player
    BY DEF Speak, playerVars
  <1>3. Goes(Net, c)
    BY <1>1, <1>2, GoesAlike, NetFacts
  <1>4. ThreadNext
    BY <1>2, <1>3, ThreadStays
  <1>5. greeted' = greeted /\ UNCHANGED <<waiting, poolVars, accepts, playerVars>>
    BY DEF Speak
  <1> QED BY <1>3, <1>4, <1>5, QuietStep

LEMMA SendAllStep ==
    ASSUME IInv, SendAll
    PROVE  IInv'
  <1>1. PICK full \in SUBSET {c \in Conns : autosend[c] > 0} :
            conn' = [c \in Conns |-> IF c \in full THEN Send(Net, c).conn[c] ELSE conn[c]]
    BY DEF SendAll
  <1>2. /\ armed' = IF \E c \in Conns : autosend[c] > 0 THEN armed ELSE armed - 1
        /\ armed > 0
        /\ UNCHANGED <<greeted, thread, queue, waiting, autosend, accepts, playerVars>>
    BY DEF SendAll
  <1>3. conn' \in ConnType /\ \A d \in Conns : conn'[d].phase = conn[d].phase
    <2>1. \A d \in Conns : /\ Send(Net, d).conn[d].phase = conn[d].phase
                           /\ Send(Net, d).conn \in ConnType
      BY SendNet, NetFacts DEF NetType
    <2> QED BY <1>1, <2>1 DEF ConnType, IInv, TypeOK
  <1>4. Goes(Net, NoConn)
    BY <1>2, <1>3, NetFacts DEF Goes, IInv, TypeOK
  <1>5. /\ UNCHANGED <<waiting, autosend, accepts, player, client, late>>
        /\ UNCHANGED <<refs, place>> /\ greeted' = greeted /\ thread' = thread
    BY <1>2 DEF playerVars
  <1>6. ThreadNext
    BY <1>4, <1>5, ThreadStays
  <1>7. /\ armed' \in Nat
        /\ armed' = 0 => armed = 0 \/ \A d \in Conns : autosend[d] = 0
        /\ refs' \in [Conns -> 0 .. RefMod - 1] /\ place' \in [Conns -> Stations]
        /\ Counted'
        /\ \A o \in Conns : place[o] = "none" => place'[o] = place[o] /\ refs'[o] = refs[o]
    BY <1>2, <1>5 DEF IInv, TypeOK, Counted, Weight
  <1> QED BY <1>4, <1>5, <1>6, <1>7, NetStep

\* Removing a player from the world moves its references and keeps their number.
LEMMA RemovedFacts ==
    ASSUME IInv, NEW o \in Conns, place' = Removed(o), UNCHANGED <<refs, client>>
    PROVE  /\ refs' \in [Conns -> 0 .. RefMod - 1] /\ place' \in [Conns -> Stations]
           /\ Counted'
           /\ \A p \in Conns : place[p] = "none" => place'[p] = place[p] /\ refs'[p] = refs[p]
           /\ \A p \in Conns : place'[p] = "none" => place[p] = "none"
  <1>1. place' \in [Conns -> Stations]
        /\ \A p \in Conns : place'[p] = place[p] \/ (place[p] = "world" /\ place'[p] = "removed")
    BY DEF IInv, TypeOK, Removed, Stations
  <1>2. Counted'
    BY <1>1 DEF IInv, Counted, Weight
  <1> QED BY <1>1, <1>2 DEF IInv, TypeOK

LEMMA KickStep ==
    ASSUME IInv, NEW o \in Conns, Kick(o) \/ Die(o)
    PROVE  IInv'
  <1>1. /\ place' = Removed(o)
        /\ UNCHANGED <<greeted, thread, waiting, armed, autosend, accepts, player, client, refs, late>>
    BY DEF Kick, Die, poolVars
  <1>2. PICK c \in Conns \cup {NoConn} : /\ Goes(Net, c)
                                         /\ c \in Conns => Unlocked(c)
    <2>1. CASE Kick(o) /\ client[o] # NoConn
      <3>1. /\ client[o] \in Conns /\ Unlocked(client[o])
            /\ Become(Disconnect(Net, client[o]))
        BY <2>1 DEF Kick, IInv, TypeOK
      <3> QED BY <3>1, GoesDisconnect, NetFacts
    <2>2. CASE UNCHANGED netVars
      <3>1. Become(Net)
        BY <2>2 DEF netVars, Become, Net
      <3>2. Goes(Net, NoConn)
        BY <3>1, GoesAlike, NetFacts
      <3> QED BY <3>2
    <2> QED BY <2>1, <2>2 DEF Kick, Die
  <1>3. ThreadNext
    BY <1>1, <1>2, ThreadStays
  <1>4. /\ refs' \in [Conns -> 0 .. RefMod - 1] /\ place' \in [Conns -> Stations]
        /\ Counted'
        /\ \A p \in Conns : place[p] = "none" => place'[p] = place[p] /\ refs'[p] = refs[p]
    BY <1>1, RemovedFacts
  <1>5. /\ armed' \in Nat
        /\ armed' = 0 => armed = 0
        /\ greeted' = greeted
        /\ UNCHANGED <<waiting, autosend, accepts, player, client, late>>
    BY <1>1 DEF IInv, TypeOK
  <1> QED BY <1>2, <1>3, <1>4, <1>5, NetStep

LEMMA CleanupStep ==
    ASSUME IInv, NEW o \in Conns, Cleanup(o) \/ Unlist(o)
    PROVE  IInv'
  <1>1. /\ place[o] \in {"removed", "listed"}
        /\ UNCHANGED <<greeted, thread, waiting, conn, queue, armed, autosend, accepts,
                       player, client, late>>
    BY DEF Cleanup, Unlist, poolVars, netVars
  <1>2. Goes(Net, NoConn)
    BY <1>1, NetFacts DEF Goes, NetType, IInv, TypeOK
  <1>3. ThreadNext
    BY <1>1, <1>2, ThreadStays
  <1>4. refs[o] = Weight(o) /\ refs[o] \in 0 .. RefMod - 1
    BY <1>1 DEF IInv, TypeOK, Counted
  <1>5. \A p \in Conns : p # o => place'[p] = place[p] /\ refs'[p] = refs[p]
    BY DEF Cleanup, Unlist, IInv, TypeOK
  <1>6. /\ place' \in [Conns -> Stations] /\ refs' \in [Conns -> 0 .. RefMod - 1]
        /\ refs'[o] = (IF client[o] = NoConn THEN 0 ELSE 1) + (IF place'[o] = "listed" THEN 1 ELSE 0)
        /\ place'[o] \in {"listed", "gone"}
    <2>1. CASE Cleanup(o)
      <3>1. place[o] = "removed"
        BY <2>1 DEF Cleanup
      <3>2. Decrement(refs[o]) \in 0 .. RefMod - 1 /\ Decrement(refs[o]) = refs[o] - 1
        BY <1>4, <3>1, DecrementDown DEF Weight
      <3> QED BY <1>4, <2>1, <3>1, <3>2 DEF Cleanup, Weight, IInv, TypeOK, Stations
    <2>2. CASE Unlist(o)
      <3>1. Decrement(refs[o]) \in 0 .. RefMod - 1 /\ Decrement(refs[o]) = refs[o] - 1
        BY <1>1, <1>4, DecrementDown DEF Weight
      <3>2. place[o] = "removed" =>
              /\ Decrement(Decrement(refs[o])) \in 0 .. RefMod - 1
              /\ Decrement(Decrement(refs[o])) = refs[o] - 2
        BY <1>4, <3>1, DecrementDown DEF Weight
      <3> QED BY <1>1, <1>4, <2>2, <3>1, <3>2 DEF Unlist, Weight, IInv, TypeOK, Stations
    <2> QED BY <2>1, <2>2
  <1>7. Counted'
    BY <1>1, <1>5, <1>6 DEF IInv, Counted, Weight
  <1>8. /\ armed' \in Nat
        /\ armed' = 0 => armed = 0
        /\ greeted' = greeted
        /\ UNCHANGED <<waiting, autosend, accepts, player, client, late>>
        /\ \A p \in Conns : place[p] = "none" => place'[p] = place[p] /\ refs'[p] = refs[p]
    BY <1>1, <1>5 DEF IInv, TypeOK
  <1> QED BY <1>2, <1>3, <1>6, <1>7, <1>8, NetStep

-----------------------------------------------------------------------------
(* The steps that run a task.                                              *)

Kinds == {"onConnect", "login", "connect", "logout", "release"}

LEMMA PopFacts ==
    ASSUME IInv, NEW does \in Kinds, NEW c \in Conns, Runs(does, c), NEW e, Goes(Rest, e)
    PROVE  /\ conn' \in ConnType /\ queue' \in Seq(Tasks) /\ Sorted(queue')
           /\ Queued(does, c)
           /\ \A k, d : Queued(k, d)' =>
                \/ Queued(k, d)
                \/ k = "release" /\ d = e /\ conn'[d].phase = "disconnected"
           /\ \A k, d : Queued(k, d) => Queued(k, d)' \/ (k = does /\ d = c)
           /\ does \in {"login", "connect"} => ~Queued(does, c)'
           /\ does = "release" => ~Queued("login", c) /\ ~Queued("logout", c)
           /\ \A d \in Conns : \/ conn'[d].phase = conn[d].phase
                               \/ /\ d = e /\ conn'[d].phase = "disconnected"
                                  /\ Queued("release", d)'
  <1>1. /\ queue \in Seq(Tasks) /\ queue # <<>> /\ Sorted(queue)
        /\ Head(queue) = Task(does, c)
    BY DEF Runs, IInv, TypeOK
  <1>2. Rest.conn = conn /\ Rest.queue = Tail(queue)
    BY DEF Rest, Net
  <1>3. \A k, d : /\ Queued(k, d) <=> In(queue, Task(k, d))
                  /\ Queued(k, d)' <=> In(queue', Task(k, d))
    BY DEF Queued, In
  <1>4. /\ \A u : In(queue', u) =>
             In(Tail(queue), u) \/ (u = Task("release", e) /\ conn'[e].phase = "disconnected")
        /\ \A u : In(Tail(queue), u) => In(queue', u)
    BY <1>2 DEF Goes
  <1>5. /\ \A u : In(Tail(queue), u) => In(queue, u)
        /\ \A u : In(queue, u) => u = Task(does, c) \/ In(Tail(queue), u)
        /\ In(queue, Task(does, c))
        /\ does \in {"login", "connect"} => ~In(Tail(queue), Task(does, c))
        /\ does = "release" => ~In(queue, Task("login", c)) /\ ~In(queue, Task("logout", c))
    <2>1. Task(does, c).does = does
      BY DEF Task
    <2> QED BY <1>1, <2>1, Pop
  <1>6. ASSUME NEW k, NEW d
        PROVE  /\ Queued(k, d)' =>
                    \/ Queued(k, d)
                    \/ k = "release" /\ d = e /\ conn'[d].phase = "disconnected"
               /\ Queued(k, d) => Queued(k, d)' \/ (k = does /\ d = c)
    BY <1>3, <1>4, <1>5, TasksDiffer
  <1>7. does \in {"login", "connect"} => ~Queued(does, c)'
    <2>1. does \in {"login", "connect"} => Task(does, c) # Task("release", e)
      BY TasksDiffer
    <2> QED BY <1>3, <1>4, <1>5, <2>1
  <1>8. \A d \in Conns : \/ conn'[d].phase = conn[d].phase
                         \/ /\ d = e /\ conn'[d].phase = "disconnected"
                            /\ Queued("release", d)'
    BY <1>2, <1>3 DEF Goes
  <1>9. conn' \in ConnType /\ queue' \in Seq(Tasks) /\ Sorted(queue')
    BY DEF Goes
  <1> QED BY <1>3, <1>5, <1>6, <1>7, <1>8, <1>9

LEMMA RestFacts ==
    ASSUME IInv, NEW does, NEW c, Runs(does, c)
    PROVE  Alike(Rest, Rest) /\ Sorted(Rest.queue) /\ Rest.conn = conn
  <1>1. /\ queue \in Seq(Tasks) /\ queue # <<>> /\ Sorted(queue) /\ conn \in ConnType
    BY DEF Runs, IInv, TypeOK, ConnType
  <1>2. Tail(queue) \in Seq(Tasks) /\ Sorted(Tail(queue))
    BY <1>1, Pop
  <1>3. Rest.conn = conn /\ Rest.queue = Tail(queue)
    BY DEF Rest, Net
  <1>4. Rest \in NetType
    <2> DEFINE t == Tail(queue)
    <2>1. Rest = [Net EXCEPT !.queue = t]
      BY NetFacts DEF Rest
    <2> HIDE DEF t
    <2>2. [Net EXCEPT !.queue = t] \in [conn : ConnType, queue : {t}]
      BY NetFacts DEF NetType
    <2> QED BY <1>2, <2>1, <2>2 DEF NetType, t
  <1> QED BY <1>2, <1>3, <1>4 DEF Alike

\* A login that adds its protocol to the list arms a sendAll, if none is armed.
LEMMA AutosendFacts ==
    ASSUME IInv, NEW c \in Conns,
           UNCHANGED poolVars \/ (autosend[c] = 0 /\ Autosend(c))
    PROVE  /\ armed' \in Nat /\ autosend' \in [Conns -> Nat]
           /\ \A d \in Conns : d # c => autosend'[d] = autosend[d]
           /\ \/ UNCHANGED poolVars /\ autosend'[c] = autosend[c]
              \/ Autosend(c) /\ autosend'[c] = 1
           /\ (\E d \in Conns : autosend'[d] > 0) => armed' > 0
  <1>1. CASE UNCHANGED poolVars
    BY <1>1 DEF poolVars, IInv, TypeOK, AutosendCovered
  <1>2. CASE autosend[c] = 0 /\ Autosend(c)
    <2>1. autosend' = [autosend EXCEPT ![c] = @ + 1]
      BY <1>2 DEF Autosend
    <2>2. armed' \in Nat /\ armed' > 0
      <3>1. CASE autosend = [d \in Conns |-> 0]
        BY <1>2, <3>1 DEF Autosend, IInv, TypeOK
      <3>2. CASE autosend # [d \in Conns |-> 0]
        <4>1. \E d \in Conns : autosend[d] > 0
          BY <3>2 DEF IInv, TypeOK
        <4> QED BY <1>2, <3>2, <4>1 DEF Autosend, IInv, TypeOK, AutosendCovered
      <3> QED BY <3>1, <3>2
    <2> QED BY <1>2, <2>1, <2>2 DEF IInv, TypeOK
  <1> QED BY <1>1, <1>2

(* A task other than a release, that leaves every protocol its player.     *)
LEMMA PopStep ==
    ASSUME IInv, NEW does \in Kinds \ {"release"}, NEW c \in Conns, Runs(does, c),
           NEW e, Goes(Rest, e), ThreadNext,
           waiting' = waiting \/ (does = "login" /\ waiting' = waiting \cup {c}),
           UNCHANGED poolVars \/ (does = "login" /\ Autosend(c)),
           UNCHANGED <<greeted, accepts, player, client, late>>,
           refs' \in [Conns -> 0 .. RefMod - 1], place' \in [Conns -> Stations],
           \A o \in Conns : place[o] = "none" => place'[o] = place[o] /\ refs'[o] = refs[o],
           Counted'
    PROVE  IInv'
  <1>1. /\ conn' \in ConnType /\ queue' \in Seq(Tasks) /\ Sorted(queue')
        /\ Queued(does, c)
        /\ \A d : Queued("login", d)' => Queued("login", d)
        /\ \A d : Queued("connect", d)' => Queued("connect", d)
        /\ \A d : Queued("logout", d)' => Queued("logout", d)
        /\ \A d : Queued("release", d)' =>
             Queued("release", d) \/ (d = e /\ conn'[d].phase = "disconnected")
        /\ \A d : Queued("release", d) => Queued("release", d)'
        /\ does = "login" => ~Queued("login", c)'
        /\ \A d \in Conns : \/ conn'[d].phase = conn[d].phase
                            \/ /\ d = e /\ conn'[d].phase = "disconnected"
                               /\ Queued("release", d)'
    BY PopFacts
  <1>2. does = "login" => /\ c \in greeted /\ Untouched(c) /\ c \notin waiting
                          /\ ~Queued("connect", c)
                          /\ conn[c].phase = "open" \/ Queued("release", c)
    BY <1>1 DEF IInv, OneLogin, Closing
  <1>3. /\ armed' \in Nat /\ autosend' \in [Conns -> Nat]
        /\ \A d \in Conns : autosend'[d] = autosend[d]
                            \/ (does = "login" /\ d = c /\ autosend'[d] = 1)
        /\ (\E d \in Conns : autosend'[d] > 0) => armed' > 0
    <2>1. CASE UNCHANGED poolVars
      BY <2>1 DEF poolVars, IInv, TypeOK, AutosendCovered
    <2>2. CASE does = "login" /\ Autosend(c)
      <3>1. autosend[c] = 0
        BY <1>2, <2>2 DEF Untouched
      <3>2. /\ armed' \in Nat /\ autosend' \in [Conns -> Nat]
            /\ \A d \in Conns : d # c => autosend'[d] = autosend[d]
            /\ autosend'[c] \in {0, 1}
            /\ (\E d \in Conns : autosend'[d] > 0) => armed' > 0
        BY <2>2, <3>1, AutosendFacts
      <3> QED BY <2>2, <3>1, <3>2
    <2> QED BY <2>1, <2>2
  <1>4. TypeOK'
    BY <1>1, <1>3 DEF IInv, TypeOK, ConnType, ThreadNext
  <1>5. OneLogin'
    <2>1. SUFFICES ASSUME NEW d \in Conns PROVE OneLogin!(d)'
      BY DEF OneLogin
    <2>2. CASE does = "login" /\ d = c
      BY <1>1, <1>2, <2>2 DEF IInv, OneLogin, Untouched
    <2>3. CASE ~(does = "login" /\ d = c)
      <3>1. Untouched(d) => Untouched(d)'
        BY <1>3, <2>3 DEF Untouched
      <3>2. d \in waiting' <=> d \in waiting
        BY <2>3
      <3> QED BY <1>1, <3>1, <3>2 DEF IInv, OneLogin
    <2> QED BY <2>2, <2>3
  <1>6. Closing' /\ PacketOpen'
    BY <1>1 DEF IInv, Closing, PacketOpen, ThreadNext
  <1>7. AttachmentMutual' /\ NoOrphan'
    BY <1>1 DEF IInv, AttachmentMutual, NoOrphan
  <1>8. AutosendCovered'
    BY <1>1, <1>2, <1>3 DEF IInv, TypeOK, AutosendCovered
  <1> QED BY <1>1, <1>4, <1>5, <1>6, <1>7, <1>8 DEF IInv

\* The references do not change when neither the counter nor the stations do.
LEMMA SameCounts ==
    ASSUME IInv, UNCHANGED <<refs, place, client>>
    PROVE  /\ refs' \in [Conns -> 0 .. RefMod - 1] /\ place' \in [Conns -> Stations]
           /\ \A o \in Conns : place[o] = "none" => place'[o] = place[o] /\ refs'[o] = refs[o]
           /\ Counted'
  BY DEF IInv, TypeOK, Counted, Weight

\* A task waits for the lock of the connection that it closes.
LEMMA ThreadWaits ==
    ASSUME IInv, NEW does \in Kinds, NEW c \in Conns, Runs(does, c), NEW e, Goes(Rest, e),
           thread' = thread,
           thread = [in |-> "packet", on |-> e] => player[e] = NoPlayer
    PROVE  ThreadNext
  <1>1. thread \in [in : Handlers, on : Conns \cup {NoConn}]
    BY DEF IInv, TypeOK
  <1>2. thread.in = "packet" => thread = [in |-> "packet", on |-> thread.on]
    BY <1>1
  <1> QED BY <1>1, <1>2, RestFacts DEF ThreadNext, IInv, PacketOpen, Goes

LEMMA OnConnectStep ==
    ASSUME IInv, NEW c \in Conns, OnConnect(c)
    PROVE  IInv'
  <1>1. /\ Runs("onConnect", c) /\ Become(Send(Rest, c))
        /\ UNCHANGED <<greeted, thread, waiting, poolVars, accepts, player, client, refs, place, late>>
    BY DEF OnConnect, playerVars
  <1>2. Alike(Send(Rest, c), Rest)
    BY <1>1, RestFacts, SendNet DEF Alike
  <1>3. Goes(Rest, NoConn)
    BY <1>1, <1>2, GoesAlike, RestFacts
  <1>4. ThreadNext
    <2>1. thread # [in |-> "packet", on |-> NoConn]
      BY DEF IInv, PacketOpen
    <2> QED BY <1>1, <1>3, <2>1, ThreadWaits DEF Kinds
  <1>5. /\ refs' \in [Conns -> 0 .. RefMod - 1] /\ place' \in [Conns -> Stations]
        /\ \A o \in Conns : place[o] = "none" => place'[o] = place[o] /\ refs'[o] = refs[o]
        /\ Counted'
    BY <1>1, SameCounts
  <1> QED BY <1>1, <1>3, <1>4, <1>5, PopStep DEF Kinds

LEMMA LoginTwiceStep ==
    ASSUME IInv, NEW c \in Conns, LoginTwice(c)
    PROVE  IInv'
  <1>1. /\ Runs("login", c) /\ Become(DisconnectClient(Rest, c))
        /\ UNCHANGED <<greeted, thread, waiting, poolVars, accepts, player, client, refs, place, late>>
    BY DEF LoginTwice, playerVars
  <1>2. Goes(Rest, c)
    BY <1>1, GoesDisconnect, RestFacts
  <1>3. ThreadNext
    <2>1. player[c] = NoPlayer
      BY <1>1, <1>2, PopFacts DEF Kinds, IInv, OneLogin, Untouched
    <2> QED BY <1>1, <1>2, <2>1, ThreadWaits DEF Kinds
  <1>4. /\ refs' \in [Conns -> 0 .. RefMod - 1] /\ place' \in [Conns -> Stations]
        /\ \A o \in Conns : place[o] = "none" => place'[o] = place[o] /\ refs'[o] = refs[o]
        /\ Counted'
    BY <1>1, SameCounts
  <1> QED BY <1>1, <1>2, <1>3, <1>4, PopStep DEF Kinds

LEMMA LoginReplacesStep ==
    ASSUME IInv, NEW c \in Conns, LoginReplaces(c)
    PROVE  IInv'
  <1>1. /\ Runs("login", c) /\ waiting' = waiting \cup {c} /\ Autosend(c)
        /\ UNCHANGED <<greeted, thread, accepts, player, client, refs, place, late>>
    BY DEF LoginReplaces, playerVars
  <1>2. PICK e \in Conns : Unlocked(e) /\ Become(Disconnect(Rest, e))
    BY DEF LoginReplaces, Found, IInv, TypeOK
  <1>3. Goes(Rest, e)
    BY <1>1, <1>2, GoesDisconnect, RestFacts
  <1>4. ThreadNext
    BY <1>1, <1>2, <1>3, ThreadWaits DEF Kinds, Unlocked
  <1>5. /\ refs' \in [Conns -> 0 .. RefMod - 1] /\ place' \in [Conns -> Stations]
        /\ \A o \in Conns : place[o] = "none" => place'[o] = place[o] /\ refs'[o] = refs[o]
        /\ Counted'
    BY <1>1, SameCounts
  <1> QED BY <1>1, <1>3, <1>4, <1>5, PopStep DEF Kinds

LEMMA LogoutStep ==
    ASSUME IInv, NEW c \in Conns, Logout(c)
    PROVE  IInv'
  <1>1. /\ Runs("logout", c)
        /\ UNCHANGED <<greeted, thread, waiting, poolVars, accepts, player, client, refs, late>>
    BY DEF Logout
  <1>2. CASE Become(Rest) /\ UNCHANGED place
    <2>1. Goes(Rest, NoConn)
      BY <1>1, <1>2, GoesAlike, RestFacts
    <2>2. ThreadNext
      <3>1. thread # [in |-> "packet", on |-> NoConn]
        BY DEF IInv, PacketOpen
      <3> QED BY <1>1, <2>1, <3>1, ThreadWaits DEF Kinds
    <2>3. /\ refs' \in [Conns -> 0 .. RefMod - 1] /\ place' \in [Conns -> Stations]
          /\ \A o \in Conns : place[o] = "none" => place'[o] = place[o] /\ refs'[o] = refs[o]
          /\ Counted'
      BY <1>1, <1>2, SameCounts
    <2> QED BY <1>1, <2>1, <2>2, <2>3, PopStep DEF Kinds
  <1>3. CASE /\ player[c] # NoPlayer /\ Unlocked(c) /\ Become(Disconnect(Rest, c))
             /\ place' = Removed(player[c])
    <2>1. Goes(Rest, c)
      BY <1>1, <1>3, GoesDisconnect, RestFacts
    <2>2. ThreadNext
      BY <1>1, <1>3, <2>1, ThreadWaits DEF Kinds, Unlocked
    <2>3. player[c] \in Conns
      BY <1>3 DEF IInv, TypeOK
    <2>4. /\ refs' \in [Conns -> 0 .. RefMod - 1] /\ place' \in [Conns -> Stations]
          /\ \A o \in Conns : place[o] = "none" => place'[o] = place[o] /\ refs'[o] = refs[o]
          /\ Counted'
      BY <1>1, <1>3, <2>3, RemovedFacts
    <2> QED BY <1>1, <2>1, <2>2, <2>4, PopStep DEF Kinds
  <1> QED BY <1>2, <1>3 DEF Logout

(* A login that creates a Player.                                          *)
LEMMA NewPlayerStep ==
    ASSUME IInv, NEW c \in Conns, Runs("login", c), Goes(Rest, c),
           player' = [player EXCEPT ![c] = c], client' = [client EXCEPT ![c] = c],
           NEW r \in 0 .. 3, NEW p \in Stations,
           refs' = [refs EXCEPT ![c] = r], place' = [place EXCEPT ![c] = p],
           (r = 0 /\ p = "failed") \/ (r = 1 /\ p = "none") \/ (r = 3 /\ p = "world"),
           UNCHANGED <<greeted, thread, waiting, late>>,
           accepts' = accepts \/ accepts' = accepts \cup {c},
           UNCHANGED poolVars \/ Autosend(c)
    PROVE  IInv'
  <1>1. /\ conn' \in ConnType /\ queue' \in Seq(Tasks) /\ Sorted(queue')
        /\ Queued("login", c) /\ ~Queued("login", c)'
        /\ \A d : Queued("login", d)' => Queued("login", d)
        /\ \A d : Queued("connect", d)' => Queued("connect", d)
        /\ \A d : Queued("logout", d)' => Queued("logout", d)
        /\ \A d : Queued("release", d)' =>
             Queued("release", d) \/ (d = c /\ conn'[d].phase = "disconnected")
        /\ \A d : Queued("release", d) => Queued("release", d)'
        /\ \A d \in Conns : \/ conn'[d].phase = conn[d].phase
                            \/ /\ d = c /\ conn'[d].phase = "disconnected"
                               /\ Queued("release", d)'
    BY PopFacts DEF Kinds
  <1>2. /\ c \in greeted /\ Untouched(c) /\ c \notin waiting /\ ~Queued("connect", c)
        /\ conn[c].phase = "open" \/ Queued("release", c)
    BY <1>1 DEF IInv, OneLogin, Closing
  <1>3. /\ armed' \in Nat /\ autosend' \in [Conns -> Nat]
        /\ \A d \in Conns : d # c => autosend'[d] = autosend[d]
        /\ autosend'[c] \in {0, 1}
        /\ (\E d \in Conns : autosend'[d] > 0) => armed' > 0
    BY <1>2, AutosendFacts DEF Untouched
  <1>4. ThreadNext
    BY <1>2, ThreadWaits DEF Untouched, Kinds
  <1>5. NoConn \notin Conns /\ NoPlayer \notin Conns /\ r \in 0 .. RefMod - 1
    OBVIOUS
  <1>6. TypeOK'
    BY <1>1, <1>3, <1>4, <1>5 DEF IInv, TypeOK, ConnType, ThreadNext
  <1>7. /\ \A d \in Conns : d # c => /\ player'[d] = player[d] /\ client'[d] = client[d]
                                     /\ refs'[d] = refs[d] /\ place'[d] = place[d]
        /\ player'[c] = c /\ client'[c] = c
        /\ place'[c] = "failed" \/ refs'[c] = Weight(c)'
    BY <1>5 DEF IInv, TypeOK, Weight
  <1>8. OneLogin'
    <2>1. SUFFICES ASSUME NEW d \in Conns PROVE OneLogin!(d)'
      BY DEF OneLogin
    <2>2. CASE d = c
      BY <1>1, <1>2, <2>2 DEF IInv, OneLogin
    <2>3. CASE d # c
      <3>1. Untouched(d) => Untouched(d)'
        BY <1>3, <1>7, <2>3 DEF Untouched
      <3> QED BY <1>1, <1>7, <2>3, <3>1 DEF IInv, OneLogin
    <2> QED BY <2>2, <2>3
  <1>9. Closing' /\ PacketOpen'
    BY <1>1, <1>4, <1>5, <1>7 DEF IInv, Closing, PacketOpen, ThreadNext
  <1>10. AttachmentMutual'
    BY <1>2, <1>5, <1>7 DEF IInv, AttachmentMutual, Untouched
  <1>11. Counted'
    BY <1>7 DEF IInv, Counted, Weight
  <1>12. NoOrphan'
    BY <1>1, <1>2, <1>7 DEF IInv, NoOrphan
  <1>13. AutosendCovered'
    <2>1. SUFFICES ASSUME NEW d \in Conns, autosend'[d] > 0
                   PROVE  /\ autosend'[d] = 1
                          /\ conn'[d].phase = "open" \/ Queued("release", d)'
      BY <1>3 DEF AutosendCovered
    <2>2. CASE d = c
      BY <1>1, <1>2, <1>3, <2>1, <2>2
    <2>3. CASE d # c
      BY <1>1, <1>3, <2>1, <2>3 DEF IInv, AutosendCovered
    <2> QED BY <2>2, <2>3
  <1> QED BY <1>1, <1>6, <1>8, <1>9, <1>10, <1>11, <1>12, <1>13 DEF IInv

LEMMA LoginStep ==
    ASSUME IInv, NEW c \in Conns, LoginUnknown(c) \/ LoginRefused(c) \/ LoginEnters(c)
    PROVE  IInv'
  <1>1. /\ Runs("login", c)
        /\ player' = [player EXCEPT ![c] = c] /\ client' = [client EXCEPT ![c] = c]
        /\ UNCHANGED <<greeted, thread, waiting, late>>
        /\ Become(Rest) \/ Become(DisconnectClient(Rest, c))
        /\ accepts' = accepts \/ accepts' = accepts \cup {c}
        /\ UNCHANGED poolVars \/ Autosend(c)
    BY DEF LoginUnknown, LoginRefused, LoginEnters
  <1>2. Goes(Rest, c)
    BY <1>1, GoesAlike, GoesDisconnect, RestFacts
  <1>3. Queued("login", c) /\ refs[c] = 0 /\ place[c] = "none"
    BY <1>1, <1>2, PopFacts DEF Kinds, IInv, OneLogin, Untouched
  <1>4. CASE LoginUnknown(c)
    <2>1. refs' = [refs EXCEPT ![c] = 0] /\ place' = [place EXCEPT ![c] = "failed"]
      BY <1>3, <1>4 DEF LoginUnknown, IInv, TypeOK
    <2>2. 0 \in 0 .. 3 /\ "failed" \in Stations
      BY DEF Stations
    <2> QED BY <1>1, <1>2, <2>1, <2>2, NewPlayerStep
  <1>5. CASE LoginRefused(c)
    <2>1. refs' = [refs EXCEPT ![c] = 1] /\ place' = [place EXCEPT ![c] = "none"]
      BY <1>3, <1>5 DEF LoginRefused, IInv, TypeOK
    <2>2. 1 \in 0 .. 3 /\ "none" \in Stations
      BY DEF Stations
    <2> QED BY <1>1, <1>2, <2>1, <2>2, NewPlayerStep
  <1>6. CASE LoginEnters(c)
    <2>1. refs' = [refs EXCEPT ![c] = 3] /\ place' = [place EXCEPT ![c] = "world"]
      BY <1>6 DEF LoginEnters
    <2>2. 3 \in 0 .. 3 /\ "world" \in Stations
      BY DEF Stations
    <2> QED BY <1>1, <1>2, <2>1, <2>2, NewPlayerStep
  <1> QED BY <1>4, <1>5, <1>6

(* A login, or a connect after it, that attaches its protocol to a player. *)
LEMMA AttachStep ==
    ASSUME IInv, NEW does \in {"login", "connect"}, NEW c \in Conns, Runs(does, c),
           NEW o \in Found(c), client[o] = NoConn, ~Expired(c), Become(Rest), Attach(c, o),
           UNCHANGED <<greeted, thread, waiting>>,
           UNCHANGED poolVars \/ (does = "login" /\ Autosend(c))
    PROVE  IInv'
  <1>1. Goes(Rest, NoConn)
    BY GoesAlike, RestFacts
  <1>2. /\ conn' \in ConnType /\ queue' \in Seq(Tasks) /\ Sorted(queue')
        /\ Queued(does, c) /\ ~Queued(does, c)'
        /\ \A d : Queued("login", d)' => Queued("login", d)
        /\ \A d : Queued("connect", d)' => Queued("connect", d)
        /\ \A d : Queued("logout", d)' => Queued("logout", d)
        /\ \A d : Queued("release", d)' => Queued("release", d) \/ d = NoConn
        /\ \A d : Queued("release", d) => Queued("release", d)'
        /\ \A d \in Conns : conn'[d].phase = conn[d].phase
    BY <1>1, PopFacts DEF Kinds
  <1>3. /\ c \in greeted /\ player[c] = NoPlayer /\ c \notin waiting
        /\ does = "login" => Untouched(c) /\ ~Queued("connect", c)
        /\ conn[c].phase # "pending"
        /\ does = "login" => conn[c].phase = "open" \/ Queued("release", c)
    BY <1>2 DEF IInv, OneLogin, Closing, Untouched
  <1>4. o \in Conns /\ place[o] = "world" /\ refs[o] = 2
    BY DEF Found, IInv, Counted, Weight
  <1>5. /\ player' = [player EXCEPT ![c] = o] /\ client' = [client EXCEPT ![o] = c]
        /\ refs' = [refs EXCEPT ![o] = 3]
        /\ accepts' = accepts \cup {c}
        /\ late' = late \/ late' = late \cup {c}
        /\ c \in late' \/ conn[c].phase = "open" \/ Queued("release", c)
        /\ place' = place
    <2>1. refs' = [refs EXCEPT ![o] = 3]
      BY <1>4 DEF Attach, IInv, TypeOK
    <2>2. conn[c].phase \in {"open", "disconnected"}
      BY <1>3 DEF IInv, TypeOK, Phases
    <2> QED BY <2>1, <2>2 DEF Attach, Expired
  <1>6. ThreadNext
    BY <1>1, <1>3, <1>5, ThreadWaits DEF Kinds, IInv, PacketOpen
  <1>7. /\ armed' \in Nat /\ autosend' \in [Conns -> Nat]
        /\ \A d \in Conns : d # c => autosend'[d] = autosend[d]
        /\ autosend'[c] = autosend[c] \/ (does = "login" /\ autosend'[c] = 1)
        /\ (\E d \in Conns : autosend'[d] > 0) => armed' > 0
    <2>1. UNCHANGED poolVars \/ (autosend[c] = 0 /\ Autosend(c))
      BY <1>3 DEF Untouched
    <2>2. CASE UNCHANGED poolVars
      BY <2>2 DEF poolVars, IInv, TypeOK, AutosendCovered
    <2>3. CASE does = "login" /\ Autosend(c)
      BY <2>1, <2>3, AutosendFacts
    <2> QED BY <2>2, <2>3
  <1>8. NoConn \notin Conns /\ NoPlayer \notin Conns /\ 3 \in 0 .. RefMod - 1
    OBVIOUS
  <1>9. TypeOK'
    BY <1>2, <1>4, <1>5, <1>6, <1>7, <1>8 DEF IInv, TypeOK, ConnType, ThreadNext
  <1>10. /\ \A d \in Conns : d # c => player'[d] = player[d]
         /\ \A d \in Conns : d # o => client'[d] = client[d] /\ refs'[d] = refs[d]
         /\ player'[c] = o /\ client'[o] = c /\ refs'[o] = 3
    BY <1>4, <1>5 DEF IInv, TypeOK
  <1>11. OneLogin'
    <2>1. SUFFICES ASSUME NEW d \in Conns PROVE OneLogin!(d)'
      BY DEF OneLogin
    <2>2. CASE d = c
      BY <1>2, <1>3, <2>2 DEF IInv, OneLogin
    <2>3. CASE d # c
      <3>1. Untouched(d) => Untouched(d)'
        BY <1>4, <1>5, <1>7, <1>10, <2>3 DEF Untouched
      <3> QED BY <1>2, <1>10, <2>3, <3>1 DEF IInv, OneLogin
    <2> QED BY <2>2, <2>3
  <1>12. Closing' /\ PacketOpen'
    BY <1>2, <1>4, <1>5, <1>6, <1>8, <1>10 DEF IInv, Closing, PacketOpen, ThreadNext
  <1>13. AttachmentMutual'
    BY <1>3, <1>4, <1>8, <1>10 DEF IInv, AttachmentMutual
  <1>14. Counted'
    BY <1>4, <1>5, <1>8, <1>10 DEF IInv, Counted, Weight
  <1>15. NoOrphan'
    BY <1>2, <1>5, <1>10 DEF IInv, NoOrphan
  <1>16. AutosendCovered'
    <2>1. SUFFICES ASSUME NEW d \in Conns, autosend'[d] > 0
                   PROVE  /\ autosend'[d] = 1
                          /\ conn'[d].phase = "open" \/ Queued("release", d)'
      BY <1>7 DEF AutosendCovered
    <2>2. CASE autosend'[d] = autosend[d]
      BY <1>2, <2>1, <2>2 DEF IInv, AutosendCovered
    <2>3. CASE autosend'[d] # autosend[d]
      BY <1>2, <1>3, <1>7, <2>1, <2>3
    <2> QED BY <2>2, <2>3
  <1> QED BY <1>2, <1>9, <1>11, <1>12, <1>13, <1>14, <1>15, <1>16 DEF IInv

LEMMA ConnectStep ==
    ASSUME IInv, NEW c \in Conns, LoginConnects(c) \/ ConnectLater(c)
    PROVE  IInv'
  <1>1. PICK does \in {"login", "connect"} :
            /\ Runs(does, c)
            /\ UNCHANGED poolVars \/ (does = "login" /\ Autosend(c))
            /\ Connect(c)
            /\ UNCHANGED <<greeted, thread, waiting>>
    BY DEF LoginConnects, ConnectLater
  <1>2. CASE UNCHANGED <<accepts, playerVars>> /\ (Become(Rest) \/ Become(DisconnectClient(Rest, c)))
    <2>1. Goes(Rest, c)
      BY <1>1, <1>2, GoesAlike, GoesDisconnect, RestFacts
    <2>2. player[c] = NoPlayer
      BY <1>1, <2>1, PopFacts DEF Kinds, IInv, OneLogin, Untouched
    <2>3. ThreadNext
      BY <1>1, <2>1, <2>2, ThreadWaits DEF Kinds
    <2>4. /\ refs' \in [Conns -> 0 .. RefMod - 1] /\ place' \in [Conns -> Stations]
          /\ \A o \in Conns : place[o] = "none" => place'[o] = place[o] /\ refs'[o] = refs[o]
          /\ Counted'
      BY <1>2, SameCounts DEF playerVars
    <2>5. UNCHANGED <<greeted, accepts, player, client, late>>
      BY <1>1, <1>2 DEF playerVars
    <2> QED BY <1>1, <2>1, <2>3, <2>4, <2>5, PopStep DEF Kinds
  <1>3. CASE \E o \in Found(c) : client[o] = NoConn /\ ~Expired(c) /\ Become(Rest) /\ Attach(c, o)
    BY <1>1, <1>3, AttachStep
  <1> QED BY <1>1, <1>2, <1>3 DEF Connect

LEMMA ReleaseStep ==
    ASSUME IInv, NEW c \in Conns, Release(c)
    PROVE  IInv'
  <1>1. /\ Runs("release", c) /\ Become(Rest)
        /\ autosend' = [autosend EXCEPT ![c] = IF @ = 0 THEN 0 ELSE @ - 1]
        /\ UNCHANGED <<greeted, thread, waiting, armed, accepts, place, late>>
    BY DEF Release
  <1>2. Goes(Rest, NoConn)
    BY <1>1, GoesAlike, RestFacts
  <1>3. NoConn \notin Conns /\ NoPlayer \notin Conns
    OBVIOUS
  <1>4. /\ conn' \in ConnType /\ queue' \in Seq(Tasks) /\ Sorted(queue')
        /\ Queued("release", c) /\ ~Queued("login", c) /\ ~Queued("logout", c)
        /\ \A k, d : d \in Conns => (Queued(k, d)' => Queued(k, d))
        /\ \A d : Queued("release", d) => Queued("release", d)' \/ d = c
        /\ \A d : Queued("login", d)' => Queued("login", d)
        /\ \A d \in Conns : conn'[d].phase = conn[d].phase
    BY <1>1, <1>2, <1>3, PopFacts, TasksDiffer DEF Kinds
  <1>5. conn[c].phase = "disconnected"
    BY <1>4 DEF IInv, Closing
  <1>6. ThreadNext /\ thread # [in |-> "packet", on |-> c]
    <2>1. thread # [in |-> "packet", on |-> NoConn] /\ thread # [in |-> "packet", on |-> c]
      BY <1>5 DEF IInv, PacketOpen
    <2> QED BY <1>1, <1>2, <2>1, ThreadWaits DEF Kinds
  <1>7. /\ \A d \in Conns : autosend'[d] = IF d = c THEN 0 ELSE autosend[d]
        /\ autosend' \in [Conns -> Nat]
    <2>1. autosend[c] = 0 \/ autosend[c] = 1
      BY DEF IInv, TypeOK, AutosendCovered
    <2>2. (IF autosend[c] = 0 THEN 0 ELSE autosend[c] - 1) = 0
      BY <2>1
    <2> QED BY <1>1, <2>2 DEF IInv, TypeOK
  <1>8. /\ player' \in [Conns -> Conns \cup {NoPlayer}]
        /\ client' \in [Conns -> Conns \cup {NoConn}]
        /\ refs' \in [Conns -> 0 .. RefMod - 1]
        /\ \A d \in Conns : player'[d] = IF d = c THEN NoPlayer ELSE player[d]
        /\ \A d \in Conns : client'[d] = IF d = player[c] THEN NoConn ELSE client[d]
        /\ \A d \in Conns : place[d] = "failed"
             \/ refs'[d] = (IF d = player[c] THEN refs[d] - 1 ELSE refs[d])
        /\ \A d \in Conns : d # player[c] => refs'[d] = refs[d]
    <2>1. CASE player[c] = NoPlayer
      <3>1. UNCHANGED <<player, client, refs>>
        BY <2>1 DEF Release
      <3> QED BY <1>3, <2>1, <3>1 DEF IInv, TypeOK
    <2>2. CASE player[c] # NoPlayer
      <3> DEFINE o == player[c]
      <3>1. o \in Conns /\ client[o] = c
        BY <2>2 DEF IInv, TypeOK, AttachmentMutual
      <3>2. /\ client' = [client EXCEPT ![o] = NoConn]
            /\ refs' = [refs EXCEPT ![o] = Decrement(@)]
            /\ player' = [player EXCEPT ![c] = NoPlayer]
        BY <2>2, <3>1 DEF Release
      <3>3. refs[o] \in 0 .. RefMod - 1 /\ (place[o] = "failed" \/ refs[o] > 0)
        <4>1. refs[o] \in 0 .. RefMod - 1 /\ (place[o] = "failed" \/ refs[o] = Weight(o))
          BY <3>1 DEF IInv, TypeOK, Counted
        <4>2. Weight(o) \in {1, 2, 3}
          BY <1>3, <3>1 DEF Weight
        <4> QED BY <4>1, <4>2
      <3>4. /\ Decrement(refs[o]) \in 0 .. RefMod - 1
            /\ place[o] = "failed" \/ Decrement(refs[o]) = refs[o] - 1
        BY <3>3, DecrementDown
      <3> QED BY <3>1, <3>2, <3>4 DEF IInv, TypeOK
    <2> QED BY <2>1, <2>2
  <1>9. TypeOK'
    BY <1>1, <1>4, <1>7, <1>8 DEF IInv, TypeOK, ConnType
  <1>10. OneLogin'
    <2>1. SUFFICES ASSUME NEW d \in Conns PROVE OneLogin!(d)'
      BY DEF OneLogin
    <2>2. Untouched(d) => Untouched(d)'
      <3>1. SUFFICES ASSUME Untouched(d) PROVE Untouched(d)'
        OBVIOUS
      <3>2. d # player[c]
        BY <1>3, <3>1 DEF IInv, TypeOK, AttachmentMutual, Untouched
      <3> QED BY <1>1, <1>7, <1>8, <3>1, <3>2 DEF Untouched
    <2>3. player[d] = NoPlayer => player'[d] = NoPlayer
      BY <1>8
    <2> QED BY <1>1, <1>4, <2>2, <2>3 DEF IInv, OneLogin
  <1>11. Closing' /\ PacketOpen'
    <2>1. thread.in = "packet" => thread.on # c
      BY <1>6 DEF IInv, TypeOK
    <2> QED BY <1>1, <1>4, <1>5, <1>8, <2>1 DEF IInv, Closing, PacketOpen
  <1>12. AttachmentMutual'
    <2>1. SUFFICES ASSUME NEW d \in Conns, NEW o \in Conns
                   PROVE  player'[d] = o <=> client'[o] = d
      BY DEF AttachmentMutual
    <2>2. player[d] = o <=> client[o] = d
      BY DEF IInv, AttachmentMutual
    <2>3. player[c] = o <=> client[o] = c
      BY DEF IInv, AttachmentMutual
    <2> QED BY <1>3, <1>8, <2>2, <2>3
  <1>13. Counted'
    BY <1>1, <1>3, <1>8, SMTT(30) DEF IInv, TypeOK, AttachmentMutual, Counted, Weight
  <1>14. NoOrphan'
    BY <1>1, <1>4, <1>8 DEF IInv, NoOrphan
  <1>15. AutosendCovered'
    <2>1. SUFFICES ASSUME NEW d \in Conns, autosend'[d] > 0
                   PROVE  /\ armed' > 0 /\ autosend'[d] = 1
                          /\ conn'[d].phase = "open" \/ Queued("release", d)'
      BY DEF AutosendCovered
    <2>2. d # c /\ autosend'[d] = autosend[d]
      BY <1>7, <2>1
    <2> QED BY <1>1, <1>4, <2>1, <2>2 DEF IInv, AutosendCovered
  <1> QED BY <1>4, <1>9, <1>10, <1>11, <1>12, <1>13, <1>14, <1>15 DEF IInv

LEMMA NextIInv == IInv /\ [Next]_vars => IInv'
  <1> SUFFICES ASSUME IInv, [Next]_vars PROVE IInv'
    OBVIOUS
  <1>1. ASSUME NEW c \in Conns, Handle(c) PROVE IInv'
    BY <1>1, AcceptStep, FirstMessageStep, CloseStep, ReadStep, EndPacketStep DEF Handle
  <1>2. CASE RunTask
    BY <1>2, OnConnectStep, ReleaseStep, LogoutStep, ConnectStep, LoginStep, LoginTwiceStep,
       LoginReplacesStep DEF RunTask
  <1>3. ASSUME NEW o \in Conns, Kick(o) \/ Die(o) \/ Cleanup(o) \/ Unlist(o) \/ Speak(o)
        PROVE  IInv'
    BY <1>3, KickStep, CleanupStep, SpeakStep
  <1>4. ASSUME NEW c \in Conns, ConnectDue(c) PROVE IInv'
    BY <1>4, ConnectDueStep
  <1>5. CASE UNCHANGED vars
    <2>1. UNCHANGED <<conn, greeted, thread, queue, waiting, armed, autosend, accepts,
                      player, client, refs, place, late>>
      BY <1>5 DEF vars
    <2>2. TypeOK' /\ Sorted(queue)' /\ OneLogin' /\ Closing' /\ PacketOpen'
      BY <2>1 DEF IInv, TypeOK, Sorted, OneLogin, Closing, PacketOpen, Untouched, Queued
    <2>3. AttachmentMutual' /\ Counted' /\ NoOrphan' /\ AutosendCovered'
      BY <2>1 DEF IInv, AttachmentMutual, Counted, Weight, NoOrphan, AutosendCovered, Queued
    <2> QED BY <2>2, <2>3 DEF IInv
  <1> QED BY <1>1, <1>2, <1>3, <1>4, <1>5, ReturnStep, SendAllStep DEF Next

THEOREM SessionsInvariant == Spec => []IInv
  BY InitIInv, NextIInv, PTL DEF Spec

-----------------------------------------------------------------------------
(***************************************************************************)
(* Connections, protocols and players have their types in every reachable  *)
(* state; the counter of references never wraps for a player that was      *)
(* loaded.                                                                 *)
(***************************************************************************)
THEOREM SessionsTypeCorrect == Spec => []TypeOK
  <1>1. IInv => TypeOK
    BY DEF IInv
  <1> QED BY <1>1, SessionsInvariant, PTL

(***************************************************************************)
(* A protocol has a player exactly as long as that player has it as its    *)
(* client (ProtocolGame::login, connect, release).                         *)
(***************************************************************************)
THEOREM SessionsAttachment == Spec => []AttachmentMutual
  <1>1. IInv => AttachmentMutual
    BY DEF IInv
  <1> QED BY <1>1, SessionsInvariant, PTL

(***************************************************************************)
(* A Player has exactly one reference for each holder (login, placeCreature,*)
(* addCreatureCheck, connect against release, cleanup, checkCreatures).    *)
(***************************************************************************)
THEOREM SessionsReferences == Spec => []RefsBalance
  <1>1. ASSUME IInv PROVE RefsBalance
    <2>1. SUFFICES ASSUME NEW o \in Conns PROVE Weight(o) = Holders(o)
      BY <1>1 DEF IInv, Counted, RefsBalance
    <2>2. Cardinality({c \in Conns : player[c] = o}) = IF client[o] = NoConn THEN 0 ELSE 1
      <3>1. CASE client[o] = NoConn
        <4>1. {c \in Conns : player[c] = o} = {}
          BY <1>1, <3>1 DEF IInv, AttachmentMutual
        <4> QED BY <3>1, <4>1, FS_EmptySet
      <3>2. CASE client[o] # NoConn
        <4>1. {c \in Conns : player[c] = o} = {client[o]}
          BY <1>1, <3>2 DEF IInv, TypeOK, AttachmentMutual
        <4> QED BY <3>2, <4>1, FS_Singleton
      <3> QED BY <3>1, <3>2
    <2> QED BY <2>2 DEF Weight, Holders
  <1> QED BY <1>1, SessionsInvariant, PTL

(***************************************************************************)
(* The dispatcher does not take away the player that the network thread,   *)
(* or a task that it has asked for, works on with a bare pointer           *)
(* (ProtocolGame::parsePacket).                                            *)
(***************************************************************************)
THEOREM SessionsPacketKeepsPlayer == Spec => []PacketKeepsPlayer
  <1>1. ASSUME IInv PROVE PacketKeepsPlayer
    <2>1. ASSUME NEW c \in Conns, thread = [in |-> "packet", on |-> c]
          PROVE  player[c] # NoPlayer /\ ~Queued("release", c)
      BY <1>1, <2>1 DEF IInv, Closing, PacketOpen
    <2>2. ASSUME NEW c \in Conns, NEW k \in DOMAIN queue, Asked(c, k)
          PROVE  /\ player[c] # NoPlayer
                 /\ \A j \in 1 .. k : queue[j] # Task("release", c)
      <3>1. player[c] # NoPlayer
        BY <1>1, <2>2 DEF IInv, Closing, Asked, Queued
      <3>2. ASSUME NEW j \in 1 .. k, queue[j] = Task("release", c) PROVE FALSE
        <4>1. j \in DOMAIN queue /\ k \in Nat /\ ~(k < j)
          BY <1>1, <2>2 DEF IInv, TypeOK
        <4> QED BY <1>1, <2>2, <3>2, <4>1 DEF IInv, Sorted, Asked
      <3> QED BY <3>1, <3>2
    <2> QED BY <2>1, <2>2 DEF PacketKeepsPlayer
  <1> QED BY <1>1, SessionsInvariant, PTL

(***************************************************************************)
(* A player attached to a closed connection has a release to come, unless  *)
(* it was attached late (the guard of ProtocolGame::connect).              *)
(***************************************************************************)
THEOREM SessionsNoOrphan == Spec => []NoOrphan
  <1>1. IInv => NoOrphan
    BY DEF IInv
  <1> QED BY <1>1, SessionsInvariant, PTL

(***************************************************************************)
(* While a protocol is in the autosend list it is there once, a sendAll is *)
(* armed, and a closed one has a release to come.                          *)
(***************************************************************************)
THEOREM SessionsAutosend == Spec => []AutosendCovered
  <1>1. IInv => AutosendCovered
    BY DEF IInv
  <1> QED BY <1>1, SessionsInvariant, PTL
=============================================================================
