------------------------------ MODULE LiveCast ------------------------------
(***************************************************************************)
(* A player who casts, and spectators who come and go: the two locks of    *)
(* ProtocolGame::liveCastLock and of the caster's Connection, taken by the *)
(* dispatcher, which tells the caster who came, and by the network thread, *)
(* which copies to the spectators what is written to the caster.           *)
(*                                                                         *)
(* A thread that takes a lock, does nothing that may wait, and gives it    *)
(* back is one step.  The connections of the spectators are such: nothing  *)
(* is waited for under their locks.                                        *)
(***************************************************************************)
EXTENDS Naturals, Sequences

CONSTANTS
    Spectators,
    BufferSize,   \* messages that an OutputMessage takes
    MaxQueue      \* a bound on what waits to be written or broadcast

VARIABLES
    casting,      \* ProtocolGame::isCaster
    spectators,   \* ProtocolGame::spectators
    buffer,       \* Protocol::outputBuffer: how full it is, and whether to be broadcast
    queue,        \* Connection::messageQueue: which messages are to be broadcast
    posted,       \* broadcastMessage posted to the network thread
    dispatcher,   \* where the dispatcher is
    network       \* where the network thread is

cast == <<casting, spectators>>
vars == <<casting, spectators, buffer, queue, posted, dispatcher, network>>

Empty == [n |-> 0, broadcast |-> FALSE]

TypeOK ==
    /\ casting \in BOOLEAN
    /\ spectators \subseteq Spectators
    /\ buffer \in [n : 0 .. BufferSize, broadcast : BOOLEAN]
    /\ queue \in Seq(BOOLEAN)
    /\ posted \in 0 .. MaxQueue
    /\ dispatcher \in {"idle", "telling", "sending"}
    /\ network \in {"idle", "broadcasting"}

Init ==
    /\ casting = FALSE /\ spectators = {}
    /\ buffer = Empty /\ queue = <<>> /\ posted = 0
    /\ dispatcher = "idle" /\ network = "idle"

(* The dispatcher has liveCastLock from addSpectator or removeSpectator    *)
(* until it has told the caster; the network thread has the connection's   *)
(* lock until it has broadcast.                                            *)

LiveCastLocked   == dispatcher # "idle"
ConnectionLocked == network = "broadcasting"

Idle == dispatcher = "idle"

-----------------------------------------------------------------------------
(* The dispatcher.                                                         *)

\* Connection::send and internalSend.  From the dispatcher a broadcast is posted.
Send ==
    /\ ~ConnectionLocked
    /\ Len(queue) < MaxQueue /\ posted < MaxQueue
    /\ queue' = Append(queue, buffer.broadcast)
    /\ posted' = IF queue = <<>> /\ buffer.broadcast THEN posted + 1 ELSE posted

\* ProtocolGame::writeToOutputBuffer, and Protocol::getOutputBuffer when there is room.
Buffered(b) == [n |-> b.n + 1, broadcast |-> b.broadcast \/ casting]
Full == buffer.n = BufferSize

\* Any message to the caster.
Write ==
    /\ Idle
    /\ IF Full THEN Send /\ buffer' = Buffered(Empty)
               ELSE buffer' = Buffered(buffer) /\ UNCHANGED <<queue, posted>>
    /\ UNCHANGED <<cast, dispatcher, network>>

\* OutputMessagePool::sendAll
SendAll ==
    /\ Idle /\ buffer.n > 0
    /\ Send /\ buffer' = Empty
    /\ UNCHANGED <<cast, dispatcher, network>>

StartLiveCast ==
    /\ Idle /\ ~casting
    /\ casting' = TRUE
    /\ UNCHANGED <<spectators, buffer, queue, posted, dispatcher, network>>

\* The spectators are told outside of the lock, and forget the player.
StopLiveCast ==
    /\ Idle /\ casting
    /\ casting' = FALSE
    /\ spectators' = {}
    /\ UNCHANGED <<buffer, queue, posted, dispatcher, network>>

\* ProtocolSpectator::login, up to the message of ProtocolGame::addSpectator.
AddSpectator(s) ==
    /\ Idle /\ casting /\ s \notin spectators
    /\ spectators' = spectators \cup {s}
    /\ dispatcher' = "telling"
    /\ UNCHANGED <<casting, buffer, queue, posted, network>>

\* ProtocolSpectator::logout or release, up to the message of removeSpectator.
RemoveSpectator(s) ==
    /\ Idle /\ s \in spectators
    /\ spectators' = spectators \ {s}
    /\ dispatcher' = "telling"
    /\ UNCHANGED <<casting, buffer, queue, posted, network>>

\* sendChannelMessage of both.
Tell ==
    /\ dispatcher = "telling"
    /\ IF Full THEN dispatcher' = "sending" /\ UNCHANGED buffer
               ELSE dispatcher' = "idle" /\ buffer' = Buffered(buffer)
    /\ UNCHANGED <<cast, queue, posted, network>>

TellSends ==
    /\ dispatcher = "sending"
    /\ Send /\ buffer' = Buffered(Empty)
    /\ dispatcher' = "idle"
    /\ UNCHANGED <<cast, network>>

-----------------------------------------------------------------------------
(* The network thread.                                                     *)

\* Connection::onWriteOperation, and internalSend of the next message: on its own
\* thread a broadcast is run at once, inside the call.
OnWriteOperation ==
    /\ network = "idle" /\ queue # <<>>
    /\ queue' = Tail(queue)
    /\ network' = IF Tail(queue) # <<>> /\ Head(Tail(queue)) THEN "broadcasting" ELSE "idle"
    /\ UNCHANGED <<cast, buffer, posted, dispatcher>>

\* Connection::broadcastMessage, up to liveCastLock.
RunPosted ==
    /\ network = "idle" /\ posted > 0
    /\ posted' = posted - 1
    /\ network' = "broadcasting"
    /\ UNCHANGED <<cast, buffer, queue, dispatcher>>

Broadcast ==
    /\ network = "broadcasting" /\ ~LiveCastLocked
    /\ network' = "idle"
    /\ UNCHANGED <<cast, buffer, queue, posted, dispatcher>>

Next ==
    \/ Write \/ SendAll
    \/ StartLiveCast \/ StopLiveCast
    \/ \E s \in Spectators : AddSpectator(s) \/ RemoveSpectator(s)
    \/ Tell \/ TellSends
    \/ OnWriteOperation \/ RunPosted \/ Broadcast

Spec == Init /\ [][Next]_vars

-----------------------------------------------------------------------------

(***************************************************************************)
(* "DO NOT do any send operations here" (protocolgame.cpp:369, 382, under  *)
(* liveCastLock): so whoever has that lock never waits for a connection    *)
(* whose thread waits for that lock.                                       *)
(***************************************************************************)
NoCircularWait ==
    ~(/\ dispatcher = "sending" /\ LiveCastLocked /\ ConnectionLocked
      /\ network = "broadcasting")
=============================================================================
