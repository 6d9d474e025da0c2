----------------------------- MODULE Scheduler -----------------------------
(***************************************************************************)
(* The scheduler thread (scheduler.cpp, scheduler.h): a heap of one-shot   *)
(* events ordered by the time they are due, the set of the identifiers of  *)
(* those that were not stopped, and one thread that sleeps until the top   *)
(* of the heap is due and then hands the event to the dispatcher.          *)
(* stopEvent only erases the identifier; the event stays in the heap.      *)
(*                                                                         *)
(* A critical section of eventLock is one action.  The unlocked test of    *)
(* the thread state, the wait, the notify_one sent after the lock was      *)
(* released, the unlocked store at the start of shutdown, and the call     *)
(* into the dispatcher are steps of their own.                             *)
(***************************************************************************)
EXTENDS Naturals

CONSTANTS
    Clients,   \* the threads that call addEvent and stopEvent
    Game,      \* the one that ends the scheduler: the dispatcher, or main
    Events,    \* the SchedulerTask objects
    MaxId,     \* identifiers are 0 .. MaxId, 2^32 - 1 in the code
    Delays,    \* delays clients ask for
    MaxTime,   \* bound: the clock stops there
    NoEvent,
    Never      \* the deadline of a wait without one

ASSUME SchedulerAssumption ==
    /\ Game \in Clients
    /\ MaxId \in Nat \ {0}
    /\ Delays \subseteq Nat
    /\ MaxTime \in Nat
    /\ NoEvent \notin Events
    /\ Never \notin Nat

VARIABLES
    threadState,  \* ThreadHolder::threadState
    eventList,    \* Scheduler::eventList
    eventIds,     \* Scheduler::eventIds
    lastEventId,  \* Scheduler::lastEventId
    id,           \* SchedulerTask::eventId
    due,          \* Task::expiration
    pc,           \* where each client is
    arg,          \* the event a client hands to addEvent
    wpc,          \* where the scheduler thread is
    deadline,     \* what its wait_until waits for, Never outside a wait
    carried,      \* the event it is handing to the dispatcher
    fate,         \* what has become of each event
    stopped,      \* events whose stopEvent returned true (history)
    now           \* system_clock

vars == <<threadState, eventList, eventIds, lastEventId, id, due, pc, arg,
          wpc, deadline, carried, fate, stopped, now>>
data   == <<eventList, eventIds, lastEventId, id, due, fate, stopped>>
thread == <<wpc, deadline, carried>>

ClientPCs == {"idle", "call", "signal", "clearing", "notifying"}
WorkerPCs == {"check", "lock", "waiting", "woken", "handover", "exited"}
Fates     == {"new", "posting", "queued", "carried", "handed", "deleted"}

(***************************************************************************)
(* The one type invariant.                                                 *)
(***************************************************************************)
TypeOK ==
    /\ threadState \in {"RUNNING", "CLOSING", "TERMINATED"}
    /\ eventList \in SUBSET Events
    /\ eventIds \in SUBSET (1 .. MaxId)
    /\ lastEventId \in 0 .. MaxId
    /\ id \in [Events -> 0 .. MaxId]
    /\ due \in [Events -> Nat]
    /\ pc \in [Clients -> ClientPCs]
    /\ \A c \in Clients \ {Game} : pc[c] \in {"idle", "call", "signal"}
    /\ arg \in [Clients -> Events \cup {NoEvent}]
    /\ wpc \in WorkerPCs
    /\ deadline \in Nat \cup {Never}
    /\ carried \in Events \cup {NoEvent}
    /\ fate \in [Events -> Fates]
    /\ stopped \in SUBSET Events
    /\ now \in Nat

(* A running scheduler with nothing scheduled, at any point of its life:   *)
(* identifiers may have been generated before.                             *)
Init ==
    /\ threadState = "RUNNING"
    /\ eventList = {} /\ eventIds = {} /\ stopped = {}
    /\ lastEventId \in 0 .. MaxId
    /\ id = [e \in Events |-> 0]
    /\ due = [e \in Events |-> 0]
    /\ pc = [c \in Clients |-> "idle"]
    /\ arg = [c \in Clients |-> NoEvent]
    /\ wpc = "check" /\ deadline = Never /\ carried = NoEvent
    /\ fate = [e \in Events |-> "new"]
    /\ now = 0

-----------------------------------------------------------------------------
(* The clients.                                                            *)

\* createSchedulerTask fixes the due time; addEvent then asks for the lock.
BeginAddEvent(c, e, d) ==
    /\ pc[c] = "idle"
    /\ fate[e] = "new"
    /\ due' = [due EXCEPT ![e] = now + d]
    /\ fate' = [fate EXCEPT ![e] = "posting"]
    /\ arg' = [arg EXCEPT ![c] = e]
    /\ pc' = [pc EXCEPT ![c] = "call"]
    /\ UNCHANGED <<threadState, eventList, eventIds, lastEventId, id, stopped, now, thread>>

\* Mutant of NextId: the identifier 0 is not skipped.
NextIdWraps == (lastEventId + 1) % (MaxId + 1)

\* ++lastEventId on an unsigned integer, skipping the invalid identifier 0.
NextId == IF lastEventId = MaxId THEN 1 ELSE lastEventId + 1

\* Bound: fewer than MaxId identifiers are generated while an event is listed.
IdIsFree == \A f \in eventList : id[f] # NextId

\* Mutant of IsTop: only the first event of an empty list is signalled.
IsFirst(e) == eventList = {}

\* The comparator of the heap is strict: an event due at the same time as
\* the top does not become the top.
IsTop(e) == \A f \in eventList \ {e} : due[e] < due[f]

\* The critical section of addEvent when the scheduler is open.
Insert(c) ==
    LET e == arg[c] IN
    /\ pc[c] = "call"
    /\ threadState = "RUNNING"
    /\ IdIsFree
    /\ id' = [id EXCEPT ![e] = NextId]
    /\ lastEventId' = NextId
    /\ eventIds' = eventIds \cup {NextId}
    /\ eventList' = eventList \cup {e}
    /\ fate' = [fate EXCEPT ![e] = "queued"]
    /\ arg' = [arg EXCEPT ![c] = NoEvent]
    /\ pc' = [pc EXCEPT ![c] = IF IsTop(e) THEN "signal" ELSE "idle"]
    /\ UNCHANGED <<threadState, due, stopped, now, thread>>

\* The critical section of addEvent once it is closed: the event is deleted.
Refuse(c) ==
    /\ pc[c] = "call"
    /\ threadState # "RUNNING"
    /\ fate' = [fate EXCEPT ![arg[c]] = "deleted"]
    /\ arg' = [arg EXCEPT ![c] = NoEvent]
    /\ pc' = [pc EXCEPT ![c] = "idle"]
    /\ UNCHANGED <<threadState, eventList, eventIds, lastEventId, id, due, stopped, now, thread>>

\* notify_one: the scheduler thread is the only one that waits.
Notify == wpc' = IF wpc = "waiting" THEN "woken" ELSE wpc

Signal(c) ==
    /\ pc[c] = "signal"
    /\ Notify
    /\ pc' = [pc EXCEPT ![c] = "idle"]
    /\ UNCHANGED <<threadState, data, arg, deadline, carried, now>>

\* stopEvent with an identifier that addEvent returned, current or stale.
StopEvent(c, i) ==
    /\ pc[c] = "idle"
    /\ i \in eventIds
    /\ eventIds' = eventIds \ {i}
    /\ stopped' = stopped \cup {e \in eventList : id[e] = i}
    /\ UNCHANGED <<threadState, eventList, lastEventId, id, due, pc, arg, fate, now, thread>>

\* ThreadHolder::stop, from setGameState(GAME_STATE_SHUTDOWN).
Stop ==
    /\ pc[Game] = "idle"
    /\ threadState = "RUNNING"
    /\ threadState' = "CLOSING"
    /\ UNCHANGED <<data, pc, arg, now, thread>>

\* shutdown stores the state before it takes the lock ...
ShutdownStore ==
    /\ pc[Game] = "idle"
    /\ threadState # "TERMINATED"
    /\ threadState' = "TERMINATED"
    /\ pc' = [pc EXCEPT ![Game] = "clearing"]
    /\ UNCHANGED <<data, arg, now, thread>>

\* ... empties the heap and the set under the lock ...
ShutdownClear ==
    /\ pc[Game] = "clearing"
    /\ fate' = [e \in Events |-> IF e \in eventList THEN "deleted" ELSE fate[e]]
    /\ eventList' = {}
    /\ eventIds' = {}
    /\ pc' = [pc EXCEPT ![Game] = "notifying"]
    /\ UNCHANGED <<threadState, lastEventId, id, due, arg, stopped, now, thread>>

\* ... and notifies after the lock was released.
ShutdownNotify ==
    /\ pc[Game] = "notifying"
    /\ Notify
    /\ pc' = [pc EXCEPT ![Game] = "idle"]
    /\ UNCHANGED <<threadState, data, arg, deadline, carried, now>>

-----------------------------------------------------------------------------
(* The scheduler thread.                                                   *)

\* A top of the heap; events due at the same time come in any order.
IsMinimal(e) == e \in eventList /\ \A f \in eventList : due[e] <= due[f]

\* The loop condition, read without the lock.
CheckState ==
    /\ wpc = "check"
    /\ wpc' = IF threadState = "TERMINATED" THEN "exited" ELSE "lock"
    /\ UNCHANGED <<threadState, data, pc, arg, deadline, carried, now>>

\* Lock and wait: for a notification only, or also for the top to be due.
Wait ==
    /\ wpc = "lock"
    /\ IF eventList = {} THEN deadline' = Never
       ELSE \E e \in Events : IsMinimal(e) /\ deadline' = due[e]
    /\ wpc' = "waiting"
    /\ UNCHANGED <<threadState, data, pc, arg, carried, now>>

\* Mutant of Passed: a notification is taken for a timeout.
PassedOrNot == deadline # Never

Passed == deadline # Never /\ now >= deadline

\* The wait ends when its deadline passes, ...
Expire ==
    /\ wpc = "waiting"
    /\ Passed
    /\ wpc' = "woken"
    /\ UNCHANGED <<threadState, data, pc, arg, deadline, carried, now>>

\* ... or on its own.
SpuriousWakeup ==
    /\ wpc = "waiting"
    /\ wpc' = "woken"
    /\ UNCHANGED <<threadState, data, pc, arg, deadline, carried, now>>

\* wait_until takes the lock again and then compares the clock with its
\* deadline.  No timeout, or a heap emptied meanwhile: back to the loop.
PopNothing ==
    /\ wpc = "woken"
    /\ ~Passed \/ eventList = {}
    /\ wpc' = "check" /\ deadline' = Never
    /\ UNCHANGED <<threadState, data, pc, arg, carried, now>>

\* Mutant of PopEvent: the identifier is not looked up.
PopEventUnchecked(e) ==
    /\ wpc = "woken" /\ Passed
    /\ IsMinimal(e)
    /\ eventList' = eventList \ {e}
    /\ eventIds' = eventIds \ {id[e]}
    /\ fate' = [fate EXCEPT ![e] = "carried"]
    /\ carried' = e
    /\ wpc' = "handover" /\ deadline' = Never
    /\ UNCHANGED <<threadState, lastEventId, id, due, pc, arg, stopped, now>>

\* Mutant of PopEvent: the identifier stays behind.
PopEventKeepsId(e) ==
    /\ wpc = "woken" /\ Passed
    /\ IsMinimal(e)
    /\ id[e] \in eventIds
    /\ eventList' = eventList \ {e}
    /\ fate' = [fate EXCEPT ![e] = "carried"]
    /\ carried' = e
    /\ wpc' = "handover" /\ deadline' = Never
    /\ UNCHANGED <<threadState, eventIds, lastEventId, id, due, pc, arg, stopped, now>>

\* The top was not stopped: the thread leaves the lock with it.
PopEvent(e) ==
    /\ wpc = "woken" /\ Passed
    /\ IsMinimal(e)
    /\ id[e] \in eventIds
    /\ eventList' = eventList \ {e}
    /\ eventIds' = eventIds \ {id[e]}
    /\ fate' = [fate EXCEPT ![e] = "carried"]
    /\ carried' = e
    /\ wpc' = "handover" /\ deadline' = Never
    /\ UNCHANGED <<threadState, lastEventId, id, due, pc, arg, stopped, now>>

\* The top was stopped: it is deleted.
PopStopped(e) ==
    /\ wpc = "woken" /\ Passed
    /\ IsMinimal(e)
    /\ id[e] \notin eventIds
    /\ eventList' = eventList \ {e}
    /\ fate' = [fate EXCEPT ![e] = "deleted"]
    /\ wpc' = "check" /\ deadline' = Never
    /\ UNCHANGED <<threadState, eventIds, lastEventId, id, due, pc, arg, carried,
                   stopped, now>>

\* g_dispatcher.addTask(task, true).
HandOver ==
    /\ wpc = "handover"
    /\ fate' = [fate EXCEPT ![carried] = "handed"]
    /\ carried' = NoEvent
    /\ wpc' = "check"
    /\ UNCHANGED <<threadState, eventList, eventIds, lastEventId, id, due, pc, arg, deadline,
                   stopped, now>>

Tick == now < MaxTime /\ now' = now + 1 /\ UNCHANGED <<threadState, data, pc, arg, thread>>

-----------------------------------------------------------------------------
Client(c) == \/ \E e \in Events, d \in Delays : BeginAddEvent(c, e, d)
             \/ Insert(c)
             \/ Refuse(c)
             \/ Signal(c)
             \/ \E i \in 1 .. MaxId : StopEvent(c, i)

Shutdown == Stop \/ ShutdownStore \/ ShutdownClear \/ ShutdownNotify

Loop == \/ CheckState
        \/ Wait
        \/ Expire
        \/ PopNothing
        \/ \E e \in Events : PopEvent(e) \/ PopStopped(e)
        \/ HandOver

Next == \/ \E c \in Clients : Client(c)
        \/ Shutdown
        \/ Loop
        \/ SpuriousWakeup
        \/ Tick

(* A thread that has entered a call leaves it, the scheduler thread keeps  *)
(* running, and time passes.  No fairness makes a client call, the server  *)
(* shut down, or a wait end before its deadline without a notification.    *)
Fairness == /\ \A c \in Clients : WF_vars(Insert(c) \/ Refuse(c) \/ Signal(c))
            /\ WF_vars(ShutdownClear \/ ShutdownNotify)
            /\ WF_vars(Loop)
            /\ WF_vars(Tick)

Spec     == Init /\ [][Next]_vars
FairSpec == Spec /\ Fairness

-----------------------------------------------------------------------------
(* Properties.                                                             *)

(***************************************************************************)
(* addEvent notifies only for a new top, after it has released the lock,   *)
(* and the thread computes its deadline only when it starts to wait.  It   *)
(* must never sleep beyond the due time of an event unless the notify_one  *)
(* that shortens the sleep is still to come.                               *)
(***************************************************************************)
NoOversleep ==
    wpc = "waiting" =>
        \/ \A e \in eventList : deadline # Never /\ deadline <= due[e]
        \/ \E c \in Clients : pc[c] = "signal"

(***************************************************************************)
(* stopEvent returned true: the event is never handed to the dispatcher,   *)
(* although it stays in the heap until it is due, and although its         *)
(* identifier may be generated again later.                                *)
(***************************************************************************)
StoppedNeverFires ==
    \A e \in stopped : fate[e] \in {"queued", "deleted"}

(***************************************************************************)
(* eventIds and eventList are kept by different calls; together they say   *)
(* which events live.  An identifier that no listed event has would make   *)
(* stopEvent return true for nothing and stay for ever; a live event       *)
(* without one would be lost.                                              *)
(***************************************************************************)
IdsMatchEvents ==
    /\ eventIds = {id[e] : e \in eventList \ stopped}
    /\ \A e, f \in eventList : id[e] = id[f] => e = f

(***************************************************************************)
(* Seen from its clients the scheduler is a set of one-shot timers: none   *)
(* fires early, twice, or after it was cancelled, and while the scheduler  *)
(* is open every timer whose time comes fires.                             *)
(***************************************************************************)
TimerState(e) ==
    CASE e \in stopped                      -> "cancelled"
      [] fate[e] \in {"new", "posting"}     -> "idle"
      [] fate[e] \in {"carried", "handed"}  -> "fired"
      [] fate[e] = "queued" /\ e \notin stopped  -> "armed"
      [] fate[e] = "deleted" /\ e \notin stopped -> "dropped"

Timer == INSTANCE Timers WITH
    state <- [e \in Events |-> TimerState(e)],
    open  <- threadState = "RUNNING"
ImplementsTimers == Timer!Spec

(***************************************************************************)
(* SIGINT and SIGTERM "shut the server down" (signals.cpp:89 and 92), and  *)
(* main waits for this thread before it ends: once shutdown has stored the *)
(* state the thread should end.  It need not: the thread may have passed   *)
(* the loop condition, and then waits for a notification already sent.     *)
(***************************************************************************)
ShutdownEndsThread == threadState = "TERMINATED" ~> wpc = "exited"
=============================================================================
