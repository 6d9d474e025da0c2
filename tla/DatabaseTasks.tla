--------------------------- MODULE DatabaseTasks ---------------------------
(***************************************************************************)
(* The thread that runs database queries (databasetasks.cpp).  It differs  *)
(* from the dispatcher in that its list has a second consumer: flush, which *)
(* the dispatcher thread calls when it saves the game state and when it    *)
(* shuts the server down, runs queries in the caller's thread while the    *)
(* worker may still be running one of its own.  A query's callback goes to *)
(* the dispatcher.                                                         *)
(*                                                                         *)
(* A critical section of taskLock is one action; Database::executeQuery    *)
(* and storeQuery hold the lock of the connection, so one query is one     *)
(* step.                                                                   *)
(***************************************************************************)
EXTENDS Naturals, Sequences

CONSTANTS
    Clients,  \* threads that call addTask
    Game,     \* the one that calls flush and shutdown
    Worker,   \* the database thread
    Queries,  \* the queries submitted
    NoQuery

ASSUME DatabaseTasksAssumption ==
    /\ Game \in Clients
    /\ Worker \notin Clients
    /\ NoQuery \notin Queries

VARIABLES
    threadState,  \* ThreadHolder::threadState
    tasks,        \* DatabaseTasks::tasks
    pc,           \* where each thread is
    inFlight,     \* the query each thread has popped or is submitting
    accepted,     \* the queries accepted, in order (history)
    executed,     \* the queries run, in order
    callbacks,    \* the callbacks handed to the dispatcher, in order
    closing       \* shutdown was called: Game's flush is the last

vars == <<threadState, tasks, pc, inFlight, accepted, executed, callbacks, closing>>

Threads == Clients \cup {Worker}
Consumers == {Worker, Game}

ClientPCs == {"idle", "call", "signal", "flush", "run", "post", "notify"}
WorkerPCs == {"check", "lock", "waiting", "woken", "run", "post", "exited"}

Occurs(q, s) == \E i \in 1 .. Len(s) : s[i] = q

(***************************************************************************)
(* The one type invariant.                                                 *)
(***************************************************************************)
TypeOK ==
    /\ threadState \in {"RUNNING", "CLOSING", "TERMINATED"}
    /\ \A s \in {tasks, accepted, executed, callbacks} : s \in Seq(Queries)
    /\ pc \in [Threads -> ClientPCs \cup WorkerPCs]
    /\ pc[Worker] \in WorkerPCs
    /\ pc[Game] \in ClientPCs
    /\ \A c \in Clients \ {Game} : pc[c] \in {"idle", "call", "signal"}
    /\ inFlight \in [Threads -> Queries \cup {NoQuery}]
    /\ closing \in BOOLEAN

(* After DatabaseTasks::start.                                             *)
Init ==
    /\ threadState = "RUNNING"
    /\ tasks = <<>> /\ accepted = <<>> /\ executed = <<>> /\ callbacks = <<>>
    /\ pc = [t \in Threads |-> IF t = Worker THEN "check" ELSE "idle"]
    /\ inFlight = [t \in Threads |-> NoQuery]
    /\ closing = FALSE

Goto(t, l) == pc' = [pc EXCEPT ![t] = l]

\* notify_one: only the worker waits on taskSignal.
Notified(p) == IF p[Worker] = "waiting" THEN [p EXCEPT ![Worker] = "woken"] ELSE p

-----------------------------------------------------------------------------
(* addTask.                                                                *)

Fresh(q) == ~Occurs(q, accepted) /\ \A t \in Threads : inFlight[t] # q

BeginAddTask(c, q) ==
    /\ pc[c] = "idle"
    /\ Fresh(q)
    /\ inFlight' = [inFlight EXCEPT ![c] = q]
    /\ Goto(c, "call")
    /\ UNCHANGED <<threadState, tasks, accepted, executed, callbacks, closing>>

\* Mutant of Enqueue: the list is tested after the push.
EnqueueTestsLate(c) ==
    /\ pc[c] = "call"
    /\ threadState = "RUNNING"
    /\ tasks' = Append(tasks, inFlight[c])
    /\ accepted' = Append(accepted, inFlight[c])
    /\ inFlight' = [inFlight EXCEPT ![c] = NoQuery]
    /\ Goto(c, IF tasks' = <<>> THEN "signal" ELSE "idle")
    /\ UNCHANGED <<threadState, executed, callbacks, closing>>

Enqueue(c) ==
    /\ pc[c] = "call"
    /\ threadState = "RUNNING"
    /\ tasks' = Append(tasks, inFlight[c])
    /\ accepted' = Append(accepted, inFlight[c])
    /\ inFlight' = [inFlight EXCEPT ![c] = NoQuery]
    /\ Goto(c, IF tasks = <<>> THEN "signal" ELSE "idle")
    /\ UNCHANGED <<threadState, executed, callbacks, closing>>

\* Once stop was called a query is dropped without a word to the caller.
Drop(c) ==
    /\ pc[c] = "call"
    /\ threadState # "RUNNING"
    /\ inFlight' = [inFlight EXCEPT ![c] = NoQuery]
    /\ Goto(c, "idle")
    /\ UNCHANGED <<threadState, tasks, accepted, executed, callbacks, closing>>

Signal(c) ==
    /\ pc[c] = "signal"
    /\ pc' = Notified([pc EXCEPT ![c] = "idle"])
    /\ UNCHANGED <<threadState, tasks, inFlight, accepted, executed, callbacks, closing>>

-----------------------------------------------------------------------------
(* Running a query, in either consumer.                                    *)

\* Mutant of Pop: the query is copied and stays in the list.
PopCopies(t) ==
    /\ tasks # <<>>
    /\ inFlight' = [inFlight EXCEPT ![t] = Head(tasks)]
    /\ Goto(t, "run")
    /\ UNCHANGED <<threadState, tasks, accepted, executed, callbacks, closing>>

\* Mutant of Pop: back() instead of front().
PopNewest(t) ==
    /\ tasks # <<>>
    /\ tasks' = SubSeq(tasks, 1, Len(tasks) - 1)
    /\ inFlight' = [inFlight EXCEPT ![t] = tasks[Len(tasks)]]
    /\ Goto(t, "run")
    /\ UNCHANGED <<threadState, accepted, executed, callbacks, closing>>

Pop(t) ==
    /\ tasks # <<>>
    /\ tasks' = Tail(tasks)
    /\ inFlight' = [inFlight EXCEPT ![t] = Head(tasks)]
    /\ Goto(t, "run")
    /\ UNCHANGED <<threadState, accepted, executed, callbacks, closing>>

Execute(t) ==
    /\ t \in Consumers
    /\ pc[t] = "run"
    /\ executed' = Append(executed, inFlight[t])
    /\ Goto(t, "post")
    /\ UNCHANGED <<threadState, tasks, inFlight, accepted, callbacks, closing>>

\* Mutant of PostCallback: flush goes on in the worker's loop.
PostCallbackToLoop(t) ==
    /\ t \in Consumers
    /\ pc[t] = "post"
    /\ \/ callbacks' = Append(callbacks, inFlight[t])
       \/ UNCHANGED callbacks
    /\ inFlight' = [inFlight EXCEPT ![t] = NoQuery]
    /\ Goto(t, "check")
    /\ UNCHANGED <<threadState, tasks, accepted, executed, closing>>

\* The callback, if there is one, is a task for the dispatcher.
PostCallback(t) ==
    /\ t \in Consumers
    /\ pc[t] = "post"
    /\ \/ callbacks' = Append(callbacks, inFlight[t])
       \/ UNCHANGED callbacks
    /\ inFlight' = [inFlight EXCEPT ![t] = NoQuery]
    /\ Goto(t, IF t = Worker THEN "check" ELSE "flush")
    /\ UNCHANGED <<threadState, tasks, accepted, executed, closing>>

-----------------------------------------------------------------------------
(* The database thread.                                                    *)

CheckState ==
    /\ pc[Worker] = "check"
    /\ Goto(Worker, IF threadState = "TERMINATED" THEN "exited" ELSE "lock")
    /\ UNCHANGED <<threadState, tasks, inFlight, accepted, executed, callbacks, closing>>

Wait ==
    /\ pc[Worker] = "lock"
    /\ tasks = <<>>
    /\ Goto(Worker, "waiting")
    /\ UNCHANGED <<threadState, tasks, inFlight, accepted, executed, callbacks, closing>>

SpuriousWakeup ==
    /\ pc[Worker] = "waiting"
    /\ Goto(Worker, "woken")
    /\ UNCHANGED <<threadState, tasks, inFlight, accepted, executed, callbacks, closing>>

FindNothing ==
    /\ pc[Worker] = "woken"
    /\ tasks = <<>>
    /\ Goto(Worker, "check")
    /\ UNCHANGED <<threadState, tasks, inFlight, accepted, executed, callbacks, closing>>

WorkerPop == pc[Worker] \in {"lock", "woken"} /\ Pop(Worker)

-----------------------------------------------------------------------------
(* The dispatcher thread: flush (saveGameState), stop and shutdown.        *)

BeginFlush ==
    /\ pc[Game] = "idle"
    /\ Goto(Game, "flush")
    /\ UNCHANGED <<threadState, tasks, inFlight, accepted, executed, callbacks, closing>>

FlushPop == pc[Game] = "flush" /\ Pop(Game)

\* Mutant of EndFlush: shutdown does not wait for the list to be empty.
EndFlushEarly ==
    /\ pc[Game] = "flush"
    /\ Goto(Game, IF closing THEN "notify" ELSE "idle")
    /\ UNCHANGED <<threadState, tasks, inFlight, accepted, executed, callbacks, closing>>

EndFlush ==
    /\ pc[Game] = "flush"
    /\ tasks = <<>>
    /\ Goto(Game, IF closing THEN "notify" ELSE "idle")
    /\ UNCHANGED <<threadState, tasks, inFlight, accepted, executed, callbacks, closing>>

Stop ==
    /\ pc[Game] = "idle"
    /\ threadState = "RUNNING"
    /\ threadState' = "CLOSING"
    /\ UNCHANGED <<tasks, pc, inFlight, accepted, executed, callbacks, closing>>

\* shutdown stores the state under the lock, then flushes, then notifies.
Shutdown ==
    /\ pc[Game] = "idle"
    /\ ~closing
    /\ closing' = TRUE
    /\ threadState' = "TERMINATED"
    /\ Goto(Game, "flush")
    /\ UNCHANGED <<tasks, inFlight, accepted, executed, callbacks>>

ShutdownNotify ==
    /\ pc[Game] = "notify"
    /\ pc' = Notified([pc EXCEPT ![Game] = "idle"])
    /\ UNCHANGED <<threadState, tasks, inFlight, accepted, executed, callbacks, closing>>

-----------------------------------------------------------------------------
AddTask(c) == \/ \E q \in Queries : BeginAddTask(c, q)
              \/ Enqueue(c)
              \/ Drop(c)
              \/ Signal(c)

Loop == CheckState \/ Wait \/ FindNothing \/ WorkerPop

RunQuery(t) == Execute(t) \/ PostCallback(t)

GameCalls == BeginFlush \/ FlushPop \/ EndFlush \/ Stop \/ Shutdown \/ ShutdownNotify

Next == \/ \E c \in Clients : AddTask(c)
        \/ Loop
        \/ SpuriousWakeup
        \/ \E t \in Consumers : RunQuery(t)
        \/ GameCalls

(* Threads finish the calls they have entered, and the database answers.   *)
Fairness == /\ \A c \in Clients : WF_vars(Enqueue(c) \/ Drop(c) \/ Signal(c))
            /\ WF_vars(Loop)
            /\ \A t \in Consumers : WF_vars(RunQuery(t))
            /\ WF_vars(FlushPop \/ EndFlush \/ ShutdownNotify)

Spec     == Init /\ [][Next]_vars
FairSpec == Spec /\ Fairness

-----------------------------------------------------------------------------
(* Properties.                                                             *)

(***************************************************************************)
(* Two consumers pop the list, and a query is often not idempotent: it is  *)
(* accepted, held by one thread, and run, once each.  The order matters    *)
(* too (an insert before the update of its row): a query is only overtaken *)
(* while a thread already holds it, never while it is still in the list.   *)
(***************************************************************************)
RunOnceInOrder ==
    /\ \A i, j \in 1 .. Len(executed) : executed[i] = executed[j] => i = j
    /\ \A q \in Queries :
        /\ Occurs(q, tasks)    => ~Occurs(q, executed) /\ \A t \in Consumers : inFlight[t] # q
        /\ Occurs(q, executed) => Occurs(q, accepted)
    /\ \A i, j \in 1 .. Len(accepted) :
        i < j /\ Occurs(accepted[j], executed) => ~Occurs(accepted[i], tasks)

(***************************************************************************)
(* The state is TERMINATED only after the queries accepted so far are, or  *)
(* are about to be, run: when shutdown has flushed, none is left in the    *)
(* list, and none enters it again.                                         *)
(***************************************************************************)
ShutdownDrains == closing /\ pc[Game] \in {"notify", "idle"} => tasks = <<>>

(***************************************************************************)
(* Every accepted query is run: no wake-up is lost while the server is up, *)
(* and the shutdown runs what the thread leaves behind.                    *)
(***************************************************************************)
AcceptedIsExecuted ==
    \A q \in Queries : Occurs(q, accepted) ~> Occurs(q, executed)
=============================================================================
