----------------------------- MODULE Dispatcher -----------------------------
(***************************************************************************)
(* The dispatcher thread of the server (tasks.cpp, tasks.h), the object    *)
(* through which every other thread reaches the game state: a deque of     *)
(* tasks, a mutex, a condition variable, and one thread that runs the      *)
(* tasks one at a time.  The module also holds the two tasks that end it   *)
(* in good order (Game::setGameState(GAME_STATE_SHUTDOWN), which enqueues  *)
(* Game::shutdown and only then closes the dispatcher) and the path main   *)
(* takes when start-up failed.                                             *)
(*                                                                         *)
(* A critical section of taskLock is one action.  What happens outside the *)
(* lock is a step of its own: the unlocked test of the thread state at the *)
(* head of the loop, the unlocked store of ThreadHolder::stop, the wait on *)
(* the condition variable, and the notify_one that addTask sends after it  *)
(* has released the lock.                                                  *)
(***************************************************************************)
EXTENDS Naturals, Sequences, FiniteSets

CONSTANTS
    Producers,       \* threads other than the dispatcher that call addTask
    SchedulerThread, \* the producer that enqueues at the front
    Worker,          \* the dispatcher thread
    Tasks,           \* ordinary tasks
    TimedTasks,      \* those created with an expiration
    CloseTask,       \* a task that runs setGameState(GAME_STATE_SHUTDOWN)
    GameShutdown,    \* the task that runs Game::shutdown
    Terminate,       \* the task Dispatcher::shutdown creates
    NoTask

ASSUME DispatcherAssumption ==
    /\ SchedulerThread \in Producers
    /\ Worker \notin Producers
    /\ TimedTasks \subseteq Tasks
    /\ {CloseTask, GameShutdown, Terminate, NoTask} \cap Tasks = {}
    /\ CloseTask \notin {GameShutdown, Terminate, NoTask}
    /\ GameShutdown \notin {Terminate, NoTask}
    /\ Terminate # NoTask

Occurs(k, s) == \E i \in 1 .. Len(s) : s[i] = k
NoRepeat(s)  == \A i, j \in 1 .. Len(s) : s[i] = s[j] => i = j

AllTasks == Tasks \cup {CloseTask, GameShutdown, Terminate}
Threads  == Producers \cup {Worker}

VARIABLES
    threadState,   \* ThreadHolder::threadState
    taskList,      \* Dispatcher::taskList
    pc,            \* where each thread is
    arg,           \* the task a thread hands to addTask
    current,       \* the task the worker is running
    fate,          \* what has become of each task object
    startupFailed  \* no service came up: main shuts the server down itself

vars == <<threadState, taskList, pc, arg, current, fate, startupFailed>>

WorkerPCs   == {"check", "lock", "waiting", "woken", "running", "call",
                "signal", "exited"}
ProducerPCs == {"idle", "call", "signal"}
Fates == {"new", "posting", "queued", "running", "done", "expired", "refused"}

(***************************************************************************)
(* The one type invariant.  A task is in the list at most once.            *)
(***************************************************************************)
TypeOK ==
    /\ threadState \in {"RUNNING", "CLOSING", "TERMINATED"}
    /\ taskList \in Seq(AllTasks)
    /\ pc \in [Threads -> WorkerPCs \cup ProducerPCs]
    /\ pc[Worker] \in WorkerPCs
    /\ \A p \in Producers : pc[p] \in ProducerPCs
    /\ arg \in [Threads -> AllTasks \cup {NoTask}]
    /\ current \in AllTasks \cup {NoTask}
    /\ fate \in [AllTasks -> Fates]
    /\ startupFailed \in BOOLEAN

(* The server after Dispatcher::start; whether start-up succeeds is decided *)
(* by the files and ports the loader finds.                                 *)
Init ==
    /\ threadState = "RUNNING"
    /\ taskList = <<>>
    /\ pc = [t \in Threads |-> IF t = Worker THEN "check" ELSE "idle"]
    /\ arg = [t \in Threads |-> NoTask]
    /\ current = NoTask
    /\ fate = [k \in AllTasks |-> "new"]
    /\ startupFailed \in BOOLEAN

-----------------------------------------------------------------------------
(* addTask and shutdown, called by any thread.                             *)

\* Where a thread resumes when a call into the dispatcher returns.
Home(t) == IF t = Worker THEN "running" ELSE "idle"

\* notify_one: the worker is the only thread that waits on taskSignal.
Notified(p) == IF p[Worker] = "waiting" THEN [p EXCEPT ![Worker] = "woken"] ELSE p

\* A thread creates a task and calls addTask with it.
BeginAddTask(t, k) ==
    /\ pc[t] = Home(t)
    /\ fate[k] = "new"
    /\ fate' = [fate EXCEPT ![k] = "posting"]
    /\ arg' = [arg EXCEPT ![t] = k]
    /\ pc' = [pc EXCEPT ![t] = "call"]
    /\ UNCHANGED <<threadState, taskList, current, startupFailed>>

\* Mutant of Enqueue: the list is tested after the push, not before it.
EnqueueTestsLate(t) ==
    /\ pc[t] = "call"
    /\ threadState = "RUNNING"
    /\ taskList' = Append(taskList, arg[t])
    /\ fate' = [fate EXCEPT ![arg[t]] = "queued"]
    /\ arg' = [arg EXCEPT ![t] = NoTask]
    /\ pc' = [pc EXCEPT ![t] = IF taskList' = <<>> THEN "signal" ELSE Home(t)]
    /\ UNCHANGED <<threadState, current, startupFailed>>

\* The critical section when the dispatcher is open.
Enqueue(t) ==
    /\ pc[t] = "call"
    /\ threadState = "RUNNING"
    /\ taskList' = IF t = SchedulerThread THEN <<arg[t]>> \o taskList
                                          ELSE Append(taskList, arg[t])
    /\ fate' = [fate EXCEPT ![arg[t]] = "queued"]
    /\ arg' = [arg EXCEPT ![t] = NoTask]
    /\ pc' = [pc EXCEPT ![t] = IF taskList = <<>> THEN "signal" ELSE Home(t)]
    /\ UNCHANGED <<threadState, current, startupFailed>>

\* Mutant of Refuse: the refused task is deleted, but pushed all the same.
RefuseButPush(t) ==
    /\ pc[t] = "call"
    /\ threadState # "RUNNING"
    /\ taskList' = Append(taskList, arg[t])
    /\ fate' = [fate EXCEPT ![arg[t]] = "refused"]
    /\ arg' = [arg EXCEPT ![t] = NoTask]
    /\ pc' = [pc EXCEPT ![t] = Home(t)]
    /\ UNCHANGED <<threadState, current, startupFailed>>

\* The critical section once stop has been called: the task is deleted.
Refuse(t) ==
    /\ pc[t] = "call"
    /\ threadState # "RUNNING"
    /\ fate' = [fate EXCEPT ![arg[t]] = "refused"]
    /\ arg' = [arg EXCEPT ![t] = NoTask]
    /\ pc' = [pc EXCEPT ![t] = Home(t)]
    /\ UNCHANGED <<threadState, taskList, current, startupFailed>>

\* Mutant of Signal: the dispatcher thread forgets that it is inside a task.
SignalForgets(t) ==
    /\ pc[t] = "signal"
    /\ pc' = Notified([pc EXCEPT ![t] = "idle"])
    /\ UNCHANGED <<threadState, taskList, arg, current, fate, startupFailed>>

\* The notify_one after the lock was released.
Signal(t) ==
    /\ pc[t] = "signal"
    /\ pc' = Notified([pc EXCEPT ![t] = Home(t)])
    /\ UNCHANGED <<threadState, taskList, arg, current, fate, startupFailed>>

\* Mutant of PushTerminate: the terminating task jumps the queue.
PushTerminateFirst ==
    /\ fate[Terminate] = "new"
    /\ taskList' = <<Terminate>> \o taskList
    /\ fate' = [fate EXCEPT ![Terminate] = "queued"]
    /\ pc' = Notified(pc)
    /\ UNCHANGED <<threadState, arg, current, startupFailed>>

\* Mutant of PushTerminate: it goes through addTask, which is closed.
PushTerminateRefused ==
    /\ fate[Terminate] = "new"
    /\ taskList' = IF threadState = "RUNNING" THEN Append(taskList, Terminate) ELSE taskList
    /\ fate' = [fate EXCEPT ![Terminate] = IF threadState = "RUNNING" THEN "queued" ELSE "refused"]
    /\ pc' = Notified(pc)
    /\ UNCHANGED <<threadState, arg, current, startupFailed>>

\* Dispatcher::shutdown: pushes the terminating task whatever the state is,
\* and notifies while it holds the lock.
PushTerminate ==
    /\ fate[Terminate] = "new"
    /\ taskList' = Append(taskList, Terminate)
    /\ fate' = [fate EXCEPT ![Terminate] = "queued"]
    /\ pc' = Notified(pc)
    /\ UNCHANGED <<threadState, arg, current, startupFailed>>

-----------------------------------------------------------------------------
(* The dispatcher thread.                                                  *)

WorkerAt(l) == pc[Worker] = l
WorkerTo(l) == pc' = [pc EXCEPT ![Worker] = l]

\* Mutant of CheckState: the loop ends as soon as the dispatcher is closed.
CheckStateClosed ==
    /\ WorkerAt("check")
    /\ WorkerTo(IF threadState # "RUNNING" THEN "exited" ELSE "lock")
    /\ UNCHANGED <<threadState, taskList, arg, current, fate, startupFailed>>

\* The loop condition, read without the lock.
CheckState ==
    /\ WorkerAt("check")
    /\ WorkerTo(IF threadState = "TERMINATED" THEN "exited" ELSE "lock")
    /\ UNCHANGED <<threadState, taskList, arg, current, fate, startupFailed>>

\* Lock and find nothing: wait, with no predicate.
Wait ==
    /\ WorkerAt("lock")
    /\ taskList = <<>>
    /\ WorkerTo("waiting")
    /\ UNCHANGED <<threadState, taskList, arg, current, fate, startupFailed>>

\* A condition variable may also return on its own.
SpuriousWakeup ==
    /\ WorkerAt("waiting")
    /\ WorkerTo("woken")
    /\ UNCHANGED <<threadState, taskList, arg, current, fate, startupFailed>>

\* Woken, and the list is still empty.
FindNothing ==
    /\ WorkerAt("woken")
    /\ taskList = <<>>
    /\ WorkerTo("check")
    /\ UNCHANGED <<threadState, taskList, arg, current, fate, startupFailed>>

\* Mutant of TakeTask: front() without pop_front().
TakeTaskNoPop ==
    /\ pc[Worker] \in {"lock", "woken"}
    /\ taskList # <<>>
    /\ current' = Head(taskList)
    /\ fate' = [fate EXCEPT ![Head(taskList)] = "running"]
    /\ WorkerTo("running")
    /\ UNCHANGED <<threadState, taskList, arg, startupFailed>>

\* Mutant of TakeTask: the newest task first.
TakeTaskNewest ==
    /\ pc[Worker] \in {"lock", "woken"}
    /\ taskList # <<>>
    /\ taskList' = SubSeq(taskList, 1, Len(taskList) - 1)
    /\ current' = taskList[Len(taskList)]
    /\ fate' = [fate EXCEPT ![current'] = "running"]
    /\ WorkerTo("running")
    /\ UNCHANGED <<threadState, arg, startupFailed>>

\* Pop the first task under the lock and run it outside.
TakeTask ==
    /\ pc[Worker] \in {"lock", "woken"}
    /\ taskList # <<>>
    /\ taskList' = Tail(taskList)
    /\ current' = Head(taskList)
    /\ fate' = [fate EXCEPT ![Head(taskList)] = "running"]
    /\ WorkerTo("running")
    /\ UNCHANGED <<threadState, arg, startupFailed>>

\* Pop a task whose expiration has passed: it is deleted unrun.
DropExpired ==
    /\ pc[Worker] \in {"lock", "woken"}
    /\ taskList # <<>>
    /\ Head(taskList) \in TimedTasks
    /\ taskList' = Tail(taskList)
    /\ fate' = [fate EXCEPT ![Head(taskList)] = "expired"]
    /\ WorkerTo("check")
    /\ UNCHANGED <<threadState, arg, current, startupFailed>>

\* (*task)() has returned; the task goes to the statistics thread.
FinishTask ==
    /\ WorkerAt("running")
    /\ CASE current = CloseTask    -> threadState # "RUNNING"
         [] current = GameShutdown -> fate[Terminate] # "new"
         [] OTHER                  -> TRUE
    /\ current # Terminate
    /\ fate' = [fate EXCEPT ![current] = "done"]
    /\ current' = NoTask
    /\ WorkerTo("check")
    /\ UNCHANGED <<threadState, taskList, arg, startupFailed>>

\* setGameState(GAME_STATE_SHUTDOWN) enqueues Game::shutdown ...
CloseEnqueuesShutdown ==
    /\ current = CloseTask
    /\ BeginAddTask(Worker, GameShutdown)

\* ... and then stops the dispatcher, without taking the lock.
Stop ==
    /\ WorkerAt("running")
    /\ current = CloseTask
    /\ fate[GameShutdown] \notin {"new", "posting"}
    /\ threadState = "RUNNING"
    /\ threadState' = "CLOSING"
    /\ UNCHANGED <<taskList, pc, arg, current, fate, startupFailed>>

\* Game::shutdown calls Dispatcher::shutdown.
GameShuts ==
    /\ WorkerAt("running")
    /\ current = GameShutdown
    /\ PushTerminate

\* The terminating task: it stores the state and notifies (nobody waits).
RunTerminate ==
    /\ WorkerAt("running")
    /\ current = Terminate
    /\ threadState' = "TERMINATED"
    /\ fate' = [fate EXCEPT ![Terminate] = "done"]
    /\ current' = NoTask
    /\ WorkerTo("check")
    /\ UNCHANGED <<taskList, arg, startupFailed>>

-----------------------------------------------------------------------------
(* The other threads.                                                      *)

\* main after a failed start-up: shutdown without a stop before it.
MainShuts == startupFailed /\ PushTerminate

\* A signal reaches the io_context of a server that came up.
SignalArrives(p) ==
    /\ ~startupFailed
    /\ p # SchedulerThread
    /\ BeginAddTask(p, CloseTask)

AddTask(t) ==
    \/ \E k \in Tasks : /\ k \in TimedTasks => t \notin {Worker, SchedulerThread}
                        /\ ~(t = Worker /\ current = Terminate)
                        /\ BeginAddTask(t, k)
    \/ Enqueue(t)
    \/ Refuse(t)
    \/ Signal(t)

RunLoop == \/ CheckState
           \/ Wait
           \/ FindNothing
           \/ TakeTask
           \/ DropExpired

RunTask == \/ CloseEnqueuesShutdown
           \/ Stop
           \/ GameShuts
           \/ RunTerminate
           \/ FinishTask

Next == \/ \E t \in Threads : AddTask(t)
        \/ \E p \in Producers : SignalArrives(p)
        \/ RunLoop
        \/ SpuriousWakeup
        \/ RunTask
        \/ MainShuts

(* Every thread that has entered a call leaves it, and the dispatcher       *)
(* thread keeps running: it returns from every task it runs.  No fairness   *)
(* makes a client call addTask, a signal arrive or a wait end by itself.    *)
Fairness == /\ \A t \in Threads : WF_vars(Enqueue(t) \/ Refuse(t) \/ Signal(t))
            /\ WF_vars(RunLoop)
            /\ WF_vars(RunTask)

Spec     == Init /\ [][Next]_vars
FairSpec == Spec /\ Fairness

-----------------------------------------------------------------------------
(* Properties.                                                             *)

(***************************************************************************)
(* addTask notifies only when it found the list empty, and after it has    *)
(* released the lock; the worker waits with no predicate.  The worker must *)
(* never sleep on a list that holds tasks unless the notify_one that ends  *)
(* the sleep is still to come.                                             *)
(***************************************************************************)
NoLostWakeup ==
    WorkerAt("waiting") /\ taskList # <<>> => \E p \in Producers : pc[p] = "signal"

(***************************************************************************)
(* In the orderly path the server relies on the terminating task being the *)
(* last one of the dispatcher's life: Game::shutdown is enqueued before    *)
(* stop, so nothing a client submitted and addTask accepted may still be   *)
(* in the list when the thread returns from threadMain.                    *)
(***************************************************************************)
DrainedAtExit ==
    ~startupFailed /\ WorkerAt("exited") => \A k \in AllTasks : fate[k] # "queued"

(***************************************************************************)
(* Task pointers are raw: every live task has exactly one owner, the list  *)
(* (at one position), the call that is adding it, or the worker running    *)
(* it.  Otherwise a task is run twice, deleted twice, or leaked.           *)
(***************************************************************************)
OneOwner ==
    /\ NoRepeat(taskList)
    /\ \A k \in AllTasks :
         /\ fate[k] = "queued"  <=> Occurs(k, taskList)
         /\ fate[k] = "running" <=> current = k
         /\ fate[k] = "posting" <=> \E t \in Threads : arg[t] = k
    /\ \A t, u \in Threads : arg[t] = arg[u] /\ arg[t] # NoTask => t = u

(***************************************************************************)
(* SIGINT and SIGTERM "shut the server down" (signals.cpp): once the       *)
(* dispatcher has accepted the handler, its thread ends, whatever the      *)
(* other threads submit meanwhile.  So it does when main shuts it down     *)
(* after a failed start-up (otserv.cpp:179), and then joins it.            *)
(***************************************************************************)
CloseEndsWorker ==
    (fate[CloseTask] = "queued" \/ fate[Terminate] = "queued") ~> WorkerAt("exited")

(***************************************************************************)
(* Seen from its clients the dispatcher is a serial executor, in which     *)
(* addTask and the taking of a task are single steps, there is no          *)
(* condition variable, and a task at the head is always taken.             *)
(***************************************************************************)
Executor == INSTANCE SerialExecutor WITH
    queue   <- taskList,
    running <- current,
    phase   <- threadState
ImplementsExecutor == Executor!Spec
=============================================================================
