--------------------------- MODULE SerialExecutor ---------------------------
(***************************************************************************)
(* What the dispatcher promises to its clients: tasks are accepted while   *)
(* it is open, run one at a time in list order, and every task that stands *)
(* at the head of the list is taken.  Locks, notifications and threads do  *)
(* not appear here.                                                        *)
(***************************************************************************)
EXTENDS Sequences

CONSTANTS
    AllTasks,    \* every task that can be submitted
    TimedTasks,  \* those that may be dropped instead of run
    Terminate,   \* the task that ends the executor
    NoTask

VARIABLES
    queue,       \* accepted and not yet taken
    running,     \* the task being run
    phase        \* "RUNNING", "CLOSING" (submissions are refused), "TERMINATED"

vars == <<queue, running, phase>>

Init == queue = <<>> /\ running = NoTask /\ phase = "RUNNING"

\* A submission is accepted, at the back or (a timer's) at the front.
Submit(k) ==
    /\ phase = "RUNNING"
    /\ k # Terminate
    /\ queue' = Append(queue, k) \/ queue' = <<k>> \o queue
    /\ UNCHANGED <<running, phase>>

\* The terminating task is accepted in every phase, and goes last.
SubmitTerminate ==
    /\ queue' = Append(queue, Terminate)
    /\ UNCHANGED <<running, phase>>

\* From now on submissions are refused; only a running task closes.
Close ==
    /\ running # NoTask
    /\ phase = "RUNNING"
    /\ phase' = "CLOSING"
    /\ UNCHANGED <<queue, running>>

Take ==
    /\ phase # "TERMINATED"
    /\ running = NoTask
    /\ queue # <<>>
    /\ queue' = Tail(queue)
    /\ \/ running' = Head(queue)
       \/ Head(queue) \in TimedTasks /\ UNCHANGED running
    /\ UNCHANGED phase

Finish ==
    /\ running # NoTask
    /\ running' = NoTask
    /\ phase' = IF running = Terminate THEN "TERMINATED" ELSE phase
    /\ UNCHANGED queue

Next == \/ \E k \in AllTasks : Submit(k)
        \/ SubmitTerminate
        \/ Close
        \/ Take
        \/ Finish

SafeSpec == Init /\ [][Next]_vars
Spec     == SafeSpec /\ WF_vars(Take) /\ WF_vars(Finish)
=============================================================================
