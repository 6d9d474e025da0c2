-------------------------- MODULE DispatcherProofs --------------------------
(***************************************************************************)
(* Theorems about the dispatcher, for any number of client threads and     *)
(* tasks.  The invariant IInv strengthens the three safety invariants of   *)
(* the module Dispatcher: that the orderly shutdown drains the list rests  *)
(* on who can be running when the terminating task is pushed.              *)
(***************************************************************************)
EXTENDS Dispatcher, SequenceTheorems, TLAPS

USE DispatcherAssumption

(* What popping and pushing do to the occurrences of a task in a list.     *)
LEMMA AppendOccurs ==
    ASSUME NEW S, NEW s \in Seq(S), NEW e \in S, NoRepeat(s), ~Occurs(e, s)
    PROVE  /\ Append(s, e) \in Seq(S)
           /\ NoRepeat(Append(s, e))
           /\ \A k : Occurs(k, Append(s, e)) <=> (k = e \/ Occurs(k, s))
  <1> DEFINE a == Append(s, e)
  <1>1. /\ a \in Seq(S)
        /\ Len(a) = Len(s) + 1
        /\ Len(s) \in Nat
        /\ a[Len(s) + 1] = e
        /\ \A i \in 1 .. Len(s) : a[i] = s[i]
    OBVIOUS
  <1> HIDE DEF a
  <1>2. NoRepeat(a)
    BY <1>1 DEF NoRepeat, Occurs
  <1>3. \A k : Occurs(k, a) <=> (k = e \/ Occurs(k, s))
    BY <1>1 DEF Occurs
  <1> QED BY <1>1, <1>2, <1>3 DEF a

LEMMA ConsOccurs ==
    ASSUME NEW S, NEW s \in Seq(S), NEW e \in S, NoRepeat(s), ~Occurs(e, s)
    PROVE  /\ <<e>> \o s \in Seq(S)
           /\ NoRepeat(<<e>> \o s)
           /\ \A k : Occurs(k, <<e>> \o s) <=> (k = e \/ Occurs(k, s))
  <1> DEFINE a == <<e>> \o s
  <1>1. /\ a \in Seq(S)
        /\ Len(a) = Len(s) + 1
        /\ Len(s) \in Nat
        /\ a[1] = e
        /\ \A i \in 1 .. Len(s) : a[i + 1] = s[i]
    OBVIOUS
  <1> HIDE DEF a
  <1>2. \A i \in 1 .. Len(a) : i = 1 \/ (i - 1 \in 1 .. Len(s) /\ a[i] = s[i - 1])
    BY <1>1
  <1>3. NoRepeat(a)
    <2>1. SUFFICES ASSUME NEW i \in 1 .. Len(a), NEW j \in 1 .. Len(a), a[i] = a[j]
                   PROVE  i = j
      BY DEF NoRepeat
    <2>2. CASE i = 1
      BY <1>1, <1>2, <2>1, <2>2 DEF Occurs
    <2>3. CASE j = 1
      BY <1>1, <1>2, <2>1, <2>3 DEF Occurs
    <2>4. CASE i # 1 /\ j # 1
      <3>1. i - 1 \in 1 .. Len(s) /\ j - 1 \in 1 .. Len(s) /\ s[i - 1] = s[j - 1]
        BY <1>2, <2>1, <2>4
      <3>2. i - 1 = j - 1
        BY <3>1 DEF NoRepeat
      <3> QED BY <3>2
    <2> QED BY <2>2, <2>3, <2>4
  <1>4. ASSUME NEW k PROVE Occurs(k, a) <=> (k = e \/ Occurs(k, s))
    <2>1. Occurs(k, a) => (k = e \/ Occurs(k, s))
      <3>1. SUFFICES ASSUME NEW i \in 1 .. Len(a), a[i] = k, k # e PROVE Occurs(k, s)
        BY DEF Occurs
      <3>2. i - 1 \in 1 .. Len(s) /\ s[i - 1] = k
        BY <1>1, <1>2, <3>1
      <3> QED BY <3>2 DEF Occurs
    <2>2. k = e => Occurs(k, a)
      BY <1>1 DEF Occurs
    <2>3. Occurs(k, s) => Occurs(k, a)
      <3>1. SUFFICES ASSUME NEW i \in 1 .. Len(s), s[i] = k PROVE Occurs(k, a)
        BY DEF Occurs
      <3>2. i + 1 \in 1 .. Len(a) /\ a[i + 1] = k
        BY <1>1, <3>1
      <3> QED BY <3>2 DEF Occurs
    <2> QED BY <2>1, <2>2, <2>3
  <1> QED BY <1>1, <1>3, <1>4 DEF a

LEMMA TailOccurs ==
    ASSUME NEW S, NEW s \in Seq(S), s # <<>>, NoRepeat(s)
    PROVE  /\ Tail(s) \in Seq(S)
           /\ Head(s) \in S
           /\ Occurs(Head(s), s)
           /\ NoRepeat(Tail(s))
           /\ \A k : Occurs(k, Tail(s)) <=> (k # Head(s) /\ Occurs(k, s))
  <1> DEFINE a == Tail(s)
  <1>1. /\ a \in Seq(S)
        /\ Len(s) = Len(a) + 1
        /\ Len(a) \in Nat
        /\ Head(s) = s[1]
        /\ Head(s) \in S
        /\ \A i \in 1 .. Len(a) : a[i] = s[i + 1]
    OBVIOUS
  <1> HIDE DEF a
  <1>2. NoRepeat(a)
    BY <1>1 DEF NoRepeat
  <1>3. Occurs(Head(s), s)
    BY <1>1 DEF Occurs
  <1>4. ASSUME NEW k PROVE Occurs(k, a) <=> (k # Head(s) /\ Occurs(k, s))
    <2>1. Occurs(k, a) => (k # Head(s) /\ Occurs(k, s))
      <3>1. SUFFICES ASSUME NEW i \in 1 .. Len(a), a[i] = k
                     PROVE  k # Head(s) /\ Occurs(k, s)
        BY DEF Occurs
      <3>2. i + 1 \in 1 .. Len(s) /\ 1 \in 1 .. Len(s) /\ s[i + 1] = k /\ i + 1 # 1
        BY <1>1, <3>1
      <3> QED BY <1>1, <3>2 DEF Occurs, NoRepeat
    <2>2. (k # Head(s) /\ Occurs(k, s)) => Occurs(k, a)
      <3>1. SUFFICES ASSUME k # Head(s), NEW i \in 1 .. Len(s), s[i] = k
                     PROVE  Occurs(k, a)
        BY DEF Occurs
      <3>2. i - 1 \in 1 .. Len(a) /\ a[i - 1] = k
        BY <1>1, <3>1
      <3> QED BY <3>2 DEF Occurs
    <2> QED BY <2>1, <2>2
  <1> QED BY <1>1, <1>2, <1>3, <1>4 DEF a

-----------------------------------------------------------------------------
(* The strengthening.                                                      *)

(* Where a thread stands tells whether it holds a task.                    *)
Holding ==
    /\ \A t \in Threads : pc[t] = "call" <=> arg[t] # NoTask
    /\ current # NoTask <=> pc[Worker] \in {"running", "call", "signal"}

(* How the dispatcher ends: who may have pushed the terminating task, and  *)
(* where in the list it is.                                                *)
Ending ==
    /\ fate[Terminate] \in {"new", "queued", "running", "done"}
    /\ threadState = "TERMINATED" => fate[Terminate] = "done"
    /\ WorkerAt("exited") => threadState = "TERMINATED"
    /\ fate[GameShutdown] # "new" => current = CloseTask \/ threadState # "RUNNING"

LastInList ==
    ~startupFailed =>
        /\ fate[Terminate] # "new" => threadState # "RUNNING"
        /\ fate[Terminate] = "queued" =>
             taskList # <<>> /\ taskList[Len(taskList)] = Terminate
        /\ fate[Terminate] \in {"running", "done"} => taskList = <<>>

IInv == /\ TypeOK
        /\ Holding
        /\ OneOwner
        /\ Ending
        /\ LastInList
        /\ NoLostWakeup

LEMMA InitIInv == Init => IInv
  BY DEF Init, IInv, TypeOK, Holding, OneOwner, Ending, LastInList, NoLostWakeup,
         WorkerAt, WorkerPCs, ProducerPCs, Fates, AllTasks, Threads, Occurs, NoRepeat

LEMMA BeginAddTaskStep ==
    ASSUME IInv, NEW t \in Threads, NEW k \in AllTasks \ {Terminate}, BeginAddTask(t, k),
           k = GameShutdown => t = Worker /\ current = CloseTask
    PROVE  IInv'
  <1>1. TypeOK'
    BY DEF IInv, TypeOK, BeginAddTask, Home, WorkerPCs, ProducerPCs, Fates, Threads
  <1>2. Holding'
    BY DEF IInv, TypeOK, Holding, BeginAddTask, Home, Threads, AllTasks
  <1>3. OneOwner'
    BY DEF IInv, TypeOK, Holding, OneOwner, BeginAddTask, Home, Threads, AllTasks, Occurs
  <1>4. Ending' /\ LastInList' /\ NoLostWakeup'
    BY DEF IInv, TypeOK, Ending, LastInList, NoLostWakeup, WorkerAt, BeginAddTask, Home,
           Threads, AllTasks
  <1> QED BY <1>1, <1>2, <1>3, <1>4 DEF IInv

LEMMA EnqueueStep ==
    ASSUME IInv, NEW t \in Threads, Enqueue(t)
    PROVE  IInv'
  <1>1. arg[t] \in AllTasks /\ fate[arg[t]] = "posting" /\ ~Occurs(arg[t], taskList)
    BY DEF IInv, TypeOK, Holding, OneOwner, Enqueue, Threads
  <1>2. arg[t] # Terminate /\ threadState = "RUNNING"
    BY <1>1 DEF IInv, Ending, TypeOK, Enqueue, OneOwner, Holding, Threads
  <1>3. /\ taskList' \in Seq(AllTasks)
        /\ NoRepeat(taskList')
        /\ \A k : Occurs(k, taskList') <=> (k = arg[t] \/ Occurs(k, taskList))
    BY <1>1, AppendOccurs, ConsOccurs DEF IInv, TypeOK, OneOwner, Enqueue
  <1>4. TypeOK'
    BY <1>1, <1>3 DEF IInv, TypeOK, Enqueue, Home, WorkerPCs, ProducerPCs, Fates, Threads
  <1>5. Holding'
    BY DEF IInv, TypeOK, Holding, Enqueue, Home, Threads, AllTasks
  <1>6. OneOwner'
    BY <1>1, <1>3 DEF IInv, TypeOK, Holding, OneOwner, Enqueue, Home, Threads, AllTasks
  <1>7. Ending' /\ LastInList'
    <2>1. fate'[Terminate] = fate[Terminate] /\ threadState' = threadState
      BY <1>1, <1>2 DEF IInv, TypeOK, Enqueue, AllTasks
    <2>2. Ending'
      BY <1>1, <1>2, <2>1 DEF IInv, TypeOK, Holding, OneOwner, Ending, WorkerAt, Enqueue, Home,
                              Threads, AllTasks
    <2>3. LastInList'
      BY <1>2, <2>1 DEF IInv, Ending, LastInList, Enqueue
    <2> QED BY <2>2, <2>3
  <1>8. NoLostWakeup'
    <2>1. CASE t = Worker
      BY <2>1 DEF IInv, TypeOK, NoLostWakeup, WorkerAt, Enqueue, Home, Threads
    <2>2. CASE t # Worker /\ taskList = <<>>
      BY <2>2 DEF IInv, TypeOK, NoLostWakeup, WorkerAt, Enqueue, Home, Threads
    <2>3. CASE t # Worker /\ taskList # <<>>
      <3>1. SUFFICES ASSUME pc[Worker] = "waiting"
                     PROVE  \E p \in Producers : pc'[p] = "signal"
        BY <2>3 DEF IInv, TypeOK, NoLostWakeup, WorkerAt, Enqueue, Threads
      <3>2. PICK p \in Producers : pc[p] = "signal"
        BY <2>3, <3>1 DEF IInv, NoLostWakeup, WorkerAt
      <3>3. p # t /\ pc'[p] = "signal"
        BY <3>2 DEF IInv, TypeOK, Enqueue, Threads
      <3> QED BY <3>3
    <2> QED BY <2>1, <2>2, <2>3
  <1> QED BY <1>4, <1>5, <1>6, <1>7, <1>8 DEF IInv

LEMMA RefuseStep ==
    ASSUME IInv, NEW t \in Threads, Refuse(t)
    PROVE  IInv'
  <1>1. arg[t] \in AllTasks /\ fate[arg[t]] = "posting" /\ arg[t] # Terminate
    BY DEF IInv, TypeOK, Holding, OneOwner, Ending, Refuse, Threads
  <1>2. TypeOK'
    BY <1>1 DEF IInv, TypeOK, Refuse, Home, WorkerPCs, ProducerPCs, Fates, Threads
  <1>3. Holding'
    BY DEF IInv, TypeOK, Holding, Refuse, Home, Threads, AllTasks
  <1>4. OneOwner'
    BY <1>1 DEF IInv, TypeOK, Holding, OneOwner, Refuse, Home, Threads, AllTasks
  <1>5. Ending' /\ LastInList' /\ NoLostWakeup'
    BY <1>1 DEF IInv, TypeOK, Ending, LastInList, NoLostWakeup, WorkerAt, Refuse, Home,
           Threads, AllTasks
  <1> QED BY <1>2, <1>3, <1>4, <1>5 DEF IInv

LEMMA SignalStep ==
    ASSUME IInv, NEW t \in Threads, Signal(t)
    PROVE  IInv'
  <1>1. TypeOK' /\ Holding'
    BY DEF IInv, TypeOK, Holding, Signal, Notified, Home, WorkerPCs, ProducerPCs, Threads
  <1>2. OneOwner'
    BY DEF IInv, OneOwner, Signal
  <1>3. Ending' /\ LastInList' /\ NoLostWakeup'
    BY DEF IInv, TypeOK, Ending, LastInList, NoLostWakeup, WorkerAt, Signal, Notified, Home,
           Threads
  <1> QED BY <1>1, <1>2, <1>3 DEF IInv

LEMMA PushTerminateStep ==
    ASSUME IInv, PushTerminate, startupFailed \/ threadState # "RUNNING"
    PROVE  IInv'
  <1>1. Terminate \in AllTasks /\ ~Occurs(Terminate, taskList)
    BY DEF IInv, OneOwner, PushTerminate, AllTasks
  <1>2. /\ taskList' \in Seq(AllTasks)
        /\ NoRepeat(taskList')
        /\ \A k : Occurs(k, taskList') <=> (k = Terminate \/ Occurs(k, taskList))
    BY <1>1, AppendOccurs DEF IInv, TypeOK, OneOwner, PushTerminate
  <1>3. taskList' # <<>> /\ taskList'[Len(taskList')] = Terminate
    BY <1>1 DEF IInv, TypeOK, PushTerminate
  <1>4. TypeOK' /\ Holding'
    BY <1>2 DEF IInv, TypeOK, Holding, PushTerminate, Notified, WorkerPCs, ProducerPCs, Fates,
                Threads
  <1>5. OneOwner'
    BY <1>1, <1>2 DEF IInv, TypeOK, OneOwner, PushTerminate
  <1>6. Ending' /\ LastInList' /\ NoLostWakeup'
    BY <1>1, <1>3 DEF IInv, TypeOK, Ending, LastInList, NoLostWakeup, WorkerAt, PushTerminate,
                Notified, Threads, AllTasks
  <1> QED BY <1>4, <1>5, <1>6 DEF IInv

(* The steps of the worker that touch neither the list nor a task.         *)
LEMMA IdleStep ==
    ASSUME IInv, CheckState \/ Wait \/ SpuriousWakeup \/ FindNothing
    PROVE  IInv'
  <1>1. TypeOK' /\ Holding'
    BY DEF IInv, TypeOK, Holding, CheckState, Wait, SpuriousWakeup, FindNothing, WorkerAt,
           WorkerTo, WorkerPCs, ProducerPCs, Threads
  <1>2. OneOwner'
    BY DEF IInv, OneOwner, CheckState, Wait, SpuriousWakeup, FindNothing
  <1>3. Ending' /\ LastInList' /\ NoLostWakeup'
    BY DEF IInv, TypeOK, Ending, LastInList, NoLostWakeup, WorkerAt, WorkerTo, CheckState,
           Wait, SpuriousWakeup, FindNothing, Threads
  <1> QED BY <1>1, <1>2, <1>3 DEF IInv

(* Popping the head leaves the terminating task last, or the list empty.   *)
LEMMA PopLast ==
    ASSUME NEW S, NEW s \in Seq(S), s # <<>>, NoRepeat(s), s[Len(s)] = Terminate
    PROVE  IF Head(s) = Terminate THEN Tail(s) = <<>>
           ELSE Tail(s) # <<>> /\ Tail(s)[Len(Tail(s))] = Terminate
  <1>1. /\ Len(s) \in Nat /\ Len(s) > 0
        /\ Head(s) = s[1]
        /\ Tail(s) \in Seq(S)
        /\ Len(Tail(s)) = Len(s) - 1
        /\ \A i \in 1 .. Len(s) - 1 : Tail(s)[i] = s[i + 1]
    OBVIOUS
  <1>2. CASE Head(s) = Terminate
    <2>1. Len(s) = 1
      BY <1>1, <1>2 DEF NoRepeat
    <2>2. Tail(s) = <<>>
      <3>1. Tail(s) \in Seq(S) /\ Len(Tail(s)) = 0
        BY <1>1, <2>1
      <3> QED BY ONLY <3>1, EmptySeq
    <2> QED BY <1>2, <2>2
  <1>3. CASE Head(s) # Terminate
    <2>1. Len(s) > 1
      BY <1>1, <1>3
    <2>2. Tail(s)[Len(s) - 1] = s[Len(s)]
      BY <1>1, <2>1
    <2>3. Tail(s) # <<>>
      <3>1. Tail(s) \in Seq(S) /\ Len(Tail(s)) # 0
        BY <1>1, <2>1
      <3> QED BY ONLY <3>1, EmptySeq
    <2> QED BY <1>1, <1>3, <2>2, <2>3
  <1> QED BY <1>2, <1>3

LEMMA TakeTaskStep ==
    ASSUME IInv, TakeTask \/ DropExpired
    PROVE  IInv'
  <1> DEFINE h == Head(taskList)
  <1>1. /\ taskList' = Tail(taskList)
        /\ taskList # <<>>
        /\ current = NoTask
        /\ pc[Worker] \in {"lock", "woken"}
        /\ UNCHANGED <<threadState, arg, startupFailed>>
    BY DEF IInv, Holding, TakeTask, DropExpired
  <1>2. /\ h \in AllTasks
        /\ fate[h] = "queued"
        /\ taskList' \in Seq(AllTasks)
        /\ NoRepeat(taskList')
        /\ \A k : Occurs(k, taskList') <=> (k # h /\ Occurs(k, taskList))
    BY <1>1, TailOccurs DEF IInv, TypeOK, OneOwner
  <1>3. \/ /\ current' = h
           /\ fate' = [fate EXCEPT ![h] = "running"]
           /\ pc' = [pc EXCEPT ![Worker] = "running"]
        \/ /\ h # Terminate
           /\ h # GameShutdown
           /\ current' = current
           /\ fate' = [fate EXCEPT ![h] = "expired"]
           /\ pc' = [pc EXCEPT ![Worker] = "check"]
    BY DEF TakeTask, DropExpired, WorkerTo
  <1> HIDE DEF h
  <1>4. TypeOK' /\ Holding'
    BY <1>1, <1>2, <1>3 DEF IInv, TypeOK, Holding, WorkerPCs, ProducerPCs, Fates, Threads, AllTasks
  <1>5. OneOwner'
    BY <1>1, <1>2, <1>3 DEF IInv, TypeOK, OneOwner, Threads, AllTasks
  <1>6. Ending' /\ NoLostWakeup'
    BY <1>1, <1>2, <1>3 DEF IInv, TypeOK, Ending, NoLostWakeup, WorkerAt, Threads, AllTasks
  <1>7. LastInList'
    BY <1>1, <1>2, <1>3, PopLast DEF h, IInv, TypeOK, OneOwner, LastInList, Threads, AllTasks
  <1> QED BY <1>4, <1>5, <1>6, <1>7 DEF IInv

LEMMA FinishTaskStep ==
    ASSUME IInv, FinishTask \/ RunTerminate
    PROVE  IInv'
  <1>1. /\ current \in AllTasks
        /\ fate[current] = "running"
        /\ fate' = [fate EXCEPT ![current] = "done"]
        /\ current' = NoTask
        /\ pc[Worker] = "running"
        /\ pc' = [pc EXCEPT ![Worker] = "check"]
        /\ UNCHANGED <<taskList, arg, startupFailed>>
        /\ threadState' = IF current = Terminate THEN "TERMINATED" ELSE threadState
        /\ current = CloseTask => threadState # "RUNNING"
    BY DEF IInv, TypeOK, Holding, OneOwner, FinishTask, RunTerminate, WorkerAt, WorkerTo
  <1>2. TypeOK' /\ Holding'
    BY <1>1 DEF IInv, TypeOK, Holding, WorkerPCs, ProducerPCs, Fates, Threads, AllTasks
  <1>3. OneOwner'
    BY <1>1 DEF IInv, TypeOK, OneOwner, Threads, AllTasks
  <1>4. Ending' /\ LastInList' /\ NoLostWakeup'
    BY <1>1 DEF IInv, TypeOK, Ending, LastInList, NoLostWakeup, WorkerAt, Threads, AllTasks
  <1> QED BY <1>2, <1>3, <1>4 DEF IInv

LEMMA StopStep ==
    ASSUME IInv, Stop
    PROVE  IInv'
  <1>1. TypeOK' /\ Holding' /\ OneOwner'
    BY DEF IInv, TypeOK, Holding, OneOwner, Stop
  <1>2. Ending' /\ LastInList' /\ NoLostWakeup'
    BY DEF IInv, TypeOK, Ending, LastInList, NoLostWakeup, WorkerAt, Stop
  <1> QED BY <1>1, <1>2 DEF IInv

(* Game::shutdown runs only after stop.                                    *)
LEMMA GameShutsStep ==
    ASSUME IInv, GameShuts
    PROVE  IInv'
  <1>1. fate[GameShutdown] = "running" /\ current # CloseTask
    BY DEF IInv, OneOwner, GameShuts, AllTasks
  <1>2. threadState # "RUNNING" /\ PushTerminate
    BY <1>1 DEF IInv, Ending, GameShuts
  <1> QED BY <1>2, PushTerminateStep

LEMMA NextIInv == IInv /\ [Next]_vars => IInv'
  <1> SUFFICES ASSUME IInv, [Next]_vars PROVE IInv'
    OBVIOUS
  <1>1. ASSUME NEW t \in Threads, AddTask(t) PROVE IInv'
    <2>1. ASSUME NEW k \in Tasks, BeginAddTask(t, k) PROVE IInv'
      BY <2>1, BeginAddTaskStep DEF AllTasks
    <2> QED BY <1>1, <2>1, EnqueueStep, RefuseStep, SignalStep DEF AddTask
  <1>2. ASSUME NEW p \in Producers, SignalArrives(p) PROVE IInv'
    BY <1>2, BeginAddTaskStep DEF SignalArrives, AllTasks, Threads
  <1>3. CASE RunLoop \/ SpuriousWakeup
    BY <1>3, IdleStep, TakeTaskStep DEF RunLoop
  <1>4. CASE RunTask
    <2>1. CASE CloseEnqueuesShutdown
      BY <2>1, BeginAddTaskStep DEF CloseEnqueuesShutdown, AllTasks, Threads
    <2> QED BY <1>4, <2>1, StopStep, GameShutsStep, FinishTaskStep DEF RunTask
  <1>5. CASE MainShuts
    BY <1>5, PushTerminateStep DEF MainShuts
  <1>6. CASE UNCHANGED vars
    <2>1. TypeOK' /\ Holding' /\ OneOwner'
      BY <1>6 DEF vars, IInv, TypeOK, Holding, OneOwner
    <2>2. Ending' /\ LastInList' /\ NoLostWakeup'
      BY <1>6 DEF vars, IInv, Ending, LastInList, NoLostWakeup, WorkerAt
    <2> QED BY <2>1, <2>2 DEF IInv
  <1> QED BY <1>1, <1>2, <1>3, <1>4, <1>5, <1>6 DEF Next

THEOREM DispatcherInvariant == Spec => []IInv
  BY InitIInv, NextIInv, PTL DEF Spec

-----------------------------------------------------------------------------
(***************************************************************************)
(* The dispatcher's variables have their types in every reachable state.   *)
(***************************************************************************)
THEOREM DispatcherTypeCorrect == Spec => []TypeOK
  <1>1. IInv => TypeOK
    BY DEF IInv
  <1> QED BY <1>1, DispatcherInvariant, PTL

(***************************************************************************)
(* However many threads add tasks, the dispatcher thread never sleeps on a *)
(* list that holds tasks without a notify_one still to come.               *)
(***************************************************************************)
THEOREM DispatcherNoLostWakeup == Spec => []NoLostWakeup
  <1>1. IInv => NoLostWakeup
    BY DEF IInv
  <1> QED BY <1>1, DispatcherInvariant, PTL

(***************************************************************************)
(* Every live task object has exactly one owner.                           *)
(***************************************************************************)
THEOREM DispatcherOneOwner == Spec => []OneOwner
  <1>1. IInv => OneOwner
    BY DEF IInv
  <1> QED BY <1>1, DispatcherInvariant, PTL

(***************************************************************************)
(* When an orderly shutdown has ended the thread, no accepted task is left *)
(* in the list.                                                            *)
(***************************************************************************)
THEOREM DispatcherDrained == Spec => []DrainedAtExit
  <1>1. IInv => DrainedAtExit
    BY DEF IInv, TypeOK, OneOwner, Ending, LastInList, DrainedAtExit, Occurs, AllTasks
  <1> QED BY <1>1, DispatcherInvariant, PTL

-----------------------------------------------------------------------------
(* The dispatcher implements the serial executor: every step is a step of  *)
(* the executor or leaves what its clients see alone.                      *)

(* After the terminating task the worker reaches the list no more.         *)
Closed == threadState = "TERMINATED" => pc[Worker] \in {"check", "exited"}

LEMMA ClosedStep == IInv /\ Closed /\ [Next]_vars => Closed'
  <1> SUFFICES ASSUME IInv, Closed, [Next]_vars PROVE Closed'
    OBVIOUS
  <1>1. pc \in [Threads -> WorkerPCs \cup ProducerPCs] /\ Worker \in Threads
    BY DEF IInv, TypeOK, Threads
  <1>2. ASSUME NEW t \in Threads, NEW k, BeginAddTask(t, k) PROVE Closed'
    BY <1>1, <1>2 DEF Closed, BeginAddTask, Home
  <1>3. ASSUME PushTerminate PROVE Closed'
    BY <1>1, <1>3 DEF Closed, PushTerminate, Notified
  <1>4. ASSUME NEW t \in Threads, Enqueue(t) \/ Refuse(t) \/ Signal(t) PROVE Closed'
    BY <1>1, <1>4 DEF Closed, Enqueue, Refuse, Signal, Notified, Home
  <1>5. CASE CheckState \/ Wait \/ SpuriousWakeup \/ FindNothing \/ TakeTask \/ DropExpired
    BY <1>1, <1>5 DEF Closed, CheckState, Wait, SpuriousWakeup, FindNothing, TakeTask,
                      DropExpired, WorkerAt, WorkerTo
  <1>6. CASE FinishTask \/ RunTerminate \/ Stop
    BY <1>1, <1>6 DEF Closed, FinishTask, RunTerminate, Stop, WorkerAt, WorkerTo
  <1>7. CASE UNCHANGED vars
    BY <1>7 DEF Closed, vars
  <1>8. Worker \in Threads /\ Producers \subseteq Threads
    BY DEF Threads
  <1> QED BY <1>2, <1>3, <1>4, <1>5, <1>6, <1>7, <1>8
          DEF Next, AddTask, SignalArrives, RunLoop, RunTask, CloseEnqueuesShutdown,
              GameShuts, MainShuts

LEMMA ClosedInit == Init => Closed
  BY DEF Init, Closed

LEMMA ExecutorStep == IInv /\ Closed /\ [Next]_vars => [Executor!Next]_(Executor!vars)
  <1> SUFFICES ASSUME IInv, Closed, [Next]_vars PROVE [Executor!Next]_(Executor!vars)
    OBVIOUS
  <1> DEFINE Stutter == UNCHANGED <<taskList, current, threadState>>
  <1>1. ASSUME NEW t \in Threads, AddTask(t) PROVE Executor!Next \/ Stutter
    <2>1. ASSUME NEW k, BeginAddTask(t, k) PROVE Stutter
      BY <2>1 DEF BeginAddTask
    <2>2. ASSUME Enqueue(t) PROVE Executor!Next
      <3>1. arg[t] \in AllTasks \ {Terminate}
        BY <2>2 DEF IInv, TypeOK, Holding, OneOwner, Ending, Enqueue, Threads
      <3>2. Executor!Submit(arg[t])
        BY <2>2, <3>1 DEF Enqueue, Executor!Submit
      <3> QED BY <3>1, <3>2 DEF Executor!Next
    <2>3. ASSUME Refuse(t) \/ Signal(t) PROVE Stutter
      BY <2>3 DEF Refuse, Signal
    <2> QED BY <1>1, <2>1, <2>2, <2>3 DEF AddTask
  <1>2. ASSUME NEW p \in Producers, SignalArrives(p) PROVE Stutter
    BY <1>2 DEF SignalArrives, BeginAddTask
  <1>3. CASE CheckState \/ Wait \/ FindNothing \/ SpuriousWakeup
    BY <1>3 DEF CheckState, Wait, FindNothing, SpuriousWakeup, Executor!vars
  <1>4. CASE TakeTask \/ DropExpired
    <2>1. current = NoTask /\ threadState # "TERMINATED"
      BY <1>4 DEF IInv, Holding, Closed, TakeTask, DropExpired
    <2> QED BY <1>4, <2>1 DEF TakeTask, DropExpired, Executor!Take, Executor!Next
  <1>5. CASE RunTask
    <2>1. CASE CloseEnqueuesShutdown
      BY <2>1 DEF CloseEnqueuesShutdown, BeginAddTask, Executor!vars
    <2>2. CASE Stop
      <3>1. current # NoTask
        BY <2>2 DEF IInv, Holding, Stop, WorkerAt
      <3> QED BY <2>2, <3>1 DEF Stop, Executor!Close, Executor!Next
    <2>3. CASE GameShuts
      BY <2>3 DEF GameShuts, PushTerminate, Executor!SubmitTerminate, Executor!Next
    <2>4. CASE FinishTask \/ RunTerminate
      <3>1. current # NoTask
        BY <2>4 DEF IInv, Holding, FinishTask, RunTerminate, WorkerAt
      <3> QED BY <2>4, <3>1 DEF FinishTask, RunTerminate, Executor!Finish, Executor!Next
    <2> QED BY <1>5, <2>1, <2>2, <2>3, <2>4 DEF RunTask
  <1>6. CASE MainShuts
    BY <1>6 DEF MainShuts, PushTerminate, Executor!SubmitTerminate, Executor!Next
  <1>7. CASE UNCHANGED vars
    BY <1>7 DEF vars, Executor!vars
  <1> QED BY <1>1, <1>2, <1>3, <1>4, <1>5, <1>6, <1>7 DEF Next, RunLoop, Executor!vars

(***************************************************************************)
(* The safety part of ImplementsExecutor: whatever the threads do, tasks   *)
(* are accepted, refused, taken and run as the serial executor does.       *)
(***************************************************************************)
THEOREM DispatcherRefines == Spec => Executor!SafeSpec
  <1>1. Init => Executor!Init
    BY DEF Init, Executor!Init
  <1>2. Spec => []Closed
    BY ClosedInit, ClosedStep, DispatcherInvariant, PTL DEF Spec
  <1> QED BY <1>1, <1>2, ExecutorStep, DispatcherInvariant, PTL DEF Spec, Executor!SafeSpec
=============================================================================
