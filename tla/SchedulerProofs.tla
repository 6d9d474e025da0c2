-------------------------- MODULE SchedulerProofs --------------------------
(***************************************************************************)
(* Theorems about the scheduler, for any number of clients and events, any *)
(* delays and any width of the identifiers (an identifier is not generated *)
(* again while an event that has it is listed: IdIsFree).                  *)
(***************************************************************************)
EXTENDS Scheduler, TLAPS

USE SchedulerAssumption

(* Where a thread stands tells whether it holds an event.                  *)
Holding ==
    /\ \A c \in Clients : pc[c] = "call" <=> arg[c] # NoEvent
    /\ wpc = "handover" <=> carried # NoEvent

(* Every event object has one owner, which its fate names.                 *)
OneOwner ==
    /\ \A e \in Events :
         /\ fate[e] = "queued"  <=> e \in eventList
         /\ fate[e] = "posting" <=> \E c \in Clients : arg[c] = e
         /\ fate[e] = "carried" <=> carried = e
    /\ \A c, d \in Clients : arg[c] = arg[d] /\ arg[c] # NoEvent => c = d

IInv == /\ TypeOK
        /\ Holding
        /\ OneOwner
        /\ StoppedNeverFires
        /\ IdsMatchEvents
        /\ NoOversleep

LEMMA InitIInv == Init => IInv
  BY DEF Init, IInv, TypeOK, Holding, OneOwner, StoppedNeverFires, IdsMatchEvents, NoOversleep,
         ClientPCs, WorkerPCs, Fates

LEMMA BeginAddEventStep ==
    ASSUME IInv, NEW c \in Clients, NEW e \in Events, NEW d \in Delays, BeginAddEvent(c, e, d)
    PROVE  IInv'
  <1>1. TypeOK'
    BY DEF IInv, TypeOK, BeginAddEvent, thread, ClientPCs, WorkerPCs, Fates
  <1>2. Holding'
    BY DEF IInv, TypeOK, Holding, BeginAddEvent, thread
  <1>3. OneOwner'
    BY DEF IInv, TypeOK, Holding, OneOwner, BeginAddEvent, thread
  <1>4. StoppedNeverFires' /\ IdsMatchEvents'
    BY DEF IInv, TypeOK, StoppedNeverFires, IdsMatchEvents, BeginAddEvent, thread
  <1>5. NoOversleep'
    <2>1. e \notin eventList
      BY DEF IInv, OneOwner, BeginAddEvent
    <2> QED BY <2>1 DEF IInv, TypeOK, NoOversleep, BeginAddEvent, thread
  <1> QED BY <1>1, <1>2, <1>3, <1>4, <1>5 DEF IInv

LEMMA InsertStep ==
    ASSUME IInv, NEW c \in Clients, Insert(c)
    PROVE  IInv'
  <1> DEFINE e == arg[c]
  <1>1. e \in Events /\ fate[e] = "posting" /\ e \notin eventList /\ e \notin stopped
    BY DEF IInv, TypeOK, Holding, OneOwner, StoppedNeverFires, Insert
  <1>2. NextId \in 1 .. MaxId
    BY DEF IInv, TypeOK, NextId
  <1>3. /\ id' = [id EXCEPT ![e] = NextId]
        /\ lastEventId' = NextId
        /\ eventIds' = eventIds \cup {NextId}
        /\ eventList' = eventList \cup {e}
        /\ fate' = [fate EXCEPT ![e] = "queued"]
        /\ arg' = [arg EXCEPT ![c] = NoEvent]
        /\ pc' = [pc EXCEPT ![c] = IF IsTop(e) THEN "signal" ELSE "idle"]
        /\ pc[c] = "call"
        /\ \A f \in eventList : id[f] # NextId
        /\ UNCHANGED <<threadState, due, stopped, now, wpc, deadline, carried>>
    BY DEF Insert, IdIsFree, thread
  <1> HIDE DEF e
  <1>4. TypeOK'
    BY <1>1, <1>2, <1>3 DEF IInv, TypeOK, ClientPCs, WorkerPCs, Fates
  <1>5. Holding' /\ OneOwner'
    BY <1>1, <1>3 DEF e, IInv, TypeOK, Holding, OneOwner
  <1>6. StoppedNeverFires'
    BY <1>1, <1>3 DEF IInv, TypeOK, StoppedNeverFires
  <1>7. IdsMatchEvents'
    BY <1>1, <1>2, <1>3 DEF IInv, TypeOK, IdsMatchEvents
  <1>8. NoOversleep'
    <2>1. CASE IsTop(e)
      BY <1>3, <2>1 DEF IInv, TypeOK, NoOversleep
    <2>2. CASE \E d \in Clients : pc[d] = "signal"
      <3>1. PICK d \in Clients : pc[d] = "signal"
        BY <2>2
      <3>2. pc'[d] = "signal"
        BY <1>3, <3>1 DEF IInv, TypeOK
      <3> QED BY <3>2 DEF NoOversleep
    <2>3. CASE ~IsTop(e) /\ ~(\E d \in Clients : pc[d] = "signal") /\ wpc = "waiting"
      <3>1. PICK f \in eventList : ~(due[e] < due[f])
        BY <2>3 DEF IsTop
      <3>2. deadline # Never /\ \A g \in eventList : deadline <= due[g]
        BY <2>3, <3>1 DEF IInv, NoOversleep
      <3>3. deadline \in Nat /\ due[e] \in Nat /\ due[f] \in Nat
        BY <1>1, <3>2 DEF IInv, TypeOK
      <3>4. deadline <= due[e]
        BY <3>1, <3>2, <3>3
      <3> QED BY <1>3, <3>2, <3>4 DEF NoOversleep
    <2> QED BY <1>3, <2>1, <2>2, <2>3 DEF NoOversleep
  <1> QED BY <1>4, <1>5, <1>6, <1>7, <1>8 DEF IInv

LEMMA RefuseStep ==
    ASSUME IInv, NEW c \in Clients, Refuse(c)
    PROVE  IInv'
  <1>1. arg[c] \in Events /\ fate[arg[c]] = "posting"
    BY DEF IInv, TypeOK, Holding, OneOwner, Refuse
  <1>2. TypeOK'
    BY <1>1 DEF IInv, TypeOK, Refuse, thread, ClientPCs, WorkerPCs, Fates
  <1>3. Holding' /\ OneOwner'
    BY <1>1 DEF IInv, TypeOK, Holding, OneOwner, Refuse, thread
  <1>4. StoppedNeverFires' /\ IdsMatchEvents' /\ NoOversleep'
    BY <1>1 DEF IInv, TypeOK, StoppedNeverFires, IdsMatchEvents, NoOversleep, Refuse, thread
  <1> QED BY <1>2, <1>3, <1>4 DEF IInv

LEMMA StopEventStep ==
    ASSUME IInv, NEW c \in Clients, NEW i \in 1 .. MaxId, StopEvent(c, i)
    PROVE  IInv'
  <1>1. TypeOK' /\ Holding' /\ OneOwner'
    BY DEF IInv, TypeOK, Holding, OneOwner, StopEvent, thread
  <1>2. StoppedNeverFires' /\ NoOversleep'
    BY DEF IInv, TypeOK, OneOwner, StoppedNeverFires, NoOversleep, StopEvent, thread
  <1>3. IdsMatchEvents'
    BY DEF IInv, TypeOK, IdsMatchEvents, StopEvent
  <1> QED BY <1>1, <1>2, <1>3 DEF IInv

(* The steps that leave the events and their identifiers alone.            *)
LEMMA ThreadStep ==
    ASSUME IInv,
           \/ \E c \in Clients : Signal(c)
           \/ Stop \/ ShutdownStore \/ ShutdownNotify
           \/ CheckState \/ Wait \/ Expire \/ SpuriousWakeup \/ PopNothing
           \/ Tick
    PROVE  IInv'
  <1>1. UNCHANGED <<data, arg, carried>>
    BY DEF Signal, Stop, ShutdownStore, ShutdownNotify, CheckState, Wait, Expire,
           SpuriousWakeup, PopNothing, Tick, thread
  <1>2. TypeOK'
    BY <1>1 DEF IInv, TypeOK, Signal, Stop, ShutdownStore, ShutdownNotify, Notify, CheckState, Wait,
           Expire, SpuriousWakeup, PopNothing, Tick, data, thread, ClientPCs, WorkerPCs, Fates
  <1>3. Holding'
    BY <1>1 DEF IInv, TypeOK, Holding, Signal, Stop, ShutdownStore, ShutdownNotify, Notify,
           CheckState, Wait, Expire, SpuriousWakeup, PopNothing, Tick, data, thread
  <1>4. OneOwner' /\ StoppedNeverFires' /\ IdsMatchEvents'
    BY <1>1 DEF IInv, OneOwner, StoppedNeverFires, IdsMatchEvents, data
  <1>5. NoOversleep'
    <2>1. CASE Wait
      BY <2>1 DEF IInv, TypeOK, NoOversleep, Wait, IsMinimal, data
    <2>2. CASE (\E c \in Clients : Signal(c)) \/ ShutdownNotify
      BY <2>2 DEF NoOversleep, Signal, ShutdownNotify, Notify
    <2>3. CASE CheckState \/ Expire \/ SpuriousWakeup \/ PopNothing
      BY <2>3 DEF NoOversleep, CheckState, Expire, SpuriousWakeup, PopNothing
    <2>4. CASE Stop \/ Tick
      BY <2>4 DEF IInv, NoOversleep, Stop, Tick, data, thread
    <2>5. CASE ShutdownStore
      BY <2>5 DEF IInv, TypeOK, NoOversleep, ShutdownStore, data, thread
    <2> QED BY <2>1, <2>2, <2>3, <2>4, <2>5
  <1> QED BY <1>2, <1>3, <1>4, <1>5 DEF IInv

LEMMA ShutdownClearStep ==
    ASSUME IInv, ShutdownClear
    PROVE  IInv'
  <1>1. TypeOK' /\ Holding'
    BY DEF IInv, TypeOK, Holding, ShutdownClear, thread, ClientPCs, WorkerPCs, Fates
  <1>2. OneOwner' /\ StoppedNeverFires'
    BY DEF IInv, TypeOK, OneOwner, StoppedNeverFires, ShutdownClear, thread
  <1>3. IdsMatchEvents' /\ NoOversleep'
    BY DEF IInv, IdsMatchEvents, NoOversleep, ShutdownClear
  <1> QED BY <1>1, <1>2, <1>3 DEF IInv

LEMMA PopEventStep ==
    ASSUME IInv, NEW e \in Events, PopEvent(e)
    PROVE  IInv'
  <1>1. e \in eventList /\ fate[e] = "queued" /\ carried = NoEvent
    BY DEF IInv, Holding, OneOwner, PopEvent, IsMinimal
  <1>2. e \notin stopped
    BY <1>1 DEF IInv, IdsMatchEvents, PopEvent
  <1>3. TypeOK' /\ Holding'
    BY <1>1 DEF IInv, TypeOK, Holding, PopEvent, ClientPCs, WorkerPCs, Fates
  <1>4. OneOwner' /\ StoppedNeverFires'
    BY <1>1, <1>2 DEF IInv, TypeOK, OneOwner, StoppedNeverFires, PopEvent
  <1>5. IdsMatchEvents'
    BY <1>1, <1>2 DEF IInv, TypeOK, IdsMatchEvents, PopEvent
  <1>6. NoOversleep'
    BY DEF NoOversleep, PopEvent
  <1> QED BY <1>3, <1>4, <1>5, <1>6 DEF IInv

LEMMA PopStoppedStep ==
    ASSUME IInv, NEW e \in Events, PopStopped(e)
    PROVE  IInv'
  <1>1. e \in eventList /\ fate[e] = "queued" /\ e \in stopped
    BY DEF IInv, OneOwner, IdsMatchEvents, PopStopped, IsMinimal
  <1>2. TypeOK' /\ Holding'
    BY <1>1 DEF IInv, TypeOK, Holding, PopStopped, ClientPCs, WorkerPCs, Fates
  <1>3. OneOwner' /\ StoppedNeverFires'
    BY <1>1 DEF IInv, TypeOK, OneOwner, StoppedNeverFires, PopStopped
  <1>4. IdsMatchEvents' /\ NoOversleep'
    BY <1>1 DEF IInv, TypeOK, IdsMatchEvents, NoOversleep, PopStopped
  <1> QED BY <1>2, <1>3, <1>4 DEF IInv

LEMMA HandOverStep ==
    ASSUME IInv, HandOver
    PROVE  IInv'
  <1>1. carried \in Events /\ fate[carried] = "carried" /\ carried \notin stopped
    BY DEF IInv, TypeOK, Holding, OneOwner, StoppedNeverFires, HandOver
  <1>2. TypeOK' /\ Holding'
    BY <1>1 DEF IInv, TypeOK, Holding, HandOver, ClientPCs, WorkerPCs, Fates
  <1>3. OneOwner' /\ StoppedNeverFires'
    BY <1>1 DEF IInv, TypeOK, OneOwner, StoppedNeverFires, HandOver
  <1>4. IdsMatchEvents' /\ NoOversleep'
    BY <1>1 DEF IInv, IdsMatchEvents, NoOversleep, HandOver
  <1> QED BY <1>2, <1>3, <1>4 DEF IInv

LEMMA NextIInv == IInv /\ [Next]_vars => IInv'
  <1> SUFFICES ASSUME IInv, [Next]_vars PROVE IInv'
    OBVIOUS
  <1>1. ASSUME NEW c \in Clients, Client(c) PROVE IInv'
    BY <1>1, BeginAddEventStep, InsertStep, RefuseStep, StopEventStep, ThreadStep DEF Client
  <1>2. CASE Shutdown
    BY <1>2, ThreadStep, ShutdownClearStep DEF Shutdown
  <1>3. CASE Loop
    BY <1>3, ThreadStep, PopEventStep, PopStoppedStep, HandOverStep DEF Loop
  <1>4. CASE SpuriousWakeup \/ Tick
    BY <1>4, ThreadStep
  <1>5. CASE UNCHANGED vars
    BY <1>5 DEF vars, IInv, TypeOK, Holding, OneOwner, StoppedNeverFires, IdsMatchEvents,
                NoOversleep
  <1> QED BY <1>1, <1>2, <1>3, <1>4, <1>5 DEF Next

THEOREM SchedulerInvariant == Spec => []IInv
  BY InitIInv, NextIInv, PTL DEF Spec

-----------------------------------------------------------------------------
(***************************************************************************)
(* The scheduler's variables have their types in every reachable state.    *)
(***************************************************************************)
THEOREM SchedulerTypeCorrect == Spec => []TypeOK
  <1>1. IInv => TypeOK
    BY DEF IInv
  <1> QED BY <1>1, SchedulerInvariant, PTL

(***************************************************************************)
(* An event whose stopEvent returned true is never handed to the           *)
(* dispatcher, however its identifier is used afterwards.                  *)
(***************************************************************************)
THEOREM SchedulerStopped == Spec => []StoppedNeverFires
  <1>1. IInv => StoppedNeverFires
    BY DEF IInv
  <1> QED BY <1>1, SchedulerInvariant, PTL

(***************************************************************************)
(* The thread never sleeps beyond the due time of a listed event without a *)
(* notify_one still to come.                                               *)
(***************************************************************************)
THEOREM SchedulerNoOversleep == Spec => []NoOversleep
  <1>1. IInv => NoOversleep
    BY DEF IInv
  <1> QED BY <1>1, SchedulerInvariant, PTL

(***************************************************************************)
(* The set of identifiers and the heap agree on which events live.         *)
(***************************************************************************)
THEOREM SchedulerIdsMatch == Spec => []IdsMatchEvents
  <1>1. IInv => IdsMatchEvents
    BY DEF IInv
  <1> QED BY <1>1, SchedulerInvariant, PTL

-----------------------------------------------------------------------------
(* The scheduler implements the timers: every step is a step of theirs or  *)
(* leaves what the clients see alone.                                      *)

(* A wait with a deadline was started for an event of the heap, which only *)
(* shutdown can have taken away since; so what is found on top after it    *)
(* was due no later.  Nothing is inserted after shutdown has cleared.      *)
DeadlineIsDue ==
    /\ wpc \in {"waiting", "woken"} /\ deadline # Never =>
         \/ \E f \in eventList : due[f] <= deadline
         \/ eventList = {} /\ threadState # "RUNNING"
    /\ pc[Game] \in {"clearing", "notifying"} => threadState # "RUNNING"

LEMMA DeadlineInit == Init => DeadlineIsDue
  BY DEF Init, DeadlineIsDue

LEMMA DeadlineStep == IInv /\ DeadlineIsDue /\ [Next]_vars => DeadlineIsDue'
  <1> SUFFICES ASSUME IInv, DeadlineIsDue, [Next]_vars PROVE DeadlineIsDue'
    OBVIOUS
  <1> USE DEF DeadlineIsDue
  <1>1. ASSUME NEW c \in Clients, Client(c) PROVE DeadlineIsDue'
    <2>1. ASSUME NEW e \in Events, NEW d \in Delays, BeginAddEvent(c, e, d) PROVE DeadlineIsDue'
      <3>1. e \notin eventList
        BY <2>1 DEF IInv, OneOwner, BeginAddEvent
      <3> QED BY <2>1, <3>1 DEF IInv, TypeOK, BeginAddEvent, thread
    <2>2. ASSUME Insert(c) PROVE DeadlineIsDue'
      BY <2>2 DEF IInv, TypeOK, Insert, thread
    <2>3. ASSUME Refuse(c) PROVE DeadlineIsDue'
      BY <2>3 DEF IInv, TypeOK, Refuse, thread
    <2>4. ASSUME Signal(c) PROVE DeadlineIsDue'
      BY <2>4 DEF IInv, TypeOK, Signal, Notify, data
    <2>5. ASSUME NEW i \in 1 .. MaxId, StopEvent(c, i) PROVE DeadlineIsDue'
      BY <2>5 DEF IInv, TypeOK, StopEvent, thread
    <2> QED BY <1>1, <2>1, <2>2, <2>3, <2>4, <2>5 DEF Client
  <1>2. CASE Shutdown
    <2>1. CASE Stop \/ ShutdownStore
      BY <2>1 DEF IInv, TypeOK, Stop, ShutdownStore, data, thread
    <2>2. CASE ShutdownClear
      BY <2>2 DEF IInv, TypeOK, ShutdownClear, thread
    <2>3. CASE ShutdownNotify
      BY <2>3 DEF IInv, TypeOK, ShutdownNotify, Notify, data
    <2> QED BY <1>2, <2>1, <2>2, <2>3 DEF Shutdown
  <1>3. CASE Wait
    BY <1>3 DEF IInv, TypeOK, Wait, IsMinimal, data
  <1>4. CASE CheckState \/ Expire \/ SpuriousWakeup \/ PopNothing \/ HandOver \/ Tick
    BY <1>4 DEF CheckState, Expire, SpuriousWakeup, PopNothing, HandOver, Tick, data, thread
  <1>5. ASSUME NEW e \in Events, PopEvent(e) \/ PopStopped(e) PROVE DeadlineIsDue'
    BY <1>5 DEF PopEvent, PopStopped
  <1>6. CASE UNCHANGED vars
    BY <1>6 DEF vars
  <1> QED BY <1>1, <1>2, <1>3, <1>4, <1>5, <1>6 DEF Next, Loop

(* What the clients see of an event.                                       *)
Seen(e) ==
    IF e \in stopped THEN "cancelled"
    ELSE IF fate[e] \in {"new", "posting"} THEN "idle"
    ELSE IF fate[e] \in {"carried", "handed"} THEN "fired"
    ELSE IF fate[e] = "queued" THEN "armed" ELSE "dropped"

LEMMA SeenIsState ==
    ASSUME IInv, IInv'
    PROVE  /\ [e \in Events |-> TimerState(e)] = [e \in Events |-> Seen(e)]
           /\ [e \in Events |-> TimerState(e)]' = [e \in Events |-> Seen(e)]'
  <1>1. ASSUME NEW e \in Events PROVE TimerState(e) = Seen(e)
    <2>1. fate[e] \in Fates /\ (e \in stopped => fate[e] \in {"queued", "deleted"})
      BY DEF IInv, TypeOK, StoppedNeverFires
    <2> QED BY <2>1 DEF TimerState, Seen, Fates
  <1>2. ASSUME NEW e \in Events PROVE TimerState(e)' = Seen(e)'
    <2>1. fate'[e] \in Fates /\ (e \in stopped' => fate'[e] \in {"queued", "deleted"})
      BY DEF IInv, TypeOK, StoppedNeverFires
    <2> QED BY <2>1 DEF TimerState, Seen, Fates
  <1> QED BY <1>1, <1>2

(* The state of the timers, as one function.                               *)
View == [e \in Events |-> Seen(e)]

LEMMA ViewChange ==
    ASSUME fate \in [Events -> Fates], NEW e \in Events, NEW s \in Fates, e \notin stopped,
           fate' = [fate EXCEPT ![e] = s], UNCHANGED stopped
    PROVE  View' = [View EXCEPT ![e] = Seen(e)']
  <1>1. ASSUME NEW f \in Events \ {e} PROVE Seen(f)' = Seen(f)
    BY <1>1 DEF Seen
  <1> QED BY <1>1 DEF View

LEMMA TimerStep == IInv /\ IInv' /\ DeadlineIsDue /\ [Next]_vars => [Timer!Next]_(Timer!vars)
  <1> SUFFICES ASSUME IInv, IInv', DeadlineIsDue, [Next]_vars
               PROVE  [Timer!Next]_(Timer!vars)
    OBVIOUS
  <1> DEFINE open == threadState = "RUNNING"
             Stutter == UNCHANGED <<View, due, now, open>>
             state == [e \in Events |-> TimerState(e)]
  <1>0. /\ state = View
        /\ state' = View'
    BY SeenIsState DEF View
  <1>1. ASSUME NEW c \in Clients, Client(c) PROVE Timer!Next \/ Stutter
    <2>1. ASSUME NEW e \in Events, NEW d \in Delays, BeginAddEvent(c, e, d) PROVE Timer!Next
      <3>1. View[e] = "idle" /\ View' = View
        BY <2>1 DEF IInv, TypeOK, StoppedNeverFires, BeginAddEvent, View, Seen
      <3>2. /\ due' \in [Events -> Nat]
            /\ \A f \in Events \ {e} : due'[f] = due[f]
            /\ UNCHANGED <<now, threadState>>
        BY <2>1 DEF IInv, TypeOK, BeginAddEvent
      <3>3. Timer!Prepare(e)
        BY <1>0, <3>1, <3>2 DEF Timer!Prepare
      <3> QED BY <3>3 DEF Timer!Next
    <2>2. ASSUME Insert(c) PROVE Timer!Next
      <3>1. PICK e \in Events : e = arg[c] /\ fate[e] = "posting" /\ e \notin stopped
        BY <2>2 DEF IInv, TypeOK, Holding, OneOwner, StoppedNeverFires, Insert
      <3>2. /\ fate' = [fate EXCEPT ![e] = "queued"]
            /\ threadState = "RUNNING"
            /\ UNCHANGED <<stopped, due, now, threadState>>
        BY <2>2, <3>1 DEF Insert
      <3>3. View[e] = "idle" /\ View' = [View EXCEPT ![e] = "armed"]
        <4>1. fate \in [Events -> Fates] /\ "queued" \in Fates
          BY DEF IInv, TypeOK, Fates
        <4>2. Seen(e) = "idle" /\ Seen(e)' = "armed"
          BY <3>1, <3>2, <4>1 DEF Seen
        <4>3. View' = [View EXCEPT ![e] = Seen(e)']
          BY <3>1, <3>2, <4>1, ViewChange
        <4> QED BY <3>1, <4>2, <4>3 DEF View
      <3>4. Timer!Arm(e)
        BY <1>0, <3>2, <3>3 DEF Timer!Arm, Timer!Become
      <3> QED BY <3>1, <3>4 DEF Timer!Next
    <2>3. ASSUME Refuse(c) PROVE Timer!Next
      <3>1. PICK e \in Events : e = arg[c] /\ fate[e] = "posting" /\ e \notin stopped
        BY <2>3 DEF IInv, TypeOK, Holding, OneOwner, StoppedNeverFires, Refuse
      <3>2. /\ fate' = [fate EXCEPT ![e] = "deleted"]
            /\ threadState # "RUNNING"
            /\ UNCHANGED <<stopped, due, now, threadState>>
        BY <2>3, <3>1 DEF Refuse
      <3>3. View[e] = "idle" /\ View' = [View EXCEPT ![e] = "dropped"]
        <4>1. fate \in [Events -> Fates] /\ "deleted" \in Fates
          BY DEF IInv, TypeOK, Fates
        <4>2. Seen(e) = "idle" /\ Seen(e)' = "dropped"
          BY <3>1, <3>2, <4>1 DEF Seen
        <4>3. View' = [View EXCEPT ![e] = Seen(e)']
          BY <3>1, <3>2, <4>1, ViewChange
        <4> QED BY <3>1, <4>2, <4>3 DEF View
      <3>4. Timer!Refuse(e)
        BY <1>0, <3>2, <3>3 DEF Timer!Refuse, Timer!Become
      <3> QED BY <3>1, <3>4 DEF Timer!Next
    <2>4. ASSUME Signal(c) PROVE Stutter
      BY <2>4 DEF Signal, data, View, Seen
    <2>5. ASSUME NEW i \in 1 .. MaxId, StopEvent(c, i) PROVE Timer!Next
      <3>1. PICK e \in eventList \ stopped : id[e] = i
        BY <2>5 DEF IInv, IdsMatchEvents, StopEvent
      <3>2. e \in Events /\ fate[e] = "queued"
        BY <3>1 DEF IInv, TypeOK, OneOwner
      <3>3. {f \in eventList : id[f] = i} = {e}
        BY <3>1 DEF IInv, IdsMatchEvents
      <3>4. stopped' = stopped \cup {e} /\ UNCHANGED <<fate, due, now, threadState>>
        BY <2>5, <3>3 DEF StopEvent
      <3>5. View[e] = "armed" /\ View' = [View EXCEPT ![e] = "cancelled"]
        BY <3>1, <3>2, <3>4 DEF View, Seen
      <3>6. Timer!Cancel(e)
        BY <1>0, <3>4, <3>5 DEF Timer!Cancel, Timer!Become
      <3> QED BY <3>2, <3>6 DEF Timer!Next
    <2> QED BY <1>1, <2>1, <2>2, <2>3, <2>4, <2>5 DEF Client
  <1>2. ASSUME Shutdown PROVE Timer!Next \/ Stutter
    <2>1. ASSUME Stop \/ ShutdownStore PROVE Timer!Next \/ Stutter
      <3>1. View' = View /\ UNCHANGED <<due, now>> /\ threadState' # "RUNNING"
        BY <2>1 DEF Stop, ShutdownStore, data, View, Seen
      <3> QED BY <1>0, <3>1 DEF Timer!Close, Timer!Next
    <2>2. ASSUME ShutdownClear PROVE Timer!Next
      <3>1. /\ threadState # "RUNNING"
            /\ UNCHANGED <<due, now, threadState, stopped>>
            /\ fate' = [e \in Events |-> IF e \in eventList THEN "deleted" ELSE fate[e]]
        BY <2>2 DEF ShutdownClear, DeadlineIsDue
      <3>2. View' = [e \in Events |-> IF View[e] = "armed" THEN "dropped" ELSE View[e]]
        BY <3>1 DEF IInv, TypeOK, OneOwner, View, Seen, Fates
      <3>3. Timer!Clear
        BY <1>0, <3>1, <3>2 DEF Timer!Clear
      <3> QED BY <3>3 DEF Timer!Next
    <2>3. ASSUME ShutdownNotify PROVE Stutter
      BY <2>3 DEF ShutdownNotify, data, View, Seen
    <2> QED BY <1>2, <2>1, <2>2, <2>3 DEF Shutdown
  <1>3. ASSUME CheckState \/ Wait \/ Expire \/ PopNothing \/ SpuriousWakeup PROVE Stutter
    BY <1>3 DEF CheckState, Wait, Expire, PopNothing, SpuriousWakeup, data, View, Seen
  <1>4. ASSUME NEW e \in Events, PopEvent(e) PROVE Timer!Next
    <2>1. now >= due[e]
      <3>1. /\ e \in eventList
            /\ \A f \in eventList : due[e] <= due[f]
            /\ deadline # Never /\ now >= deadline /\ wpc = "woken"
        BY <1>4 DEF PopEvent, IsMinimal, Passed
      <3>2. PICK f \in eventList : due[f] <= deadline
        BY <3>1 DEF DeadlineIsDue
      <3>3. due[e] \in Nat /\ due[f] \in Nat /\ deadline \in Nat /\ now \in Nat
        BY <3>1 DEF IInv, TypeOK
      <3>4. due[e] <= due[f]
        BY <3>1
      <3> QED BY <3>1, <3>2, <3>3, <3>4
    <2>2. fate[e] = "queued" /\ e \notin stopped
      BY <1>4 DEF IInv, TypeOK, OneOwner, IdsMatchEvents, PopEvent, IsMinimal
    <2>3. /\ fate' = [fate EXCEPT ![e] = "carried"]
          /\ UNCHANGED <<stopped, due, now, threadState>>
      BY <1>4 DEF PopEvent
    <2>4. View[e] = "armed" /\ View' = [View EXCEPT ![e] = "fired"]
      <3>1. fate \in [Events -> Fates] /\ "carried" \in Fates
        BY DEF IInv, TypeOK, Fates
      <3>2. Seen(e) = "armed" /\ Seen(e)' = "fired"
        BY <2>2, <2>3, <3>1 DEF Seen
      <3>3. View' = [View EXCEPT ![e] = Seen(e)']
        BY <2>2, <2>3, <3>1, ViewChange
      <3> QED BY <3>2, <3>3 DEF View
    <2>5. Timer!Fire(e)
      BY <1>0, <2>1, <2>3, <2>4 DEF Timer!Fire, Timer!Become
    <2> QED BY <2>5 DEF Timer!Next
  <1>5. ASSUME NEW e \in Events, PopStopped(e) PROVE Stutter
    <2>1. e \in stopped
      BY <1>5 DEF IInv, IdsMatchEvents, PopStopped, IsMinimal
    <2>2. /\ fate' = [fate EXCEPT ![e] = "deleted"]
          /\ UNCHANGED <<stopped, due, now, threadState>>
      BY <1>5 DEF PopStopped
    <2> QED BY <2>1, <2>2 DEF IInv, TypeOK, View, Seen
  <1>6. ASSUME HandOver PROVE Stutter
    <2>1. carried \in Events /\ fate[carried] = "carried"
      BY <1>6 DEF IInv, TypeOK, Holding, OneOwner, HandOver
    <2>2. /\ fate' = [fate EXCEPT ![carried] = "handed"]
          /\ UNCHANGED <<stopped, due, now, threadState>>
      BY <1>6 DEF HandOver
    <2> QED BY <2>1, <2>2 DEF IInv, TypeOK, View, Seen
  <1>7. ASSUME Tick PROVE Timer!Next
    <2>1. now' > now /\ UNCHANGED <<View, due, threadState>>
      BY <1>7 DEF IInv, TypeOK, Tick, data, View, Seen
    <2> QED BY <1>0, <2>1 DEF Timer!Tick, Timer!Next
  <1>8. ASSUME UNCHANGED vars PROVE Stutter
    BY <1>8 DEF vars, View, Seen
  <1>9. Timer!Next \/ Stutter
    BY <1>1, <1>2, <1>3, <1>4, <1>5, <1>6, <1>7, <1>8 DEF Next, Loop
  <1>10. Stutter => UNCHANGED Timer!vars
    BY <1>0 DEF Timer!vars
  <1> QED BY <1>9, <1>10

(***************************************************************************)
(* The safety part of ImplementsTimers: no event is handed over before it  *)
(* is due, twice, or after a stopEvent that returned true; what is armed   *)
(* stays armed until it fires, is cancelled or goes with the scheduler.    *)
(***************************************************************************)
THEOREM SchedulerRefines == Spec => Timer!SafeSpec
  <1>1. Init => Timer!Init
    <2> SUFFICES ASSUME Init PROVE Timer!Init
      OBVIOUS
    <2>1. [e \in Events |-> TimerState(e)] = [e \in Events |-> "idle"]
      BY DEF Init, TimerState
    <2> QED BY <2>1 DEF Init, Timer!Init
  <1>2. Spec => []DeadlineIsDue
    BY DeadlineInit, DeadlineStep, SchedulerInvariant, PTL DEF Spec
  <1>3. IInv /\ IInv' /\ DeadlineIsDue /\ [Next]_vars => [Timer!Next]_(Timer!vars)
    BY TimerStep
  <1> QED BY <1>1, <1>2, <1>3, SchedulerInvariant, PTL DEF Spec, Timer!SafeSpec
=============================================================================
