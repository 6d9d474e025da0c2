------------------------ MODULE DatabaseTasksProofs ------------------------
(***************************************************************************)
(* Theorems about the database thread, for any number of client threads    *)
(* and queries.  What makes two consumers safe is that the list is always  *)
(* the end of what was accepted: what has left it is exactly a beginning   *)
(* of it, and each of its queries is held by one thread or has run.        *)
(***************************************************************************)
EXTENDS DatabaseTasks, SequenceTheorems, TLAPS

USE DatabaseTasksAssumption

NoRepeat(s) == \A i, j \in 1 .. Len(s) : s[i] = s[j] => i = j

\* t is the end of s.
Suffix(t, s) == /\ Len(t) <= Len(s)
                /\ \A i \in 1 .. Len(t) : t[i] = s[(Len(s) - Len(t)) + i]

\* k is in what t lacks of s.
Gone(k, t, s) == \E i \in 1 .. Len(s) - Len(t) : s[i] = k

-----------------------------------------------------------------------------
(* Sequences.                                                              *)

LEMMA AppendGives ==
    ASSUME NEW S, NEW s \in Seq(S), NEW e \in S, ~Occurs(e, s), NoRepeat(s)
    PROVE  /\ Append(s, e) \in Seq(S)
           /\ NoRepeat(Append(s, e))
           /\ \A k : Occurs(k, Append(s, e)) <=> (k = e \/ Occurs(k, s))
  <1> DEFINE a == Append(s, e)
  <1>1. /\ a \in Seq(S)
        /\ Len(a) = Len(s) + 1
        /\ Len(s) \in Nat
        /\ a[Len(s) + 1] = e
        /\ \A i \in 1 .. Len(s) : a[i] = s[i]
    OBVIOUS
  <1> HIDE DEF a
  <1>2. NoRepeat(a)
    BY <1>1 DEF NoRepeat, Occurs
  <1>3. \A k : Occurs(k, a) <=> (k = e \/ Occurs(k, s))
    BY <1>1 DEF Occurs
  <1> QED BY <1>1, <1>2, <1>3 DEF a

\* Pushing to both keeps the one the end of the other.
LEMMA AppendSuffix ==
    ASSUME NEW S, NEW s \in Seq(S), NEW t \in Seq(S), NEW e \in S, Suffix(t, s)
    PROVE  /\ Suffix(Append(t, e), Append(s, e))
           /\ \A k : Gone(k, Append(t, e), Append(s, e)) <=> Gone(k, t, s)
  <1> DEFINE a == Append(s, e)
             b == Append(t, e)
  <1>1. /\ Len(a) = Len(s) + 1 /\ Len(b) = Len(t) + 1
        /\ Len(s) \in Nat /\ Len(t) \in Nat
        /\ a[Len(s) + 1] = e /\ b[Len(t) + 1] = e
        /\ \A i \in 1 .. Len(s) : a[i] = s[i]
        /\ \A i \in 1 .. Len(t) : b[i] = t[i]
    OBVIOUS
  <1> HIDE DEF a, b
  <1>2. Len(t) <= Len(s) /\ \A i \in 1 .. Len(t) : t[i] = s[(Len(s) - Len(t)) + i]
    BY DEF Suffix
  <1>3. Suffix(b, a)
    <2>1. Len(b) <= Len(a)
      BY <1>1, <1>2
    <2>2. ASSUME NEW i \in 1 .. Len(b) PROVE b[i] = a[(Len(a) - Len(b)) + i]
      <3>1. CASE i = Len(t) + 1
        <4>1. (Len(a) - Len(b)) + i = Len(s) + 1
          BY <1>1, <3>1
        <4> QED BY <4>1, <1>1, <3>1
      <3>2. CASE i # Len(t) + 1
        <4>1. i \in 1 .. Len(t)
          BY <1>1, <3>2
        <4>2. (Len(a) - Len(b)) + i = (Len(s) - Len(t)) + i
          BY <1>1
        <4>3. (Len(s) - Len(t)) + i \in 1 .. Len(s)
          BY <4>1, <1>1, <1>2
        <4> QED BY <4>1, <4>2, <4>3, <1>1, <1>2
      <3> QED BY <3>1, <3>2
    <2> QED BY <2>1, <2>2 DEF Suffix
  <1>4. \A k : Gone(k, b, a) <=> Gone(k, t, s)
    <2>1. Len(a) - Len(b) = Len(s) - Len(t)
      BY <1>1
    <2>2. \A i \in 1 .. Len(s) - Len(t) : i \in 1 .. Len(s)
      BY <1>1, <1>2
    <2> QED BY <2>1, <2>2, <1>1 DEF Gone
  <1> QED BY <1>3, <1>4 DEF a, b

\* Popping the list: its first query leaves it, and no other does.
LEMMA TailSuffix ==
    ASSUME NEW S, NEW s \in Seq(S), NEW t \in Seq(S), t # <<>>, Suffix(t, s), NoRepeat(s)
    PROVE  /\ Tail(t) \in Seq(S)
           /\ Head(t) \in S
           /\ Occurs(Head(t), s)
           /\ ~Gone(Head(t), t, s)
           /\ Suffix(Tail(t), s)
           /\ \A k : Gone(k, Tail(t), s) <=> (k = Head(t) \/ Gone(k, t, s))
  <1> DEFINE b == Tail(t)
             n == (Len(s) - Len(t)) + 1
  <1>1. /\ b \in Seq(S)
        /\ Len(t) = Len(b) + 1
        /\ Len(b) \in Nat /\ Len(s) \in Nat
        /\ Head(t) = t[1]
        /\ Head(t) \in S
        /\ \A i \in 1 .. Len(b) : b[i] = t[i + 1]
    OBVIOUS
  <1> HIDE DEF b
  <1>2. Len(t) <= Len(s) /\ \A i \in 1 .. Len(t) : t[i] = s[(Len(s) - Len(t)) + i]
    BY DEF Suffix
  <1>3. n \in 1 .. Len(s) /\ s[n] = Head(t) /\ n = Len(s) - Len(b)
    BY <1>1, <1>2
  <1>4. Occurs(Head(t), s)
    BY <1>3 DEF Occurs
  <1>5. ~Gone(Head(t), t, s)
    BY <1>1, <1>3 DEF Gone, NoRepeat
  <1>6. Suffix(b, s)
    <2>1. ASSUME NEW i \in 1 .. Len(b) PROVE b[i] = s[(Len(s) - Len(b)) + i]
      <3>1. i + 1 \in 1 .. Len(t)
        BY <1>1
      <3>2. (Len(s) - Len(t)) + (i + 1) = (Len(s) - Len(b)) + i
        BY <1>1
      <3>3. t[i + 1] = s[(Len(s) - Len(t)) + (i + 1)]
        BY <3>1, <1>2
      <3> QED BY <3>2, <3>3, <1>1
    <2>2. Len(b) <= Len(s)
      BY <1>1, <1>2
    <2> QED BY <2>1, <2>2 DEF Suffix
  <1>7. ASSUME NEW k PROVE Gone(k, b, s) <=> (k = Head(t) \/ Gone(k, t, s))
    <2>1. n \in Nat /\ Len(s) - Len(b) = n /\ Len(s) - Len(t) = n - 1
      BY <1>1, <1>3
    <2> HIDE DEF n
    <2>2. \A i : i \in 1 .. n <=> i = n \/ i \in 1 .. n - 1
      BY <2>1, <1>3
    <2> QED BY <2>1, <2>2, <1>3 DEF Gone
  <1> QED BY <1>1, <1>4, <1>5, <1>6, <1>7 DEF b

\* What is still in the list has not left it.
LEMMA SuffixApart ==
    ASSUME NEW S, NEW s \in Seq(S), NEW t \in Seq(S), Suffix(t, s), NoRepeat(s)
    PROVE  /\ \A k : Occurs(k, t) => Occurs(k, s) /\ ~Gone(k, t, s)
           /\ \A k : Gone(k, t, s) => Occurs(k, s)
  <1>1. /\ Len(t) \in Nat /\ Len(s) \in Nat
        /\ Len(t) <= Len(s)
        /\ \A i \in 1 .. Len(t) : t[i] = s[(Len(s) - Len(t)) + i]
    BY DEF Suffix
  <1>2. ASSUME NEW k, Occurs(k, t) PROVE Occurs(k, s) /\ ~Gone(k, t, s)
    <2>1. PICK i \in 1 .. Len(t) : t[i] = k
      BY <1>2 DEF Occurs
    <2>2. (Len(s) - Len(t)) + i \in 1 .. Len(s) /\ s[(Len(s) - Len(t)) + i] = k
      BY <2>1, <1>1
    <2> QED BY <2>2, <1>1 DEF Occurs, Gone, NoRepeat
  <1>3. \A k : Gone(k, t, s) => Occurs(k, s)
    BY <1>1 DEF Gone, Occurs
  <1> QED BY <1>2, <1>3

-----------------------------------------------------------------------------
(* The inductive invariant.                                                *)

\* A thread holds a query while it submits one or runs one, no two the same.
Holding ==
    /\ \A t \in Threads : inFlight[t] # NoQuery <=> pc[t] \in {"call", "run", "post"}
    /\ \A t, u \in Threads : t # u /\ inFlight[t] = inFlight[u] => inFlight[t] = NoQuery

\* Where the query of a thread is, by where the thread stands.
Progress ==
    /\ \A t \in Threads :
        /\ pc[t] = "call" => ~Occurs(inFlight[t], accepted)
        /\ pc[t] \in {"run", "post"} => Gone(inFlight[t], tasks, accepted)
        /\ pc[t] = "run" => ~Occurs(inFlight[t], executed)
    /\ \A q \in Queries : Occurs(q, executed) => Gone(q, tasks, accepted)

Listed == NoRepeat(accepted) /\ NoRepeat(executed) /\ Suffix(tasks, accepted)

\* After shutdown the list stays empty, but for what its flush still pops.
Closing ==
    closing => /\ threadState = "TERMINATED"
               /\ pc[Game] \notin {"flush", "run", "post"} => tasks = <<>>

IInv == TypeOK /\ Listed /\ Holding /\ Progress /\ Closing

Busy == {"call", "run", "post"}

LEMMA NotifiedGives ==
    ASSUME NEW p \in [Threads -> ClientPCs \cup WorkerPCs], p[Worker] \in WorkerPCs
    PROVE  /\ Notified(p) \in [Threads -> ClientPCs \cup WorkerPCs]
           /\ Notified(p)[Worker] \in WorkerPCs
           /\ \A t \in Threads \ {Worker} : Notified(p)[t] = p[t]
           /\ \A t \in Threads : p[t] \in Busy \/ Notified(p)[t] \in Busy => Notified(p)[t] = p[t]
  BY DEF Notified, Threads, WorkerPCs, Busy

\* A step in which no query moves.
LEMMA QuietKeeps ==
    ASSUME TypeOK, Listed, Holding, Progress,
           UNCHANGED <<tasks, inFlight, accepted, executed>>,
           \A t \in Threads : pc[t] \in Busy \/ pc'[t] \in Busy => pc'[t] = pc[t]
    PROVE  Listed' /\ Holding' /\ Progress'
  <1>1. Listed'
    BY DEF Listed
  <1>2. Holding'
    BY DEF Holding, Busy
  <1>3. Progress'
    BY DEF Progress, Busy
  <1> QED BY <1>1, <1>2, <1>3

LEMMA BeginAddTaskKeeps ==
    ASSUME IInv, NEW c \in Clients, NEW q \in Queries, BeginAddTask(c, q)
    PROVE  IInv'
  <1>1. /\ pc[c] = "idle" /\ Fresh(q) /\ c \in Threads
        /\ inFlight' = [inFlight EXCEPT ![c] = q]
        /\ pc' = [pc EXCEPT ![c] = "call"]
        /\ UNCHANGED <<threadState, tasks, accepted, executed, callbacks, closing>>
    BY DEF BeginAddTask, Goto, Threads
  <1>2. TypeOK /\ Listed /\ Holding /\ Progress /\ Closing
    BY DEF IInv
  <1>3. TypeOK'
    BY <1>1, <1>2 DEF TypeOK, Threads, ClientPCs, WorkerPCs
  <1>4. Listed'
    BY <1>1, <1>2 DEF Listed
  <1>5. Holding'
    BY <1>1, <1>2 DEF Holding, Fresh, TypeOK
  <1>6. Progress'
    BY <1>1, <1>2 DEF Progress, Fresh, TypeOK
  <1>7. Closing'
    BY <1>1, <1>2 DEF Closing, TypeOK, Threads
  <1> QED BY <1>3, <1>4, <1>5, <1>6, <1>7 DEF IInv

LEMMA EnqueueKeeps ==
    ASSUME IInv, NEW c \in Clients, Enqueue(c)
    PROVE  IInv'
  <1> DEFINE q == inFlight[c]
  <1>1. /\ pc[c] = "call" /\ c \in Threads /\ threadState = "RUNNING"
        /\ inFlight' = [inFlight EXCEPT ![c] = NoQuery]
        /\ pc' = [pc EXCEPT ![c] = IF tasks = <<>> THEN "signal" ELSE "idle"]
        /\ tasks' = Append(tasks, q) /\ accepted' = Append(accepted, q)
        /\ UNCHANGED <<threadState, executed, callbacks, closing>>
    BY DEF Enqueue, Goto, Threads
  <1>2. TypeOK /\ Listed /\ Holding /\ Progress /\ Closing
    BY DEF IInv
  <1>3. /\ tasks \in Seq(Queries) /\ accepted \in Seq(Queries)
        /\ q \in Queries /\ ~Occurs(q, accepted)
    BY <1>1, <1>2 DEF TypeOK, Holding, Progress
  <1>4. /\ accepted' \in Seq(Queries) /\ NoRepeat(accepted')
        /\ \A k : Occurs(k, accepted') <=> (k = q \/ Occurs(k, accepted))
    BY <1>1, <1>2, <1>3, AppendGives DEF Listed
  <1>5. /\ Suffix(tasks', accepted')
        /\ \A k : Gone(k, tasks', accepted') <=> Gone(k, tasks, accepted)
    BY <1>1, <1>2, <1>3, AppendSuffix DEF Listed
  <1>6. tasks' \in Seq(Queries)
    BY <1>1, <1>3
  <1>7. TypeOK'
    BY <1>1, <1>2, <1>4, <1>6 DEF TypeOK, Threads, ClientPCs, WorkerPCs
  <1>8. Listed'
    BY <1>1, <1>2, <1>4, <1>5 DEF Listed
  <1>9. Holding'
    BY <1>1, <1>2 DEF Holding, TypeOK
  <1>10. Progress'
    <2>1. ASSUME NEW t \in Threads
          PROVE  /\ pc'[t] = "call" => ~Occurs(inFlight'[t], accepted')
                 /\ pc'[t] \in {"run", "post"} => Gone(inFlight'[t], tasks', accepted')
                 /\ pc'[t] = "run" => ~Occurs(inFlight'[t], executed')
      <3>1. CASE t = c
        BY <3>1, <1>1, <1>2 DEF TypeOK
      <3>2. CASE t # c
        <4>1. pc'[t] = pc[t] /\ inFlight'[t] = inFlight[t]
          BY <3>2, <1>1, <1>2 DEF TypeOK
        <4>2. pc[t] = "call" => inFlight[t] # q
          BY <3>2, <1>1, <1>2 DEF Holding
        <4> QED BY <4>1, <4>2, <1>1, <1>2, <1>4, <1>5 DEF Progress
      <3> QED BY <3>1, <3>2
    <2> QED BY <2>1, <1>1, <1>2, <1>5 DEF Progress
  <1>11. Closing'
    BY <1>1, <1>2 DEF Closing
  <1> QED BY <1>7, <1>8, <1>9, <1>10, <1>11 DEF IInv

LEMMA DropKeeps ==
    ASSUME IInv, NEW c \in Clients, Drop(c)
    PROVE  IInv'
  <1>1. /\ pc[c] = "call" /\ c \in Threads
        /\ inFlight' = [inFlight EXCEPT ![c] = NoQuery]
        /\ pc' = [pc EXCEPT ![c] = "idle"]
        /\ UNCHANGED <<threadState, tasks, accepted, executed, callbacks, closing>>
    BY DEF Drop, Goto, Threads
  <1>2. TypeOK /\ Listed /\ Holding /\ Progress /\ Closing
    BY DEF IInv
  <1>3. TypeOK'
    BY <1>1, <1>2 DEF TypeOK, Threads, ClientPCs, WorkerPCs
  <1>4. Listed'
    BY <1>1, <1>2 DEF Listed
  <1>5. Holding'
    BY <1>1, <1>2 DEF Holding, TypeOK
  <1>6. Progress'
    BY <1>1, <1>2 DEF Progress, TypeOK
  <1>7. Closing'
    BY <1>1, <1>2 DEF Closing, TypeOK, Threads
  <1> QED BY <1>3, <1>4, <1>5, <1>6, <1>7 DEF IInv

LEMMA PopKeeps ==
    ASSUME IInv, NEW t \in Consumers, Pop(t), pc[t] \notin Busy,
           t = Game => pc[t] = "flush"
    PROVE  IInv'
  <1> DEFINE q == Head(tasks)
  <1>1. /\ tasks # <<>> /\ t \in Threads
        /\ inFlight' = [inFlight EXCEPT ![t] = q]
        /\ pc' = [pc EXCEPT ![t] = "run"]
        /\ tasks' = Tail(tasks)
        /\ UNCHANGED <<threadState, accepted, executed, callbacks, closing>>
    BY DEF Pop, Goto, Threads, Consumers
  <1>2. TypeOK /\ Listed /\ Holding /\ Progress /\ Closing
    BY DEF IInv
  <1>3. tasks \in Seq(Queries) /\ accepted \in Seq(Queries)
    BY <1>2 DEF TypeOK
  <1>4. /\ tasks' \in Seq(Queries)
        /\ q \in Queries
        /\ Occurs(q, accepted)
        /\ ~Gone(q, tasks, accepted)
        /\ Suffix(tasks', accepted)
        /\ \A k : Gone(k, tasks', accepted) <=> (k = q \/ Gone(k, tasks, accepted))
    BY <1>1, <1>2, <1>3, TailSuffix DEF Listed
  <1> HIDE DEF q
  <1>5. TypeOK'
    BY <1>1, <1>2, <1>4 DEF TypeOK, Threads, Consumers, ClientPCs, WorkerPCs
  <1>6. Listed'
    BY <1>1, <1>2, <1>4 DEF Listed
  <1>7. \A u \in Threads : inFlight[u] # q
    <2> SUFFICES ASSUME NEW u \in Threads, inFlight[u] = q PROVE FALSE
      OBVIOUS
    <2>1. pc[u] \in Busy
      BY <1>2, <1>4 DEF Holding, Busy
    <2> QED BY <2>1, <1>2, <1>4 DEF Progress, Busy
  <1>8. Holding'
    BY <1>1, <1>2, <1>4, <1>7 DEF Holding, TypeOK
  <1>9. Progress'
    BY <1>1, <1>2, <1>4 DEF Progress, TypeOK
  <1>10. Closing'
    BY <1>1, <1>2 DEF Closing, TypeOK, Threads, Consumers
  <1> QED BY <1>5, <1>6, <1>8, <1>9, <1>10 DEF IInv

LEMMA ExecuteKeeps ==
    ASSUME IInv, NEW t \in Consumers, Execute(t)
    PROVE  IInv'
  <1> DEFINE q == inFlight[t]
  <1>1. /\ pc[t] = "run" /\ t \in Threads
        /\ executed' = Append(executed, q)
        /\ pc' = [pc EXCEPT ![t] = "post"]
        /\ UNCHANGED <<threadState, tasks, inFlight, accepted, callbacks, closing>>
    BY DEF Execute, Goto, Threads, Consumers
  <1>2. TypeOK /\ Listed /\ Holding /\ Progress /\ Closing
    BY DEF IInv
  <1>3. executed \in Seq(Queries) /\ q \in Queries /\ ~Occurs(q, executed)
    BY <1>1, <1>2 DEF TypeOK, Holding, Progress
  <1>4. /\ executed' \in Seq(Queries) /\ NoRepeat(executed')
        /\ \A k : Occurs(k, executed') <=> (k = q \/ Occurs(k, executed))
    BY <1>1, <1>2, <1>3, AppendGives DEF Listed
  <1>5. TypeOK'
    BY <1>1, <1>2, <1>4 DEF TypeOK, Threads, Consumers, ClientPCs, WorkerPCs
  <1>6. Listed'
    BY <1>1, <1>2, <1>4 DEF Listed
  <1>7. Holding'
    BY <1>1, <1>2 DEF Holding, TypeOK
  <1>8. Progress'
    <2>1. ASSUME NEW u \in Threads, pc'[u] = "run" PROVE ~Occurs(inFlight[u], executed')
      <3>1. u # t /\ pc[u] = "run"
        BY <2>1, <1>1, <1>2 DEF TypeOK
      <3>2. inFlight[u] # q
        BY <3>1, <1>1, <1>2 DEF Holding
      <3> QED BY <3>1, <3>2, <1>2, <1>4 DEF Progress
    <2>2. \A u \in Threads : pc'[u] = "call" => pc[u] = "call"
      BY <1>1, <1>2 DEF TypeOK
    <2>3. \A u \in Threads : pc'[u] \in {"run", "post"} => pc[u] \in {"run", "post"}
      BY <1>1, <1>2 DEF TypeOK
    <2> QED BY <2>1, <2>2, <2>3, <1>1, <1>2, <1>4 DEF Progress
  <1>9. Closing'
    BY <1>1, <1>2 DEF Closing, TypeOK, Threads, Consumers
  <1> QED BY <1>5, <1>6, <1>7, <1>8, <1>9 DEF IInv

LEMMA PostCallbackKeeps ==
    ASSUME IInv, NEW t \in Consumers, PostCallback(t)
    PROVE  IInv'
  <1>1. /\ pc[t] = "post" /\ t \in Threads
        /\ callbacks' = Append(callbacks, inFlight[t]) \/ callbacks' = callbacks
        /\ inFlight' = [inFlight EXCEPT ![t] = NoQuery]
        /\ pc' = [pc EXCEPT ![t] = IF t = Worker THEN "check" ELSE "flush"]
        /\ UNCHANGED <<threadState, tasks, accepted, executed, closing>>
    BY DEF PostCallback, Goto, Threads, Consumers
  <1>2. TypeOK /\ Listed /\ Holding /\ Progress /\ Closing
    BY DEF IInv
  <1>3. callbacks' \in Seq(Queries)
    <2>1. callbacks \in Seq(Queries) /\ inFlight[t] \in Queries
      BY <1>1, <1>2 DEF TypeOK, Holding
    <2> QED BY <1>1, <2>1
  <1>4. TypeOK'
    BY <1>1, <1>2, <1>3 DEF TypeOK, Threads, Consumers, ClientPCs, WorkerPCs
  <1>5. Listed'
    BY <1>1, <1>2 DEF Listed
  <1>6. Holding'
    BY <1>1, <1>2 DEF Holding, TypeOK
  <1>7. Progress'
    BY <1>1, <1>2 DEF Progress, TypeOK
  <1>8. Closing'
    BY <1>1, <1>2 DEF Closing, TypeOK, Threads, Consumers
  <1> QED BY <1>4, <1>5, <1>6, <1>7, <1>8 DEF IInv

\* A step of the worker or of the game's thread between queries.
LEMMA GotoKeeps ==
    ASSUME IInv, NEW t \in Consumers, NEW l, Goto(t, l), pc[t] \notin Busy, l \notin Busy,
           t = Worker => l \in WorkerPCs,
           t = Game => /\ l \in ClientPCs
                       /\ closing' => threadState' = "TERMINATED" /\ (l # "flush" => tasks = <<>>),
           t # Game => UNCHANGED <<threadState, closing>>,
           threadState' \in {"RUNNING", "CLOSING", "TERMINATED"}, closing' \in BOOLEAN,
           UNCHANGED <<tasks, inFlight, accepted, executed, callbacks>>
    PROVE  IInv'
  <1>1. /\ TypeOK /\ Listed /\ Holding /\ Progress /\ Closing
        /\ pc \in [Threads -> ClientPCs \cup WorkerPCs] /\ t \in Threads
        /\ pc' = [pc EXCEPT ![t] = l]
    BY DEF IInv, TypeOK, Goto, Consumers, Threads
  <1>2. \A u \in Threads : pc[u] \in Busy \/ pc'[u] \in Busy => pc'[u] = pc[u]
    BY <1>1
  <1>3. Listed' /\ Holding' /\ Progress'
    BY <1>1, <1>2, QuietKeeps
  <1>4. TypeOK'
    BY <1>1 DEF TypeOK, Consumers, Threads
  <1>5. Closing'
    BY <1>1 DEF Closing, Consumers, Threads, Busy
  <1> QED BY <1>3, <1>4, <1>5 DEF IInv

LEMMA SignalKeeps ==
    ASSUME IInv, NEW c \in Clients, NEW n, n = [pc EXCEPT ![c] = "idle"],
           pc[c] \in {"signal", "notify"}, pc' = Notified(n),
           UNCHANGED <<threadState, tasks, inFlight, accepted, executed, callbacks, closing>>
    PROVE  IInv'
  <1>1. /\ TypeOK /\ Listed /\ Holding /\ Progress /\ Closing
        /\ pc \in [Threads -> ClientPCs \cup WorkerPCs] /\ c \in Threads \ {Worker}
    BY DEF IInv, TypeOK, Threads
  <1>2. n \in [Threads -> ClientPCs \cup WorkerPCs] /\ n[Worker] \in WorkerPCs
    BY <1>1 DEF TypeOK, ClientPCs
  <1>3. /\ pc' \in [Threads -> ClientPCs \cup WorkerPCs]
        /\ pc'[Worker] \in WorkerPCs
        /\ \A t \in Threads \ {Worker} : pc'[t] = n[t]
        /\ \A t \in Threads : n[t] \in Busy \/ pc'[t] \in Busy => pc'[t] = n[t]
    BY <1>2, NotifiedGives
  <1>4. \A t \in Threads : pc[t] \in Busy \/ pc'[t] \in Busy => pc'[t] = pc[t]
    BY <1>1, <1>3 DEF Busy
  <1>5. Listed' /\ Holding' /\ Progress'
    BY <1>1, <1>4, QuietKeeps
  <1>6. TypeOK'
    BY <1>1, <1>3 DEF TypeOK, Threads, ClientPCs
  <1>7. Closing'
    BY <1>1, <1>3 DEF Closing, Threads
  <1> QED BY <1>5, <1>6, <1>7 DEF IInv

LEMMA InitGives == Init => IInv
  <1> SUFFICES ASSUME Init PROVE IInv
    OBVIOUS
  <1>1. TypeOK
    <2>1. /\ pc[Worker] = "check" /\ \A c \in Clients : pc[c] = "idle"
          /\ pc \in [Threads -> {"check", "idle"}]
      BY DEF Init, Threads
    <2>2. inFlight \in [Threads -> Queries \cup {NoQuery}] /\ <<>> \in Seq(Queries)
      BY DEF Init
    <2>3. pc \in [Threads -> ClientPCs \cup WorkerPCs]
      BY <2>1 DEF ClientPCs, WorkerPCs
    <2> QED BY <2>1, <2>2, <2>3 DEF Init, TypeOK, ClientPCs, WorkerPCs
  <1>2. Len(<<>>) = 0
    OBVIOUS
  <1>3. Listed
    BY <1>2 DEF Init, Listed, NoRepeat, Suffix
  <1>4. Holding /\ Progress /\ Closing
    BY <1>2 DEF Init, Holding, Progress, Closing, Occurs
  <1> QED BY <1>1, <1>3, <1>4 DEF IInv

LEMMA NextKeeps == IInv /\ [Next]_vars => IInv'
  <1> SUFFICES ASSUME IInv, [Next]_vars PROVE IInv'
    OBVIOUS
  <1>t. TypeOK /\ Closing
    BY DEF IInv
  <1>c. Worker \in Consumers /\ Game \in Consumers /\ Worker # Game
    BY DEF Consumers
  <1>1. ASSUME NEW c \in Clients, AddTask(c) PROVE IInv'
    <2>1. ASSUME NEW q \in Queries, BeginAddTask(c, q) PROVE IInv'
      BY <2>1, BeginAddTaskKeeps
    <2>2. CASE Enqueue(c)
      BY <2>2, EnqueueKeeps
    <2>3. CASE Drop(c)
      BY <2>3, DropKeeps
    <2>4. CASE Signal(c)
      BY <2>4, SignalKeeps DEF Signal
    <2> QED BY <1>1, <2>1, <2>2, <2>3, <2>4 DEF AddTask
  <1>2. CASE CheckState
    BY <1>2, <1>t, <1>c, GotoKeeps DEF CheckState, TypeOK, Busy, WorkerPCs
  <1>3. CASE Wait
    BY <1>3, <1>t, <1>c, GotoKeeps DEF Wait, TypeOK, Busy, WorkerPCs
  <1>4. CASE FindNothing
    BY <1>4, <1>t, <1>c, GotoKeeps DEF FindNothing, TypeOK, Busy, WorkerPCs
  <1>5. CASE SpuriousWakeup
    BY <1>5, <1>t, <1>c, GotoKeeps DEF SpuriousWakeup, TypeOK, Busy, WorkerPCs
  <1>6. CASE WorkerPop
    BY <1>6, <1>c, PopKeeps DEF WorkerPop, Busy
  <1>7. CASE FlushPop
    BY <1>7, <1>c, PopKeeps DEF FlushPop, Busy
  <1>8. ASSUME NEW t \in Consumers, RunQuery(t) PROVE IInv'
    BY <1>8, ExecuteKeeps, PostCallbackKeeps DEF RunQuery
  <1>9. CASE BeginFlush
    BY <1>9, <1>t, <1>c, GotoKeeps DEF BeginFlush, TypeOK, Closing, Busy, ClientPCs
  <1>10. CASE EndFlush
    BY <1>10, <1>t, <1>c, GotoKeeps DEF EndFlush, TypeOK, Closing, Busy, ClientPCs
  <1>11. CASE Stop
    <2>1. /\ UNCHANGED <<tasks, inFlight, accepted, executed, pc>>
          /\ threadState = "RUNNING" /\ closing' = closing
      BY <1>11 DEF Stop
    <2>2. Listed' /\ Holding' /\ Progress'
      BY <2>1, QuietKeeps DEF IInv
    <2>3. TypeOK' /\ Closing'
      BY <1>11, <1>t DEF Stop, TypeOK, Closing
    <2> QED BY <2>2, <2>3 DEF IInv
  <1>12. CASE Shutdown
    BY <1>12, <1>c, GotoKeeps DEF Shutdown, Busy, ClientPCs
  <1>13. CASE ShutdownNotify
    BY <1>13, SignalKeeps DEF ShutdownNotify
  <1>14. CASE UNCHANGED vars
    <2>1. Listed' /\ Holding' /\ Progress'
      BY <1>14, QuietKeeps DEF IInv, vars
    <2>2. TypeOK' /\ Closing'
      BY <1>14, <1>t DEF vars, TypeOK, Closing
    <2> QED BY <2>1, <2>2 DEF IInv
  <1> QED BY <1>1, <1>2, <1>3, <1>4, <1>5, <1>6, <1>7, <1>8, <1>9, <1>10, <1>11, <1>12, <1>13,
             <1>14 DEF Next, Loop, GameCalls

-----------------------------------------------------------------------------
(* The theorems.                                                           *)

(***************************************************************************)
(* The invariant holds in every state of every run.                        *)
(***************************************************************************)
THEOREM DatabaseTasksInvariant == Spec => []IInv
  <1>1. Init => IInv
    BY InitGives
  <1>2. IInv /\ [Next]_vars => IInv'
    BY NextKeeps
  <1> QED BY <1>1, <1>2, PTL DEF Spec

(***************************************************************************)
(* Every variable keeps its type.                                          *)
(***************************************************************************)
THEOREM DatabaseTasksTypeCorrect == Spec => []TypeOK
  <1>1. IInv => TypeOK
    BY DEF IInv
  <1> QED BY <1>1, DatabaseTasksInvariant, PTL

(***************************************************************************)
(* With two consumers of DatabaseTasks::tasks, a query is held by one      *)
(* thread and run once, and is only overtaken once a thread holds it.      *)
(***************************************************************************)
THEOREM DatabaseTasksRunOnce == Spec => []RunOnceInOrder
  <1>1. ASSUME IInv PROVE RunOnceInOrder
    <2>1. /\ TypeOK /\ Holding /\ Progress
          /\ NoRepeat(accepted) /\ NoRepeat(executed) /\ Suffix(tasks, accepted)
          /\ tasks \in Seq(Queries) /\ accepted \in Seq(Queries)
      BY <1>1 DEF IInv, Listed, TypeOK
    <2>2. /\ \A k : Occurs(k, tasks) => Occurs(k, accepted) /\ ~Gone(k, tasks, accepted)
          /\ \A k : Gone(k, tasks, accepted) => Occurs(k, accepted)
      BY <2>1, SuffixApart
    <2>3. \A i, j \in 1 .. Len(executed) : executed[i] = executed[j] => i = j
      BY <2>1 DEF NoRepeat
    <2>4. ASSUME NEW q \in Queries, Occurs(q, tasks)
          PROVE  ~Occurs(q, executed) /\ \A t \in Consumers : inFlight[t] # q
      <3>1. ~Occurs(q, executed)
        BY <2>1, <2>2, <2>4 DEF Progress
      <3>2. ASSUME NEW t \in Threads, inFlight[t] = q PROVE FALSE
        <4>1. pc[t] \in {"call", "run", "post"}
          BY <2>1, <3>2 DEF Holding
        <4> QED BY <4>1, <2>1, <2>2, <2>4, <3>2 DEF Progress
      <3> QED BY <3>1, <3>2 DEF Consumers, Threads
    <2>5. \A q \in Queries : Occurs(q, executed) => Occurs(q, accepted)
      BY <2>1, <2>2 DEF Progress
    <2>6. ASSUME NEW i \in 1 .. Len(accepted), NEW j \in 1 .. Len(accepted),
                 i < j, Occurs(accepted[j], executed)
          PROVE  ~Occurs(accepted[i], tasks)
      <3>1. accepted[j] \in Queries
        BY <2>1
      <3>2. PICK k \in 1 .. Len(accepted) - Len(tasks) : accepted[k] = accepted[j]
        BY <3>1, <2>1, <2>6 DEF Progress, Gone
      <3>3. Len(tasks) \in Nat /\ Len(accepted) \in Nat
        BY <2>1
      <3>4. k = j
        BY <3>2, <3>3, <2>1 DEF NoRepeat
      <3>5. Gone(accepted[i], tasks, accepted)
        BY <3>2, <3>3, <3>4, <2>6 DEF Gone
      <3> QED BY <3>5, <2>2
    <2> QED BY <2>3, <2>4, <2>5, <2>6 DEF RunOnceInOrder
  <1> QED BY <1>1, DatabaseTasksInvariant, PTL

(***************************************************************************)
(* Once DatabaseTasks::shutdown has flushed, the list is empty for good.   *)
(***************************************************************************)
THEOREM DatabaseTasksDrained == Spec => []ShutdownDrains
  <1>1. IInv => ShutdownDrains
    BY DEF IInv, Closing, ShutdownDrains
  <1> QED BY <1>1, DatabaseTasksInvariant, PTL
=============================================================================
