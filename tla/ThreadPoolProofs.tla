-------------------------- MODULE ThreadPoolProofs --------------------------
(***************************************************************************)
(* Proofs about ThreadPool, for any number of workers, producers and tasks *)
(* and any size of the queue.                                              *)
(***************************************************************************)
EXTENDS ThreadPool, FiniteSetTheorems, TLAPS

USE PoolAssumption DEF PoolAssumption

-----------------------------------------------------------------------------
(* What WakeOne may return: nobody is asleep and nothing happens, or one   *)
(* of those asleep goes back to its test.                                  *)
LEMMA WakeOneCases ==
  ASSUME NEW pc, NEW sleeping, NEW pcx \in WakeOne(pc, sleeping)
  PROVE  \/ sleeping = {} /\ pcx = pc
         \/ \E t \in sleeping : pcx = [pc EXCEPT ![t] = "test"]
  BY DEF WakeOne

LEMMA InitTypeOK == Init => TypeOK
  <1> SUFFICES ASSUME Init
               PROVE  TypeOK
    OBVIOUS
  <1>1. tasks \in Seq(Tasks) /\ Len(tasks) <= maxQueueSize
    BY DEF Init
  <1>2. QED
    BY <1>1 DEF Init, TypeOK

(* A producer that is in the queue's critical section has a task to push.  *)
HasTask == \A p \in Producers : ppc[p] \in {"enter", "test", "asleep"} => arg[p] \in Tasks

(* A worker has a task exactly while it runs it.                           *)
HasJob == \A w \in Workers : IF wpc[w] = "run" THEN job[w] \in Tasks ELSE job[w] = NoTask

TypeInv == TypeOK /\ HasTask /\ HasJob

LEMMA InitTypeInv == Init => TypeInv
  BY InitTypeOK DEF Init, TypeInv, HasTask, HasJob

LEMMA NextTypeInv == TypeInv /\ [Next]_vars => TypeInv'
  <1> SUFFICES ASSUME TypeInv, [Next]_vars
               PROVE  TypeInv'
    OBVIOUS
  <1> USE DEF TypeInv, TypeOK, HasTask, HasJob, workerVars, producerVars
  <1>1. ASSUME NEW p \in Producers, Call(p)
        PROVE  TypeInv'
    BY <1>1 DEF Call
  <1>2. ASSUME NEW p \in Producers, Enqueue(p)
        PROVE  TypeInv'
    <2>1. CASE Reject(p)
      BY <2>1 DEF Reject
    <2>2. CASE SleepWhileFull(p)
      BY <2>2 DEF SleepWhileFull, Entering
    <2>3. CASE Push(p)
      <3>1. arg[p] \in Tasks
        BY <2>3 DEF Push, Entering
      <3>2. tasks' \in Seq(Tasks) /\ Len(tasks') <= maxQueueSize
        BY <2>3, <3>1 DEF Push
      <3>3. QED
        BY <2>3, <3>2 DEF Push
    <2>4. CASE NotifyWorker(p)
      <3>1. \/ wpc' = wpc
            \/ \E w \in SleepingWorkers : wpc' = [wpc EXCEPT ![w] = "test"]
        BY <2>4, WakeOneCases DEF NotifyWorker
      <3>2. QED
        BY <2>4, <3>1 DEF NotifyWorker, SleepingWorkers
    <2>5. QED
      BY <1>2, <2>1, <2>2, <2>3, <2>4 DEF Enqueue
  <1>3. ASSUME NEW w \in Workers, Work(w)
        PROVE  TypeInv'
    <2>1. CASE SleepWhileEmpty(w) \/ Return(w)
      BY <2>1 DEF SleepWhileEmpty, Return
    <2>2. CASE Take(w)
      <3>1. \/ ppc' = ppc
            \/ \E p \in SleepingProducers : ppc' = [ppc EXCEPT ![p] = "test"]
        BY <2>2, WakeOneCases DEF Take
      <3>2. Head(tasks) \in Tasks /\ Tail(tasks) \in Seq(Tasks)
            /\ Len(Tail(tasks)) = Len(tasks) - 1
        BY <2>2 DEF Take
      <3>3. tasks' \in Seq(Tasks) /\ Len(tasks') <= maxQueueSize
        BY <2>2, <3>2 DEF Take
      <3>4. ppc' \in [Producers -> {"idle", "enter", "test", "asleep", "notify"}]
            /\ HasTask'
        BY <2>2, <3>1 DEF Take, SleepingProducers
      <3>5. QED
        BY <2>2, <3>2, <3>3, <3>4 DEF Take
    <2>3. CASE RunTask(w)
      BY <2>3 DEF RunTask
    <2>4. QED
      BY <1>3, <2>1, <2>2, <2>3 DEF Work
  <1>4. CASE Stop \/ Destroy
    BY <1>4 DEF Stop, Destroy, NotifyAll, Join
  <1>5. CASE SpuriousWakeup /\ UNCHANGED <<tasks, stop, job, done, arg, fresh, dpc>>
    BY <1>5 DEF SpuriousWakeup, SleepingWorkers, SleepingProducers
  <1>6. CASE UNCHANGED vars
    BY <1>6 DEF vars
  <1>7. QED
    BY <1>1, <1>2, <1>3, <1>4, <1>5, <1>6 DEF Next

LEMMA TypeInvariant == Spec => []TypeInv
  BY InitTypeInv, NextTypeInv, PTL DEF Spec

(* Every variable stays within its type; in particular, the queue never    *)
(* outgrows maxQueueSize.                                                  *)
THEOREM TypeCorrect == Spec => []TypeOK
  BY TypeInvariant, PTL DEF TypeInv

-----------------------------------------------------------------------------
(* No lost wakeups.                                                        *)

TestingWorkers     == {w \in Workers : wpc[w] = "test"}
NotifyingProducers == {p \in Producers : ppc[p] = "notify"}
TestingProducers   == {p \in Producers : ppc[p] = "test"}

LEMMA Counting ==
  ASSUME NEW S, IsFiniteSet(S), NEW T \in SUBSET S, NEW x \in S
  PROVE  /\ Cardinality(T) \in Nat
         /\ x \notin T => Cardinality(T \union {x}) = Cardinality(T) + 1
         /\ x \in T => Cardinality(T \ {x}) = Cardinality(T) - 1
  BY FS_Subset, FS_CardinalityType, FS_AddElement, FS_RemoveElement

LEMMA NextWorkersAreWoken ==
  TypeInv /\ WorkersAreWoken /\ [Next]_vars => WorkersAreWoken'
  <1> SUFFICES ASSUME TypeInv, WorkersAreWoken, [Next]_vars
               PROVE  WorkersAreWoken'
    OBVIOUS
  <1> DEFINE W == TestingWorkers
             P == NotifyingProducers
             Enough == Len(tasks) <= Cardinality(W) + Cardinality(P)
  <1> USE DEF TypeInv, TypeOK, workerVars, producerVars
  <1>1. /\ W \in SUBSET Workers /\ Cardinality(W) \in Nat
        /\ P \in SUBSET Producers /\ Cardinality(P) \in Nat
        /\ W' \in SUBSET Workers /\ Cardinality(W') \in Nat
        /\ P' \in SUBSET Producers /\ Cardinality(P') \in Nat
    <2>1. /\ W \in SUBSET Workers /\ P \in SUBSET Producers
          /\ W' \in SUBSET Workers /\ P' \in SUBSET Producers
      BY DEF TestingWorkers, NotifyingProducers
    <2>2. QED
      BY <2>1, FS_Subset, FS_CardinalityType
  <1>2. SleepingWorkers # {} => Enough
    BY DEF WorkersAreWoken, TestingWorkers, NotifyingProducers
  <1>3. SUFFICES SleepingWorkers' # {} => Enough'
    BY DEF WorkersAreWoken, TestingWorkers, NotifyingProducers
  <1>4. Len(tasks) \in Nat
    OBVIOUS
  <1> HIDE DEF W, P
  <1>5. ASSUME UNCHANGED <<tasks, wpc>>, P' = P
        PROVE  SleepingWorkers' # {} => Enough'
    <2>1. W' = W /\ SleepingWorkers' = SleepingWorkers
      BY <1>5 DEF W, TestingWorkers, SleepingWorkers
    <2>2. QED
      BY <1>2, <1>5, <2>1
  <1>6. ASSUME NEW p \in Producers, Call(p) \/ Enqueue(p)
        PROVE  SleepingWorkers' # {} => Enough'
    <2>1. CASE Call(p) \/ Reject(p) \/ SleepWhileFull(p)
      <3>1. P' = P
        BY <2>1 DEF P, NotifyingProducers, Call, Reject, SleepWhileFull, Entering
      <3>2. QED
        BY <1>5, <2>1, <3>1 DEF Call, Reject, SleepWhileFull
    <2>2. CASE Push(p)
      <3>1. P' = P \union {p} /\ p \notin P
        BY <2>2 DEF P, NotifyingProducers, Push, Entering
      <3>2. W' = W /\ SleepingWorkers' = SleepingWorkers
        BY <2>2 DEF W, TestingWorkers, SleepingWorkers, Push
      <3>3. Cardinality(P') = Cardinality(P) + 1
        BY <1>1, <3>1, Counting
      <3>4. Len(tasks') = Len(tasks) + 1
        BY <2>2 DEF Push
      <3>5. QED
        BY <1>1, <1>2, <1>4, <3>2, <3>3, <3>4
    <2>3. CASE NotifyWorker(p)
      <3>1. P' = P \ {p} /\ p \in P /\ tasks' = tasks
        BY <2>3 DEF P, NotifyingProducers, NotifyWorker
      <3>2. Cardinality(P') = Cardinality(P) - 1
        BY <1>1, <3>1, Counting
      <3>3. CASE SleepingWorkers = {} /\ wpc' = wpc
        BY <3>3 DEF SleepingWorkers
      <3>4. ASSUME NEW w \in SleepingWorkers, wpc' = [wpc EXCEPT ![w] = "test"]
            PROVE  Enough'
        <4>1. W' = W \union {w} /\ w \notin W /\ w \in Workers
          BY <3>4 DEF W, TestingWorkers, SleepingWorkers
        <4>2. Cardinality(W') = Cardinality(W) + 1
          BY <1>1, <4>1, Counting
        <4>3. Enough
          BY <1>2, <3>4
        <4>4. QED
          BY <1>1, <1>4, <3>1, <3>2, <4>2, <4>3
      <3>5. QED
        BY <2>3, <3>3, <3>4, WakeOneCases DEF NotifyWorker
    <2>4. QED
      BY <1>6, <2>1, <2>2, <2>3 DEF Enqueue
  <1>7. ASSUME NEW w \in Workers, Work(w)
        PROVE  SleepingWorkers' # {} => Enough'
    <2>1. CASE SleepWhileEmpty(w) \/ Return(w)
      <3>1. Len(tasks') = 0
        BY <2>1 DEF SleepWhileEmpty, Return
      <3>2. QED
        BY <1>1, <3>1
    <2>2. CASE Take(w)
      <3>1. W' = W \ {w} /\ w \in W /\ SleepingWorkers' = SleepingWorkers
        BY <2>2 DEF W, TestingWorkers, SleepingWorkers, Take
      <3>2. Cardinality(W') = Cardinality(W) - 1
        BY <1>1, <3>1, Counting
      <3>3. P' = P
        <4>1. \/ ppc' = ppc
              \/ \E p \in SleepingProducers : ppc' = [ppc EXCEPT ![p] = "test"]
          BY <2>2, WakeOneCases DEF Take
        <4>2. QED
          BY <4>1 DEF P, NotifyingProducers, SleepingProducers
      <3>4. Len(tasks') = Len(tasks) - 1
        BY <2>2 DEF Take
      <3>5. QED
        BY <1>1, <1>2, <1>4, <3>1, <3>2, <3>3, <3>4
    <2>3. CASE RunTask(w)
      <3>1. W' = W \union {w} /\ w \notin W /\ SleepingWorkers' = SleepingWorkers
        BY <2>3 DEF W, TestingWorkers, SleepingWorkers, RunTask
      <3>2. Cardinality(W') = Cardinality(W) + 1
        BY <1>1, <3>1, Counting
      <3>3. P' = P /\ tasks' = tasks
        BY <2>3 DEF P, NotifyingProducers, RunTask
      <3>4. QED
        BY <1>1, <1>2, <1>4, <3>1, <3>2, <3>3
    <2>4. QED
      BY <1>7, <2>1, <2>2, <2>3 DEF Work
  <1>8. CASE Stop \/ Join \/ UNCHANGED vars
    BY <1>5, <1>8 DEF Stop, Join, vars, P, NotifyingProducers
  <1>9. CASE NotifyAll
    BY <1>9 DEF NotifyAll, SleepingWorkers
  <1>10. CASE SpuriousWakeup /\ UNCHANGED <<tasks, stop, job, done, arg, fresh, dpc>>
    <2>1. ASSUME NEW w \in SleepingWorkers, wpc' = [wpc EXCEPT ![w] = "test"],
                 UNCHANGED ppc
          PROVE  Enough'
      <3>1. W' = W \union {w} /\ w \notin W /\ w \in Workers
        BY <2>1 DEF W, TestingWorkers, SleepingWorkers
      <3>2. Cardinality(W') = Cardinality(W) + 1
        BY <1>1, <3>1, Counting
      <3>3. P' = P /\ tasks' = tasks
        BY <1>10, <2>1 DEF P, NotifyingProducers
      <3>4. QED
        BY <1>1, <1>2, <1>4, <2>1, <3>2, <3>3
    <2>2. ASSUME NEW p \in SleepingProducers, ppc' = [ppc EXCEPT ![p] = "test"],
                 UNCHANGED wpc
          PROVE  SleepingWorkers' # {} => Enough'
      <3>1. P' = P
        BY <2>2 DEF P, NotifyingProducers, SleepingProducers
      <3>2. QED
        BY <1>5, <1>10, <2>2, <3>1
    <2>3. QED
      BY <1>10, <2>1, <2>2 DEF SpuriousWakeup
  <1>11. QED
    BY <1>6, <1>7, <1>8, <1>9, <1>10 DEF Next, Destroy

(* No worker sleeps through a task, with spurious wakeups and whoever else *)
(* takes the task it was woken for.                                        *)
THEOREM NoLostWakeupOfWorkers == Spec => []WorkersAreWoken
  <1>1. Init => WorkersAreWoken
    BY DEF Init, WorkersAreWoken, SleepingWorkers
  <1>2. QED
    BY <1>1, NextWorkersAreWoken, TypeInvariant, PTL DEF Spec

LEMMA NextProducersAreWoken ==
  TypeInv /\ ProducersAreWoken /\ [Next]_vars => ProducersAreWoken'
  <1> SUFFICES ASSUME TypeInv, ProducersAreWoken, [Next]_vars
               PROVE  ProducersAreWoken'
    OBVIOUS
  <1> DEFINE P == TestingProducers
             Enough == maxQueueSize - Len(tasks) <= Cardinality(P)
  <1> USE DEF TypeInv, TypeOK, workerVars, producerVars
  <1>1. /\ P \in SUBSET Producers /\ Cardinality(P) \in Nat
        /\ P' \in SUBSET Producers /\ Cardinality(P') \in Nat
    <2>1. P \in SUBSET Producers /\ P' \in SUBSET Producers
      BY DEF TestingProducers
    <2>2. QED
      BY <2>1, FS_Subset, FS_CardinalityType
  <1>2. SleepingProducers # {} => Enough
    BY DEF ProducersAreWoken, TestingProducers
  <1>3. SUFFICES SleepingProducers' # {} => Enough'
    BY DEF ProducersAreWoken, TestingProducers
  <1>4. Len(tasks) \in Nat /\ maxQueueSize \in Nat
    OBVIOUS
  <1> HIDE DEF P
  <1>5. ASSUME UNCHANGED <<tasks, SleepingProducers, P>>
        PROVE  SleepingProducers' # {} => Enough'
    BY <1>2, <1>5
  <1>6. ASSUME NEW p \in Producers, Call(p) \/ Enqueue(p)
        PROVE  SleepingProducers' # {} => Enough'
    <2>1. CASE Call(p) \/ Reject(p) \/ NotifyWorker(p)
      <3>1. UNCHANGED <<tasks, SleepingProducers, P>>
        BY <2>1 DEF P, TestingProducers, SleepingProducers, Call, Reject, NotifyWorker
      <3>2. QED
        BY <1>5, <3>1
    <2>2. CASE SleepWhileFull(p)
      <3>1. Len(tasks') = maxQueueSize
        BY <2>2 DEF SleepWhileFull
      <3>2. QED
        BY <1>1, <1>4, <3>1
    <2>3. CASE Push(p)
      <3>1. /\ SleepingProducers' = SleepingProducers
            /\ \/ P' = P
               \/ P' = P \ {p} /\ p \in P
        BY <2>3 DEF P, TestingProducers, SleepingProducers, Push, Entering
      <3>2. \/ Cardinality(P') = Cardinality(P)
            \/ Cardinality(P') = Cardinality(P) - 1
        BY <1>1, <3>1, Counting
      <3>3. Len(tasks') = Len(tasks) + 1
        BY <2>3 DEF Push
      <3>4. QED
        BY <1>1, <1>2, <1>4, <3>1, <3>2, <3>3
    <2>4. QED
      BY <1>6, <2>1, <2>2, <2>3 DEF Enqueue
  <1>7. ASSUME NEW w \in Workers, Work(w)
        PROVE  SleepingProducers' # {} => Enough'
    <2>1. CASE SleepWhileEmpty(w) \/ Return(w) \/ RunTask(w)
      BY <1>5, <2>1 DEF SleepWhileEmpty, Return, RunTask, P, TestingProducers,
                        SleepingProducers
    <2>2. CASE Take(w)
      <3>1. Len(tasks') = Len(tasks) - 1
        BY <2>2 DEF Take
      <3>2. CASE SleepingProducers = {} /\ ppc' = ppc
        BY <3>2 DEF SleepingProducers
      <3>3. ASSUME NEW p \in SleepingProducers, ppc' = [ppc EXCEPT ![p] = "test"]
            PROVE  Enough'
        <4>1. P' = P \union {p} /\ p \notin P /\ p \in Producers
          BY <3>3 DEF P, TestingProducers, SleepingProducers
        <4>2. Cardinality(P') = Cardinality(P) + 1
          BY <1>1, <4>1, Counting
        <4>3. Enough
          BY <1>2, <3>3
        <4>4. QED
          BY <1>1, <1>4, <3>1, <4>2, <4>3
      <3>4. QED
        BY <2>2, <3>2, <3>3, WakeOneCases DEF Take
    <2>3. QED
      BY <1>7, <2>1, <2>2 DEF Work
  <1>8. CASE Stop \/ Destroy \/ UNCHANGED vars
    BY <1>5, <1>8 DEF Stop, Destroy, NotifyAll, Join, vars, P, TestingProducers,
                      SleepingProducers
  <1>9. CASE SpuriousWakeup /\ UNCHANGED <<tasks, stop, job, done, arg, fresh, dpc>>
    <2>1. CASE UNCHANGED ppc
      BY <1>5, <1>9, <2>1 DEF P, TestingProducers, SleepingProducers
    <2>2. ASSUME NEW p \in SleepingProducers, ppc' = [ppc EXCEPT ![p] = "test"]
          PROVE  Enough'
      <3>1. P' = P \union {p} /\ p \notin P /\ p \in Producers
        BY <2>2 DEF P, TestingProducers, SleepingProducers
      <3>2. Cardinality(P') = Cardinality(P) + 1
        BY <1>1, <3>1, Counting
      <3>3. QED
        BY <1>1, <1>2, <1>4, <1>9, <2>2, <3>2
    <2>3. QED
      BY <1>9, <2>1, <2>2 DEF SpuriousWakeup
  <1>10. QED
    BY <1>6, <1>7, <1>8, <1>9 DEF Next

(* No caller of enqueue sleeps through a free place in the queue.          *)
THEOREM NoLostWakeupOfProducers == Spec => []ProducersAreWoken
  <1>1. Init => ProducersAreWoken
    BY DEF Init, ProducersAreWoken, SleepingProducers
  <1>2. QED
    BY <1>1, NextProducersAreWoken, TypeInvariant, PTL DEF Spec

-----------------------------------------------------------------------------
(* The destructor.                                                         *)

(* Workers return when the queue is empty, and as no call of enqueue was   *)
(* on its way when stop was set, the queue stays empty.                    *)
StopInv ==
  /\ stop => \A p \in Producers : ppc[p] \in {"idle", "enter"}
  /\ (\E w \in Workers : wpc[w] = "returned") => stop /\ tasks = <<>>
  /\ dpc = "destroyed" => \A w \in Workers : wpc[w] = "returned"

LEMMA NextStopInv ==
  ~CallsOverlap /\ TypeInv /\ StopInv /\ [Next]_vars => StopInv'
  <1> SUFFICES ASSUME ~CallsOverlap, TypeInv, StopInv, [Next]_vars
               PROVE  StopInv'
    OBVIOUS
  <1> USE DEF TypeInv, TypeOK, StopInv, workerVars, producerVars
  <1>1. ASSUME NEW p \in Producers, Call(p) \/ Enqueue(p)
        PROVE  StopInv'
    <2>1. CASE Call(p) \/ Reject(p) \/ SleepWhileFull(p) \/ Push(p)
      BY <2>1 DEF Call, Reject, SleepWhileFull, Push, Entering
    <2>2. CASE NotifyWorker(p)
      <3>1. ~stop
        BY <2>2 DEF NotifyWorker
      <3>2. \A w \in Workers : wpc'[w] = "returned" => wpc[w] = "returned"
        BY <2>2, WakeOneCases DEF NotifyWorker, SleepingWorkers
      <3>3. \A w \in Workers : wpc[w] # "returned" /\ wpc'[w] # "returned"
        BY <3>1, <3>2
      <3>4. QED
        BY <2>2, <3>1, <3>3 DEF NotifyWorker
    <2>3. QED
      BY <1>1, <2>1, <2>2 DEF Enqueue
  <1>2. ASSUME NEW w \in Workers, Work(w)
        PROVE  StopInv'
    <2>1. CASE SleepWhileEmpty(w) \/ Return(w) \/ RunTask(w)
      BY <2>1 DEF SleepWhileEmpty, Return, RunTask
    <2>2. CASE Take(w)
      <3>1. stop => ppc' = ppc
        BY <2>2, WakeOneCases DEF Take, SleepingProducers
      <3>2. QED
        BY <2>2, <3>1 DEF Take
    <2>3. QED
      BY <1>2, <2>1, <2>2 DEF Work
  <1>3. CASE Stop \/ Destroy \/ UNCHANGED vars
    BY <1>3 DEF Stop, Destroy, NotifyAll, Join, vars
  <1>4. CASE SpuriousWakeup /\ UNCHANGED <<tasks, stop, job, done, arg, fresh, dpc>>
    BY <1>4 DEF SpuriousWakeup, SleepingWorkers, SleepingProducers
  <1>5. QED
    BY <1>1, <1>2, <1>3, <1>4 DEF Next

(* A pool that is destroyed while nobody is in the middle of enqueue has   *)
(* run every task it accepted.                                             *)
THEOREM DestructorRunsAll == ~CallsOverlap => (Spec => []NothingLeftBehind)
  <1> SUFFICES ASSUME ~CallsOverlap
               PROVE  Spec => []NothingLeftBehind
    OBVIOUS
  <1>1. Init => StopInv
    BY DEF Init, StopInv
  <1>2. TypeInv /\ StopInv /\ [Next]_vars => StopInv'
    BY NextStopInv
  <1>3. TypeInv /\ StopInv => NothingLeftBehind
    BY DEF TypeInv, HasJob, StopInv, NothingLeftBehind
  <1>4. QED
    BY <1>1, <1>2, <1>3, TypeInvariant, PTL DEF Spec

(* Once the destructor joins, stop is set and nobody falls asleep again.   *)
JoinInv ==
  /\ dpc # "alive" => stop
  /\ dpc \in {"join", "destroyed"} => SleepingWorkers = {}

LEMMA NextJoinInv == TypeInv /\ JoinInv /\ [Next]_vars => JoinInv'
  <1> SUFFICES ASSUME TypeInv, JoinInv, [Next]_vars
               PROVE  JoinInv'
    OBVIOUS
  <1> USE DEF TypeInv, TypeOK, JoinInv, workerVars, producerVars, SleepingWorkers
  <1>1. ASSUME NEW p \in Producers, Call(p) \/ Enqueue(p)
        PROVE  JoinInv'
    <2>1. CASE Call(p) \/ Reject(p) \/ SleepWhileFull(p) \/ Push(p)
      BY <2>1 DEF Call, Reject, SleepWhileFull, Push
    <2>2. CASE NotifyWorker(p)
      <3>1. \A w \in Workers : wpc'[w] = "asleep" => wpc[w] = "asleep"
        BY <2>2, WakeOneCases DEF NotifyWorker
      <3>2. QED
        BY <2>2, <3>1 DEF NotifyWorker
    <2>3. QED
      BY <1>1, <2>1, <2>2 DEF Enqueue
  <1>2. ASSUME NEW w \in Workers, Work(w)
        PROVE  JoinInv'
    BY <1>2 DEF Work, SleepWhileEmpty, Return, Take, RunTask
  <1>3. CASE Stop \/ Destroy \/ UNCHANGED vars
    BY <1>3 DEF Stop, Destroy, NotifyAll, Join, vars
  <1>4. CASE SpuriousWakeup /\ UNCHANGED <<tasks, stop, job, done, arg, fresh, dpc>>
    BY <1>4 DEF SpuriousWakeup, SleepingProducers
  <1>5. QED
    BY <1>1, <1>2, <1>3, <1>4 DEF Next

(* The destructor joins no worker that is asleep, even if it starts in the *)
(* middle of calls of enqueue and the notifications of its wakeups get     *)
(* mixed: no worker misses notify_all() between its test and its sleep.    *)
THEOREM NobodySleepsWhileJoined ==
  Spec => [](dpc = "join" => SleepingWorkers = {})
  <1>1. Init => JoinInv
    BY DEF Init, JoinInv
  <1>2. JoinInv => (dpc = "join" => SleepingWorkers = {})
    BY DEF JoinInv
  <1>3. QED
    BY <1>1, <1>2, NextJoinInv, TypeInvariant, PTL DEF Spec

(* Somebody who runs, or will when the OS schedules it.                    *)
SomebodyIsAwake ==
  \/ \E w \in Workers : wpc[w] \in {"test", "run"}
  \/ \E p \in Producers : ppc[p] \in {"test", "notify"}

(* Whoever is asleep with something to do has somebody to wait for: while  *)
(* a caller of enqueue sleeps because the queue was full, or a worker      *)
(* although it is not empty, another thread is awake.  Workers and callers *)
(* never all wait for each other.                                          *)
NoCircularWait ==
  SleepingProducers # {} \/ (SleepingWorkers # {} /\ tasks # <<>>) => SomebodyIsAwake

(* A pool that is destroyed outside any call of enqueue never comes to a   *)
(* standstill with a caller asleep, for any number of callers and workers  *)
(* and any size of the queue.                                              *)
THEOREM NobodyWaitsForEverybody == ~CallsOverlap => (Spec => []NoCircularWait)
  <1> SUFFICES ASSUME ~CallsOverlap
               PROVE  Spec => []NoCircularWait
    OBVIOUS
  <1>1. ASSUME TypeInv, StopInv, WorkersAreWoken, ProducersAreWoken
        PROVE  NoCircularWait
    <2>1. Len(tasks) \in Nat /\ Len(tasks) <= maxQueueSize /\ (tasks # <<>> => Len(tasks) > 0)
      BY <1>1 DEF TypeInv, TypeOK
    <2>2. TestingWorkers = {} => Cardinality(TestingWorkers) = 0
      BY FS_EmptySet
    <2>3. NotifyingProducers = {} => Cardinality(NotifyingProducers) = 0
      BY FS_EmptySet
    <2>4. TestingProducers = {} => Cardinality(TestingProducers) = 0
      BY FS_EmptySet
    <2>5. ASSUME SleepingWorkers # {}, tasks # <<>>
          PROVE  SomebodyIsAwake
      <3>1. TestingWorkers # {} \/ NotifyingProducers # {}
        BY <1>1, <2>1, <2>2, <2>3, <2>5 DEF WorkersAreWoken, TestingWorkers, NotifyingProducers
      <3>2. QED
        BY <3>1 DEF SomebodyIsAwake, TestingWorkers, NotifyingProducers
    <2>6. ASSUME SleepingProducers # {}
          PROVE  SomebodyIsAwake
      <3>1. CASE Len(tasks) < maxQueueSize
        <4>1. TestingProducers # {}
          BY <1>1, <2>1, <2>4, <2>6, <3>1 DEF ProducersAreWoken, TestingProducers
        <4>2. QED
          BY <4>1 DEF SomebodyIsAwake, TestingProducers
      <3>2. CASE Len(tasks) = maxQueueSize
        <4>1. tasks # <<>>
          BY <3>2
        <4>2. \A w \in Workers : wpc[w] # "returned"
          BY <1>1, <4>1 DEF StopInv
        <4>3. PICK w \in Workers : TRUE
          OBVIOUS
        <4>4. wpc[w] \in {"test", "run"} \/ w \in SleepingWorkers
          BY <1>1, <4>2 DEF TypeInv, TypeOK, SleepingWorkers
        <4>5. QED
          BY <2>5, <4>1, <4>4 DEF SomebodyIsAwake
      <3>3. QED
        BY <2>1, <3>1, <3>2
    <2>7. QED
      BY <2>5, <2>6 DEF NoCircularWait
  <1>2. Init => StopInv
    BY DEF Init, StopInv
  <1>3. TypeInv /\ StopInv /\ [Next]_vars => StopInv'
    BY NextStopInv
  <1>4. QED
    BY <1>1, <1>2, <1>3, TypeInvariant, NoLostWakeupOfWorkers, NoLostWakeupOfProducers, PTL
       DEF Spec

-----------------------------------------------------------------------------
(* The pool is a TaskPool, as far as safety goes.                          *)

(* What TaskPool knows of the tasks that were accepted: nobody is about to *)
(* enqueue one of them again.                                              *)
FreshInv ==
  /\ fresh \intersect Pool!Accepted = {}
  /\ \A p \in Producers : arg[p] \in Tasks => arg[p] \notin fresh \union Pool!Accepted
  /\ \A p, q \in Producers : arg[p] \in Tasks /\ arg[p] = arg[q] => p = q

LEMMA InitFreshInv == Init => FreshInv
  BY DEF Init, FreshInv, Pool!Accepted

(* Each step accepts at most the one task that is pushed.                  *)
LEMMA AcceptedByStep ==
  ASSUME TypeInv, [Next]_vars
  PROVE  \/ Pool!Accepted' \subseteq Pool!Accepted \union {NoTask}
         \/ \E p \in Producers :
              Push(p) /\ Pool!Accepted' \subseteq Pool!Accepted \union {arg[p]}
  <1> USE DEF TypeInv, TypeOK, workerVars, producerVars
  <1>1. ASSUME UNCHANGED <<tasks, job, done>>
        PROVE  Pool!Accepted' = Pool!Accepted
    BY <1>1 DEF Pool!Accepted
  <1>2. ASSUME NEW p \in Producers, Push(p)
        PROVE  Pool!Accepted' \subseteq Pool!Accepted \union {arg[p]}
    <2>1. \A i \in DOMAIN tasks' : tasks'[i] = arg[p] \/ \E j \in DOMAIN tasks : tasks'[i] = tasks[j]
      BY <1>2 DEF Push
    <2>2. UNCHANGED <<job, done>>
      BY <1>2 DEF Push
    <2>3. QED
      BY <2>1, <2>2 DEF Pool!Accepted
  <1>3. ASSUME NEW w \in Workers, Take(w)
        PROVE  Pool!Accepted' \subseteq Pool!Accepted
    <2>1. \A i \in DOMAIN tasks' : \E j \in DOMAIN tasks : tasks'[i] = tasks[j]
      BY <1>3 DEF Take
    <2>2. \A v \in Workers : job'[v] = job[v] \/ job'[v] = tasks[1]
      BY <1>3 DEF Take
    <2>3. 1 \in DOMAIN tasks /\ done' = done
      BY <1>3 DEF Take
    <2>4. QED
      BY <2>1, <2>2, <2>3 DEF Pool!Accepted
  <1>4. ASSUME NEW w \in Workers, RunTask(w)
        PROVE  Pool!Accepted' \subseteq Pool!Accepted \union {NoTask}
    BY <1>4 DEF RunTask, Pool!Accepted
  <1>5. CASE UNCHANGED <<tasks, job, done>>
    BY <1>1, <1>5
  <1>6. QED
    BY <1>2, <1>3, <1>4, <1>5 DEF Next, Call, Enqueue, Reject, SleepWhileFull, NotifyWorker,
       Work, SleepWhileEmpty, Return, Stop, Destroy, NotifyAll, Join, SpuriousWakeup, vars

LEMMA NextFreshInv == TypeInv /\ FreshInv /\ [Next]_vars => FreshInv'
  <1> SUFFICES ASSUME TypeInv, FreshInv, [Next]_vars
               PROVE  FreshInv'
    OBVIOUS
  <1> USE DEF TypeInv, TypeOK, FreshInv, workerVars, producerVars
  <1>1. CASE \E p \in Producers : Push(p)
    <2>1. PICK p \in Producers : Push(p)
      BY <1>1
    <2>2. /\ arg[p] \in Tasks
          /\ arg' = [arg EXCEPT ![p] = NoTask] /\ fresh' = fresh
      BY <2>1 DEF Push, Entering, HasTask
    <2>3. Pool!Accepted' \subseteq Pool!Accepted \union {NoTask, arg[p]}
      <3>1. \A q \in Producers : Push(q) => arg[q] = arg[p]
        <4> SUFFICES ASSUME NEW q \in Producers, Push(q), q # p
                     PROVE  FALSE
          OBVIOUS
        <4>1. ppc'[q] = "notify" /\ ppc'[q] = ppc[q] /\ ppc[q] # "notify"
          BY <2>1 DEF Push, Entering
        <4>2. QED
          BY <4>1
      <3>2. QED
        BY <3>1, AcceptedByStep
    <2>4. QED
      BY <2>2, <2>3
  <1>2. CASE ~\E p \in Producers : Push(p)
    <2>1. Pool!Accepted' \subseteq Pool!Accepted \union {NoTask}
      BY <1>2, AcceptedByStep
    <2>2. CASE \E p \in Producers : Call(p)
      <3>1. PICK p \in Producers, t \in fresh :
              arg' = [arg EXCEPT ![p] = t] /\ fresh' = fresh \ {t}
        BY <2>2 DEF Call
      <3>2. t \in Tasks /\ t # NoTask /\ t \notin Pool!Accepted
            /\ \A q \in Producers : arg[q] # t
        BY <3>1
      <3>3. QED
        BY <2>1, <3>1, <3>2
    <2>3. CASE \E p \in Producers : Reject(p)
      BY <2>1, <2>3 DEF Reject
    <2>4. CASE UNCHANGED <<arg, fresh>>
      BY <2>1, <2>4
    <2>5. QED
      BY <1>2, <2>2, <2>3, <2>4 DEF Next, Enqueue, SleepWhileFull, NotifyWorker,
         Work, SleepWhileEmpty, Return, Take, RunTask, Stop, Destroy, NotifyAll, Join,
         SpuriousWakeup, vars
  <1>3. QED
    BY <1>1, <1>2

LEMMA NextRefines ==
  ASSUME TypeInv, StopInv, FreshInv, [Next]_vars, ~CallsOverlap
  PROVE  [Pool!Next]_(Pool!vars)
  <1> USE DEF TypeInv, TypeOK, workerVars, producerVars
  <1>1. ASSUME NEW p \in Producers, Push(p)
        PROVE  Pool!Accept(arg[p]) /\ arg[p] \in Tasks
    <2>1. ~stop /\ arg[p] \in Tasks
      BY <1>1 DEF Push, Entering, StopInv, HasTask
    <2>2. arg[p] \notin Pool!Accepted
      BY <2>1 DEF FreshInv
    <2>3. QED
      BY <1>1, <2>1, <2>2 DEF Push, Pool!Accept
  <1>2. ASSUME NEW w \in Workers, Take(w)
        PROVE  Pool!Start(w)
    BY <1>2 DEF Take, Pool!Start, HasJob
  <1>3. ASSUME NEW w \in Workers, RunTask(w)
        PROVE  Pool!Finish(w)
    BY <1>3 DEF RunTask, Pool!Finish, HasJob
  <1>4. CASE Stop
    BY <1>4 DEF Stop, Pool!Close, Pool!Next
  <1>5. CASE UNCHANGED <<tasks, job, done, stop>>
    BY <1>5 DEF Pool!vars
  <1>6. QED
    BY <1>1, <1>2, <1>3, <1>4, <1>5 DEF Pool!Next, Next, Call, Enqueue, Reject, SleepWhileFull,
       NotifyWorker, Work, SleepWhileEmpty, Return, Destroy, NotifyAll, Join, SpuriousWakeup, vars

(* Tasks are started in the order in which they were accepted, each once,  *)
(* and none is accepted after the destructor has begun: every step of the  *)
(* pool is one of TaskPool or none.  What TaskPool says must happen is     *)
(* left to ImplementsTaskPool.                                             *)
THEOREM StartsInOrder == ~CallsOverlap => (Spec => Pool!Safety)
  <1> SUFFICES ASSUME ~CallsOverlap
               PROVE  Spec => Pool!Safety
    OBVIOUS
  <1>1. Init => Pool!Init
    BY DEF Init, Pool!Init
  <1>2. Init => StopInv
    BY DEF Init, StopInv
  <1>3. TypeInv /\ StopInv /\ [Next]_vars => StopInv'
    BY NextStopInv
  <1>4. TypeInv /\ StopInv /\ FreshInv /\ [Next]_vars => [Pool!Next]_(Pool!vars)
    BY NextRefines
  <1>5. QED
    BY <1>1, <1>2, <1>3, <1>4, TypeInvariant, InitFreshInv, NextFreshInv, PTL
       DEF Spec, Pool!Safety

-----------------------------------------------------------------------------
(* What holds however the destructor and calls of enqueue overlap.         *)

(* A task is in one place only: in the queue, with one worker, or done.    *)
EachTaskOnce ==
  /\ \A k, l \in DOMAIN tasks : tasks[k] = tasks[l] => k = l
  /\ \A v, w \in Workers : job[v] # NoTask /\ job[v] = job[w] => v = w
  /\ \A k \in DOMAIN tasks : tasks[k] \notin done /\ \A w \in Workers : job[w] # tasks[k]
  /\ \A w \in Workers : job[w] \notin done

LEMMA NextEachTaskOnce ==
  TypeInv /\ FreshInv /\ EachTaskOnce /\ [Next]_vars => EachTaskOnce'
  <1> SUFFICES ASSUME TypeInv, FreshInv, EachTaskOnce, [Next]_vars
               PROVE  EachTaskOnce'
    OBVIOUS
  <1> USE DEF TypeInv, TypeOK, workerVars, producerVars
  <1>1. ASSUME NEW p \in Producers, Push(p)
        PROVE  EachTaskOnce'
    <2> DEFINE t == arg[p]
               last == Len(tasks) + 1
    <2>1. t \in Tasks /\ t # NoTask /\ t \notin Pool!Accepted
      BY <1>1 DEF Push, Entering, HasTask, FreshInv
    <2>2. /\ last \notin DOMAIN tasks /\ DOMAIN tasks' = DOMAIN tasks \union {last}
          /\ tasks'[last] = t /\ \A k \in DOMAIN tasks : tasks'[k] = tasks[k]
          /\ UNCHANGED <<job, done>>
      BY <1>1, <2>1 DEF Push
    <2>3. t \notin done /\ (\A k \in DOMAIN tasks : tasks[k] # t) /\ (\A w \in Workers : job[w] # t)
      BY <2>1 DEF Pool!Accepted
    <2> HIDE DEF t, last
    <2>4. QED
      BY <2>2, <2>3 DEF EachTaskOnce
  <1>2. ASSUME NEW w \in Workers, Take(w)
        PROVE  EachTaskOnce'
    <2>1. /\ 1 \in DOMAIN tasks /\ Head(tasks) = tasks[1] /\ tasks[1] \in Tasks
          /\ \A k \in DOMAIN tasks' : k + 1 \in DOMAIN tasks /\ tasks'[k] = tasks[k + 1] /\ k \in Nat \ {0}
      BY <1>2 DEF Take
    <2>2. job' = [v \in Workers |-> IF v = w THEN tasks[1] ELSE job[v]] /\ UNCHANGED done
      BY <1>2, <2>1 DEF Take
    <2>3. \A k, l \in DOMAIN tasks' : tasks'[k] = tasks'[l] => k = l
      <3> SUFFICES ASSUME NEW k \in DOMAIN tasks', NEW l \in DOMAIN tasks', tasks'[k] = tasks'[l]
                   PROVE  k = l
        OBVIOUS
      <3>1. k + 1 = l + 1
        BY <2>1 DEF EachTaskOnce
      <3>2. QED
        BY <2>1, <3>1
    <2>4. \A k \in DOMAIN tasks' : tasks'[k] # tasks[1]
      <3> SUFFICES ASSUME NEW k \in DOMAIN tasks', tasks[k + 1] = tasks[1]
                   PROVE  FALSE
        BY <2>1
      <3>1. k + 1 = 1
        BY <2>1 DEF EachTaskOnce
      <3>2. QED
        BY <2>1, <3>1
    <2>5. QED
      BY <2>1, <2>2, <2>3, <2>4 DEF EachTaskOnce
  <1>3. ASSUME NEW w \in Workers, RunTask(w)
        PROVE  EachTaskOnce'
    <2>1. /\ job' = [v \in Workers |-> IF v = w THEN NoTask ELSE job[v]]
          /\ done' = done \union {job[w]} /\ UNCHANGED tasks
      BY <1>3 DEF RunTask
    <2>2. job[w] \in Tasks
      BY <1>3 DEF RunTask, HasJob
    <2>3. \A k \in DOMAIN tasks : tasks[k] \in Tasks
      OBVIOUS
    <2>4. NoTask \notin done' /\ \A k \in DOMAIN tasks : tasks[k] # NoTask
      BY <2>1, <2>2, <2>3
    <2>5. QED
      BY <2>1, <2>2, <2>4 DEF EachTaskOnce
  <1>4. CASE UNCHANGED <<tasks, job, done>>
    BY <1>4 DEF EachTaskOnce
  <1>5. QED
    BY <1>1, <1>2, <1>3, <1>4 DEF Next, Call, Enqueue, Reject, SleepWhileFull, NotifyWorker,
       Work, SleepWhileEmpty, Return, Stop, Destroy, NotifyAll, Join, SpuriousWakeup, vars

(* No task is run twice, by one worker or by two, even if the destructor   *)
(* starts in the middle of calls of enqueue.                               *)
THEOREM TasksAreRunOnce == Spec => []EachTaskOnce
  <1>1. Init => EachTaskOnce
    BY DEF Init, EachTaskOnce
  <1>2. QED
    BY <1>1, NextEachTaskOnce, TypeInvariant, InitFreshInv, NextFreshInv, PTL DEF Spec

(* A task that was accepted is waiting, running or done after every step.  *)
AcceptedStay == \A t \in Tasks : t \in Pool!Accepted => t \in Pool!Accepted'

(* No step of a worker, a caller or the destructor loses a task.  One that *)
(* is never run is still in the queue when the pool is destroyed, and then *)
(* the destructor has started during a call of enqueue (DestructorRunsAll).*)
THEOREM NoTaskIsLost == Spec => [][AcceptedStay]_vars
  <1>1. ASSUME TypeInv, [Next]_vars
        PROVE  [AcceptedStay]_vars
    <2> SUFFICES ASSUME NEW t \in Tasks, t \in Pool!Accepted
                 PROVE  t \in Pool!Accepted'
      BY DEF AcceptedStay
    <2> USE <1>1 DEF TypeInv, TypeOK, workerVars, producerVars
    <2>1. ASSUME NEW p \in Producers, Push(p)
          PROVE  t \in Pool!Accepted'
      <3>1. arg[p] \in Tasks
        BY <2>1 DEF Push, Entering, HasTask
      <3>2. \A k \in DOMAIN tasks : k \in DOMAIN tasks' /\ tasks'[k] = tasks[k]
        BY <2>1, <3>1 DEF Push
      <3>3. UNCHANGED <<job, done>>
        BY <2>1 DEF Push
      <3>4. QED
        BY <3>2, <3>3 DEF Pool!Accepted
    <2>2. ASSUME NEW w \in Workers, Take(w)
          PROVE  t \in Pool!Accepted'
      <3>1. \A k \in DOMAIN tasks :
              k = 1 \/ \E l \in DOMAIN tasks' : tasks'[l] = tasks[k]
        <4>1. \A k \in DOMAIN tasks : k # 1 => k - 1 \in DOMAIN tasks' /\ tasks'[k - 1] = tasks[k]
          BY <2>2 DEF Take
        <4>2. QED
          BY <4>1
      <3>2. job' = [job EXCEPT ![w] = tasks[1]] /\ job[w] = NoTask /\ UNCHANGED done
        BY <2>2 DEF Take, HasJob
      <3>3. \A v \in Workers : job[v] # NoTask => job'[v] = job[v]
        BY <3>2
      <3>4. job'[w] = tasks[1]
        BY <3>2
      <3>5. QED
        BY <3>1, <3>2, <3>3, <3>4 DEF Pool!Accepted
    <2>3. ASSUME NEW w \in Workers, RunTask(w)
          PROVE  t \in Pool!Accepted'
      BY <2>3 DEF RunTask, Pool!Accepted
    <2>4. CASE UNCHANGED <<tasks, job, done>>
      BY <2>4 DEF Pool!Accepted
    <2>5. QED
      BY <2>1, <2>2, <2>3, <2>4 DEF Next, Call, Enqueue, Reject, SleepWhileFull, NotifyWorker,
         Work, SleepWhileEmpty, Return, Stop, Destroy, NotifyAll, Join, SpuriousWakeup, vars
  <1>2. QED
    BY <1>1, TypeInvariant, PTL DEF Spec

=============================================================================
