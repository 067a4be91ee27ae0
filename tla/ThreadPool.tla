----------------------------- MODULE ThreadPool -----------------------------
(***************************************************************************)
(* The pool of worker threads behind every mipmap and behind the           *)
(* controller (src/include/ThreadPool/ThreadPool.h): a bounded queue with  *)
(* a condition variable for each side.                                     *)
(*                                                                         *)
(* Whatever a thread does while it holds queue_mutex is one step.  A       *)
(* thread that waits for a condition variable is asleep until it is        *)
(* notified or wakes up by itself, and then tests its predicate again.     *)
(***************************************************************************)
EXTENDS Integers, Sequences, FiniteSets

CONSTANTS
  Workers,        (* the threads of the pool                               *)
  Producers,      (* the threads that call enqueue                         *)
  Tasks,          (* everything they may enqueue                           *)
  NoTask,         (* the task of a thread that has none                    *)
  maxQueueSize,   (* maxQueueSize: 100                                     *)
  CallsOverlap    (* may the destructor start during a call of enqueue?    *)

ASSUME PoolAssumption ==
  /\ Workers # {} /\ IsFiniteSet(Workers) /\ IsFiniteSet(Producers)
  /\ NoTask \notin Tasks
  /\ maxQueueSize \in Nat \ {0}
  /\ CallsOverlap \in BOOLEAN

VARIABLES
  tasks,    (* tasks                                                       *)
  stop,     (* stop                                                        *)
  wpc,      (* where each worker is in its loop                            *)
  job,      (* the task each worker has taken                              *)
  ppc,      (* where each producer is in enqueue                           *)
  arg,      (* the task each producer enqueues                             *)
  fresh,    (* the tasks nobody has tried to enqueue yet                   *)
  done,     (* the tasks that were run                                     *)
  dpc       (* where the destructor is                                     *)

workerVars   == <<wpc, job, done>>
producerVars == <<ppc, arg, fresh>>
vars == <<tasks, stop, workerVars, producerVars, dpc>>

Init ==
  /\ tasks = <<>>
  /\ stop = FALSE
  /\ wpc = [w \in Workers |-> "test"]
  /\ job = [w \in Workers |-> NoTask]
  /\ ppc = [p \in Producers |-> "idle"]
  /\ arg = [p \in Producers |-> NoTask]
  /\ fresh = Tasks
  /\ done = {}
  /\ dpc = "alive"

SleepingWorkers   == {w \in Workers : wpc[w] = "asleep"}
SleepingProducers == {p \in Producers : ppc[p] = "asleep"}

(* condition.notify_one() and tasks_full_flag.notify_one(): one of the     *)
(* threads asleep, if there is one, goes back to its test.                 *)
WakeOne(pc, sleeping) ==
  IF sleeping = {} THEN {pc} ELSE {[pc EXCEPT ![t] = "test"] : t \in sleeping}

-----------------------------------------------------------------------------
(* enqueue().                                                              *)

Call(p) ==
  /\ ppc[p] = "idle"
  /\ dpc # "destroyed"
  /\ \E t \in fresh : arg' = [arg EXCEPT ![p] = t] /\ fresh' = fresh \ {t}
  /\ ppc' = [ppc EXCEPT ![p] = "enter"]
  /\ UNCHANGED <<tasks, stop, workerVars, dpc>>

(* "don't allow enqueueing after stopping the pool"                        *)
Reject(p) ==
  /\ ppc[p] = "enter" /\ stop
  /\ ppc' = [ppc EXCEPT ![p] = "idle"]
  /\ arg' = [arg EXCEPT ![p] = NoTask]
  /\ UNCHANGED <<tasks, stop, workerVars, fresh, dpc>>

(* A bug for ImplementsTaskPool: nobody tests stop.                        *)
EnteringAfterStop(p) == ppc[p] \in {"enter", "test"}

(* A producer that has slept does not test stop again.                     *)
Entering(p) == (ppc[p] = "enter" /\ ~stop) \/ ppc[p] = "test"

SleepWhileFull(p) ==
  /\ Entering(p)
  /\ Len(tasks) >= maxQueueSize
  /\ ppc' = [ppc EXCEPT ![p] = "asleep"]
  /\ UNCHANGED <<tasks, stop, workerVars, arg, fresh, dpc>>

(* A bug for TypeOK: a producer does not test again when it wakes up.      *)
PushWithoutTest(p) ==
  /\ \/ ppc[p] = "test"
     \/ Entering(p) /\ Len(tasks) < maxQueueSize
  /\ tasks' = Append(tasks, arg[p])
  /\ arg' = [arg EXCEPT ![p] = NoTask]
  /\ ppc' = [ppc EXCEPT ![p] = "notify"]
  /\ UNCHANGED <<stop, workerVars, fresh, dpc>>

Push(p) ==
  /\ Entering(p)
  /\ Len(tasks) < maxQueueSize
  /\ tasks' = Append(tasks, arg[p])
  /\ arg' = [arg EXCEPT ![p] = NoTask]
  /\ ppc' = [ppc EXCEPT ![p] = "notify"]
  /\ UNCHANGED <<stop, workerVars, fresh, dpc>>

(* A bug for WorkersAreWoken: a worker is only told of the first task.     *)
NotifyOfFirstTask(p) ==
  /\ ppc[p] = "notify"
  /\ wpc' \in IF Len(tasks) = 1 THEN WakeOne(wpc, SleepingWorkers) ELSE {wpc}
  /\ ppc' = [ppc EXCEPT ![p] = "idle"]
  /\ UNCHANGED <<tasks, stop, job, done, arg, fresh, dpc>>

(* The mutex has been let go of before a worker is notified.               *)
NotifyWorker(p) ==
  /\ ppc[p] = "notify"
  /\ wpc' \in WakeOne(wpc, SleepingWorkers)
  /\ ppc' = [ppc EXCEPT ![p] = "idle"]
  /\ UNCHANGED <<tasks, stop, job, done, arg, fresh, dpc>>

Enqueue(p) == Reject(p) \/ SleepWhileFull(p) \/ Push(p) \/ NotifyWorker(p)

-----------------------------------------------------------------------------
(* newWorker(): the loop of a worker.                                      *)

SleepWhileEmpty(w) ==
  /\ wpc[w] = "test"
  /\ tasks = <<>> /\ ~stop
  /\ wpc' = [wpc EXCEPT ![w] = "asleep"]
  /\ UNCHANGED <<tasks, stop, job, done, producerVars, dpc>>

(* A bug for NothingLeftBehind: a worker returns as soon as stop is set.   *)
ReturnAtOnce(w) ==
  /\ wpc[w] = "test"
  /\ stop
  /\ wpc' = [wpc EXCEPT ![w] = "returned"]
  /\ UNCHANGED <<tasks, stop, job, done, producerVars, dpc>>

Return(w) ==
  /\ wpc[w] = "test"
  /\ tasks = <<>> /\ stop
  /\ wpc' = [wpc EXCEPT ![w] = "returned"]
  /\ UNCHANGED <<tasks, stop, job, done, producerVars, dpc>>

(* A bug for ProducersAreWoken and EnqueueReturns: no producer is told.    *)
TakeSilently(w) ==
  /\ wpc[w] = "test"
  /\ tasks # <<>>
  /\ job' = [job EXCEPT ![w] = Head(tasks)]
  /\ tasks' = Tail(tasks)
  /\ wpc' = [wpc EXCEPT ![w] = "run"]
  /\ UNCHANGED <<stop, done, producerVars, dpc>>

(* Pop a task and tell a producer that there is room for one more.         *)
Take(w) ==
  /\ wpc[w] = "test"
  /\ tasks # <<>>
  /\ job' = [job EXCEPT ![w] = Head(tasks)]
  /\ tasks' = Tail(tasks)
  /\ wpc' = [wpc EXCEPT ![w] = "run"]
  /\ ppc' \in WakeOne(ppc, SleepingProducers)
  /\ UNCHANGED <<stop, done, arg, fresh, dpc>>

(* The task, which may throw: the packaged_task catches that.              *)
RunTask(w) ==
  /\ wpc[w] = "run"
  /\ done' = done \union {job[w]}
  /\ job' = [job EXCEPT ![w] = NoTask]
  /\ wpc' = [wpc EXCEPT ![w] = "test"]
  /\ UNCHANGED <<tasks, stop, producerVars, dpc>>

Work(w) == SleepWhileEmpty(w) \/ Return(w) \/ Take(w) \/ RunTask(w)

-----------------------------------------------------------------------------
(* ~ThreadPool().                                                          *)

Stop ==
  /\ dpc = "alive"
  /\ CallsOverlap \/ \A p \in Producers : ppc[p] = "idle"
  /\ stop' = TRUE
  /\ dpc' = "notify"
  /\ UNCHANGED <<tasks, workerVars, producerVars>>

(* A bug for DestructorReturns: notify_one() instead of notify_all().      *)
NotifyOne ==
  /\ dpc = "notify"
  /\ wpc' \in WakeOne(wpc, SleepingWorkers)
  /\ dpc' = "join"
  /\ UNCHANGED <<tasks, stop, job, done, producerVars>>

NotifyAll ==
  /\ dpc = "notify"
  /\ wpc' = [w \in Workers |-> IF wpc[w] = "asleep" THEN "test" ELSE wpc[w]]
  /\ dpc' = "join"
  /\ UNCHANGED <<tasks, stop, job, done, producerVars>>

Join ==
  /\ dpc = "join"
  /\ \A w \in Workers : wpc[w] = "returned"
  /\ dpc' = "destroyed"
  /\ UNCHANGED <<tasks, stop, workerVars, producerVars>>

Destroy == NotifyAll \/ Join

(* A thread may wake up without having been notified.                      *)
SpuriousWakeup ==
  \/ \E w \in SleepingWorkers : /\ wpc' = [wpc EXCEPT ![w] = "test"]
                                /\ UNCHANGED ppc
  \/ \E p \in SleepingProducers : /\ ppc' = [ppc EXCEPT ![p] = "test"]
                                  /\ UNCHANGED wpc

Next ==
  \/ \E p \in Producers : Call(p) \/ Enqueue(p)
  \/ \E w \in Workers : Work(w)
  \/ Stop \/ Destroy
  \/ SpuriousWakeup /\ UNCHANGED <<tasks, stop, job, done, arg, fresh, dpc>>

(* The OS schedules every thread, a thread that wants queue_mutex gets it, *)
(* and tasks end.  Nobody has to call enqueue or the destructor, and a     *)
(* thread that sleeps cannot count on waking up by itself.                 *)
Fairness ==
  /\ \A p \in Producers : WF_vars(Enqueue(p))
  /\ \A w \in Workers : WF_vars(Work(w))
  /\ WF_vars(Destroy)

Spec == Init /\ [][Next]_vars /\ Fairness

-----------------------------------------------------------------------------
(* Properties.                                                             *)

TypeOK ==
  /\ tasks \in Seq(Tasks) /\ Len(tasks) <= maxQueueSize
  /\ stop \in BOOLEAN
  /\ wpc \in [Workers -> {"test", "asleep", "run", "returned"}]
  /\ job \in [Workers -> Tasks \union {NoTask}]
  /\ ppc \in [Producers -> {"idle", "enter", "test", "asleep", "notify"}]
  /\ arg \in [Producers -> Tasks \union {NoTask}]
  /\ fresh \subseteq Tasks /\ done \subseteq Tasks
  /\ dpc \in {"alive", "notify", "join", "destroyed"}

(* No lost wakeup of a worker: while one is asleep, every waiting task has *)
(* a worker that is about to look for it or a producer that is about to    *)
(* wake one.                                                               *)
WorkersAreWoken ==
  SleepingWorkers # {} =>
    Len(tasks) <= Cardinality({w \in Workers : wpc[w] = "test"})
                    + Cardinality({p \in Producers : ppc[p] = "notify"})

(* No lost wakeup of a producer: while one is asleep, every free place in  *)
(* the queue has a producer that is about to look for it.                  *)
ProducersAreWoken ==
  SleepingProducers # {} =>
    maxQueueSize - Len(tasks) <= Cardinality({p \in Producers : ppc[p] = "test"})

(* The destructor joins only workers that have left nothing behind.        *)
NothingLeftBehind ==
  dpc = "destroyed" => tasks = <<>> /\ \A w \in Workers : job[w] = NoTask

(* Tasks are started in the order of the queue, each once, and none waits  *)
(* for good; after the destructor has set stop, none is accepted.          *)
Pool == INSTANCE TaskPool WITH
  Limit <- maxQueueSize, waiting <- tasks, running <- job, open <- ~stop
ImplementsTaskPool == Pool!Spec

(* A call of enqueue returns, however full the queue is.                   *)
EnqueueReturns == \A p \in Producers : ppc[p] = "enter" ~> ppc[p] = "idle"

(* The destructor returns.                                                 *)
DestructorReturns == stop ~> dpc = "destroyed"

=============================================================================
