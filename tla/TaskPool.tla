------------------------------ MODULE TaskPool ------------------------------
(***************************************************************************)
(* What a ThreadPool promises its users: tasks are started in the order in *)
(* which they were accepted, each of them once, and none of them waits     *)
(* while a worker has nothing to do.  Closing the pool keeps new tasks out *)
(* and runs the ones that were accepted.                                   *)
(***************************************************************************)
EXTENDS Naturals, Sequences

CONSTANTS
  Workers,    (* the threads that run tasks                                *)
  Tasks,      (* everything anybody may want to run                        *)
  NoTask,     (* what a worker runs that runs nothing                      *)
  Limit       (* how many tasks may wait                                   *)

VARIABLES
  waiting,    (* the tasks that were accepted and not yet started          *)
  running,    (* running[w]: the task w runs                               *)
  done,       (* the tasks that were run                                   *)
  open        (* does the pool accept tasks?                               *)

vars == <<waiting, running, done, open>>

Init ==
  /\ waiting = <<>>
  /\ running = [w \in Workers |-> NoTask]
  /\ done = {}
  /\ open = TRUE

Accepted == {waiting[i] : i \in DOMAIN waiting} \union {running[w] : w \in Workers} \union done

Accept(t) ==
  /\ open
  /\ t \notin Accepted
  /\ Len(waiting) < Limit
  /\ waiting' = Append(waiting, t)
  /\ UNCHANGED <<running, done, open>>

Start(w) ==
  /\ running[w] = NoTask
  /\ waiting # <<>>
  /\ running' = [running EXCEPT ![w] = Head(waiting)]
  /\ waiting' = Tail(waiting)
  /\ UNCHANGED <<done, open>>

Finish(w) ==
  /\ running[w] # NoTask
  /\ done' = done \union {running[w]}
  /\ running' = [running EXCEPT ![w] = NoTask]
  /\ UNCHANGED <<waiting, open>>

Close ==
  /\ open' = FALSE
  /\ UNCHANGED <<waiting, running, done>>

Next ==
  \/ \E t \in Tasks : Accept(t)
  \/ \E w \in Workers : Start(w) \/ Finish(w)
  \/ Close

(* What may happen, and what must.                                         *)
Safety == Init /\ [][Next]_vars

Spec ==
  /\ Safety
  /\ WF_vars(\E w \in Workers : Start(w))
  /\ \A w \in Workers : WF_vars(Finish(w))

=============================================================================
