---------------------------- MODULE MCThreadPool ----------------------------
(* Instances of ThreadPool for TLC: more producers than places in the      *)
(* queue, and enough tasks for the queue to fill up again.                 *)
EXTENDS ThreadPool, TLC

=============================================================================
