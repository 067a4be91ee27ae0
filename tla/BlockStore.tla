----------------------------- MODULE BlockStore -----------------------------
(***************************************************************************)
(* What audio_pixel_mipmap_t promises the threads that read it: "thread    *)
(* safe (will block if another thread is updating)" (mipmap.h:16).     *)
(* The mipmap is one cell.  An update replaces all of it in one step and a *)
(* read copies from it in one step, so that nobody sees blocks of two      *)
(* versions of the audio, or a block that is only half processed.          *)
(***************************************************************************)

CONSTANTS
  Clients,    (* the threads that read the mipmap                          *)
  Values,     (* what a finished block can be                              *)
  Initial     (* the blocks before the first update                        *)

VARIABLES
  store,      (* the value of every block of the mipmap                    *)
  view        (* view[c]: the values among the blocks c last copied        *)

vars == <<store, view>>

Init ==
  /\ store = Initial
  /\ view = [c \in Clients |-> {}]

(* An update makes a value visible at all resolutions at once.             *)
Publish(v) ==
  /\ store' = v
  /\ UNCHANGED view

(* However many blocks a client copies, they all have the current value.   *)
Read(c) ==
  /\ view' = [view EXCEPT ![c] = {store}]
  /\ UNCHANGED store

Next ==
  \/ \E v \in Values : Publish(v)
  \/ \E c \in Clients : Read(c)

Spec == Init /\ [][Next]_vars

=============================================================================
