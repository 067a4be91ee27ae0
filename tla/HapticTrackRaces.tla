------------------------- MODULE HapticTrackRaces -------------------------
(***************************************************************************)
(* HapticTrack with a history variable for the race of the active block:   *)
(* no lock is held around update_active_block() (haptic_track.h:124) and   *)
(* the use of the reference that get_pixels() hands out                    *)
(* (haptic_track.h:61), neither by the threads that answer requests nor by *)
(* the mipmap's thread, which runs the callback of setup().  The           *)
(* properties here say what the code achieves as long as no thread         *)
(* replaces the block while another one is at work, and again after it.    *)
(***************************************************************************)
EXTENDS HapticTrack

VARIABLE
  overlapped   (* has a thread replaced the active block while another one *)
               (* was at work, and nobody on his own since?                *)

Replacing == {"again", "copy", "assign", "label"}

Overlap ==
  \E t, u \in Threads : t # u /\ pc[t] \in Replacing /\ pc[u] # "idle"

(* A thread begins to replace the block, and nobody else is at work.       *)
ReplacesAlone ==
  \E t \in Threads :
    /\ pc[t] = "compare" /\ pc'[t] = "again"
    /\ \A u \in Threads \ {t} : pc'[u] = "idle"

RacesInit == Init /\ overlapped = FALSE

RacesNext ==
  /\ Next
  /\ IF Overlap' THEN overlapped' = TRUE
     ELSE IF ReplacesAlone THEN overlapped' = FALSE ELSE UNCHANGED overlapped

RacesSpec     == RacesInit /\ [][RacesNext]_<<vars, overlapped>>
RacesFairSpec == RacesSpec /\ Fairness

-----------------------------------------------------------------------------
(* Properties.                                                             *)

(* "returns an audio pixel block at the current resolution"                *)
(* (haptic_track.h:60): the pixels that are sent were computed for a zoom  *)
(* level there was while the request was served, though the zoom level is  *)
(* read once to compare and once more to compute; nor are they read from   *)
(* pixels that were freed.  Unless somebody has replaced the block while   *)
(* another thread was at work.                                             *)
RepliesAreCurrent ==
  [][~overlapped => SendsCurrentZoom]_vars

(* The active block is never replaced by one with older audio, whatever is *)
(* loaded into the mipmap meanwhile, unless somebody has replaced the      *)
(* block while another thread was at work.                                 *)
AudioNeverGoesBack ==
  [][~overlapped => pixels'.audio >= pixels.audio]_vars

(* The device goes on asking, with every thread of the pool.               *)
Asking == \A t \in Readers : []<>(pc[t] # "idle")


(* "updates the active block, if necessary" (haptic_track.h:123): once the *)
(* user stops editing, the device gets the audio as the mipmap has it,     *)
(* even if no two threads ever meet at the active block.                   *)
AudioConverges ==
  Asking /\ []~overlapped =>
    <>[](\A t \in Readers : pc[t] = "idle" => reply[t].audio = store)

=============================================================================
