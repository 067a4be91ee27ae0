--------------------------- MODULE MCHapticTrack ---------------------------
(* Instances of HapticTrackRaces for TLC.  Two zoom levels are enough for  *)
(* a block to have the wrong one, and neither is that of an empty block.   *)
EXTENDS HapticTrackRaces

=============================================================================
