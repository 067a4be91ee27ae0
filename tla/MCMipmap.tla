------------------------------ MODULE MCMipmap ------------------------------
(* Instances of Mipmap for TLC.  Threads are model values; two resolutions *)
(* are the fewest that can disagree, and the zooms lie below, on and above *)
(* them.                                                                   *)
EXTENDS MipmapRaces, TLC

=============================================================================
