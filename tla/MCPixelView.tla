----------------------------- MODULE MCPixelView -----------------------------
(* Instances of PixelView for TLC.                                         *)
EXTENDS PixelView, TLC

TwoLevels == {-1, 2}

(* Below, between, at and above the resolutions of the blocks: 1, 2 and 4. *)
SomeZooms ==
  {[num |-> 1, den |-> 1], [num |-> 2, den |-> 1], [num |-> 3, den |-> 1], [num |-> 5, den |-> 1],
   [num |-> 2, den |-> 3], [num |-> 5, den |-> 2]}

(* With the code's float: 33,554,434 samples per channel at 256 samples    *)
(* per pixel, or 16,796,677 at 1025 samples per pixel (1024 were asked     *)
(* for, at 44.1 kHz), are given less pixels than the loop completes before *)
(* their last sample; 16,796,676 are not.                                  *)
Single == INSTANCE Floats WITH FloatExact <- 16777216

OverrunsAtRealScale(n, samples_per_pixel) ==
  Single!CeilQuotient(Single!ToFloat(n), samples_per_pixel) + 1
    <= (n - 2) \div samples_per_pixel + 1

ASSUME RealScale ==
  /\ Single!ToFloat(33554434) = 33554432
  /\ OverrunsAtRealScale(33554434, 256)
  /\ OverrunsAtRealScale(16796677, 1025)
  /\ ~OverrunsAtRealScale(16796676, 1025)

=============================================================================
