------------------------------ MODULE PixelBlock ------------------------------
(***************************************************************************)
(* How a block of audio pixels is computed: audio_pixel_block_t::update()  *)
(* and transform() (src/pixel_block.h, pixel.h), for the resolutions that  *)
(* haptic_track_t::setup() asks for.  The channels of a block are computed *)
(* one after the other in the same way; this is one of them.  It is a loop *)
(* with one step per sample, and a sample is chosen when the loop gets to  *)
(* it: the loop's i is Len(samples).                                       *)
(***************************************************************************)
EXTENDS Floats, Sequences, FiniteSetsExt

CONSTANTS
  SampleRate,    (* PROJECT_SRATE, samples per second                      *)
  Resolutions,   (* samples per pixel asked for: 256, 1024, ... 262144     *)
  MaxChannels,   (* bound on I_NCHAN                                       *)
  Levels,        (* the values a sample may have                           *)
  Huge,          (* numeric_limits<double>::max(), beyond all samples      *)
  Lengths        (* the lengths a track may have, in samples per channel   *)

ASSUME AudioAssumption ==
  /\ SampleRate \in Nat \ {0} /\ SampleRate <= FloatExact
  /\ Resolutions \subseteq Nat \ {0}
  /\ MaxChannels \in Nat
  /\ Huge \in Nat /\ Levels \subseteq -Huge .. Huge
  /\ Lengths \subseteq Nat /\ \A n \in Lengths : n < 16777216 * FloatExact

(* samples_per_pix_to_pps() divides two ints.  setup() leaves out the      *)
(* resolutions of less than a pixel per second.                            *)
SamplesPerPixToPps(res) == SampleRate \div res
BlockPps == {SamplesPerPixToPps(res) : res \in Resolutions} \ {0}

(* m_rms is the root of sum / over, or the bare sum while over = 0.        *)
Pixel == [max : -Huge .. Huge, min : -Huge .. Huge, sum : Nat, over : Nat]

(* A bug for PeaksAreOfTheTrack: extremes that start from zero.            *)
FreshZero == [max |-> 0, min |-> 0, sum |-> 0, over |-> 0]

Fresh == [max |-> -Huge, min |-> Huge, sum |-> 0, over |-> 0]

VARIABLES
  pps,           (* m_pix_per_s                                            *)
  num_channels,  (* of the track                                           *)
  length,        (* num_samples_per_channel                                *)
  samples,       (* the samples the loop has read                          *)
  channel,       (* m_channel_pixels[channel]; empty before any update     *)
  pixel_idx,     (* the loop's pixel_idx                                   *)
  peak,          (* what normalize() has divided the pixels by             *)
  pc             (* where the block's update is                            *)

blockVars == <<pps, num_channels, length, samples, channel, pixel_idx, peak, pc>>

Unscaled == [max |-> 1, min |-> 1]

BlockInit ==
  /\ pps \in BlockPps /\ num_channels \in 1 .. MaxChannels
  /\ length = 0 /\ samples = <<>> /\ channel = <<>> /\ pixel_idx = 0
  /\ peak = Unscaled /\ pc = "empty"

-----------------------------------------------------------------------------
SamplesPerPixel == SampleRate \div pps

(* A bug for OverrunNeedsRounding: just as many pixels as samples need.    *)
PixelsWithoutSpare(n) == CeilQuotient(ToFloat(n), SamplesPerPixel)

PixelsPerChannel(n) == CeilQuotient(ToFloat(n), SamplesPerPixel) + 1

(* A bug for SamplesInTheirPixels: pixels are resized, but not filled.     *)
ResizeOnly(n) ==
  /\ pc \in {"empty", "ready"}
  /\ length' = n /\ samples' = <<>>
  /\ channel' = [p \in 1 .. PixelsPerChannel(n) |->
                   IF p \in DOMAIN channel THEN channel[p] ELSE Fresh]
  /\ pixel_idx' = 0 /\ peak' = Unscaled /\ pc' = "update"
  /\ UNCHANGED <<pps, num_channels>>

(* update() is called with the n samples that the accessor has.            *)
BeginUpdate(n) ==
  /\ pc \in {"empty", "ready"}
  /\ length' = n /\ samples' = <<>>
  /\ channel' = [p \in 1 .. PixelsPerChannel(n) |-> Fresh]
  /\ pixel_idx' = 0 /\ peak' = Unscaled /\ pc' = "update"
  /\ UNCHANGED <<pps, num_channels>>

i == Len(samples)
Collected == i % SamplesPerPixel

(* A bug for WholePixelsHaveTheirMean: the samples are counted from 1.     *)
CompleteOneEarly == (i + 1) % SamplesPerPixel = 0

(* The buffer is interleaved: the index of its last sample is one that the *)
(* loop reaches only if there is one channel.                              *)
PixelIsComplete == Collected = 0 \/ i = length * num_channels - 1

With(pixel, s) ==
  [max |-> Max({pixel.max, s}), min |-> Min({pixel.min, s}), sum |-> pixel.sum + s * s,
   over |-> IF PixelIsComplete THEN SamplesPerPixel - Collected ELSE 0]

(* A bug for TypeOK: the end of the channel is not tested.                 *)
AddSampleUnchecked(s) ==
  /\ pc = "update" /\ i < length
  /\ samples' = Append(samples, s)
  /\ channel' = [channel EXCEPT ![pixel_idx + 1] = With(@, s)]
  /\ pixel_idx' = IF PixelIsComplete THEN pixel_idx + 1 ELSE pixel_idx
  /\ UNCHANGED <<pps, num_channels, length, peak, pc>>

AddSample(s) ==
  /\ pc = "update" /\ i < length /\ pixel_idx < Len(channel)
  /\ samples' = Append(samples, s)
  /\ channel' = [channel EXCEPT ![pixel_idx + 1] = With(@, s)]
  /\ pixel_idx' = IF PixelIsComplete THEN pixel_idx + 1 ELSE pixel_idx
  /\ UNCHANGED <<pps, num_channels, length, peak, pc>>

(* "a fatal error occurred. pixel_idx {} is out of bounds": assert(false). *)
Overrun ==
  /\ pc = "update" /\ i < length /\ pixel_idx >= Len(channel)
  /\ pc' = "overrun"
  /\ UNCHANGED <<pps, num_channels, length, samples, channel, pixel_idx, peak>>

(* transform(): normalize() divides the pixels of a channel by its largest *)
(* maximum and its smallest minimum; `peak` keeps the divisors.  The one   *)
(* of m_rms, which is not sent to the device, is left out.                 *)
Transform ==
  /\ pc = "update" /\ i = length
  /\ peak' = [max |-> Max({channel[p].max : p \in DOMAIN channel} \union {-Huge}),
              min |-> Min({channel[p].min : p \in DOMAIN channel} \union {Huge})]
  /\ pc' = "ready"
  /\ UNCHANGED <<pps, num_channels, length, samples, channel, pixel_idx>>

-----------------------------------------------------------------------------
(* Properties.                                                             *)

(* The samples that pixel p stands for, counted from 0: none but the first *)
(* before pixel 0, and SamplesPerPixel of them up to each later pixel.     *)
Window(p) == {k \in 0 .. length - 1 : (p - 1) * SamplesPerPixel < k /\ k <= p * SamplesPerPixel}

Values(p) == {samples[k + 1] : k \in Window(p)}

(* Every sample is counted, in one pixel only, at most one pixel after its *)
(* own, and nothing of an earlier update is left: a pixel's maximum and    *)
(* minimum are those of its window (pixel_block.h:168-192).                *)
SamplesInTheirPixels ==
  pc = "ready" =>
    \A p \in 0 .. Len(channel) - 1 :
      /\ channel[p + 1].max = Max(Values(p) \union {-Huge})
      /\ channel[p + 1].min = Min(Values(p) \union {Huge})

(* A pixel whose window lies inside of the track has the mean square of    *)
(* just its samples (pixel_block.h:185-189).  Not so the first, which      *)
(* divides one sample by SamplesPerPixel, and the last, which divides by   *)
(* a wrong number or, with two channels, never does.                       *)
WholePixelsHaveTheirMean ==
  pc = "ready" =>
    \A p \in 1 .. Len(channel) - 1 :
      p * SamplesPerPixel < length =>
        /\ channel[p + 1].over = Cardinality(Window(p))
        /\ channel[p + 1].sum = MapThenSumSet(LAMBDA k : samples[k + 1] * samples[k + 1], Window(p))

(* "a fatal error occurred. pixel_idx {} is out of bounds"                 *)
(* (pixel_block.h:173) needs a track whose length a float cannot hold.     *)
OverrunNeedsRounding == pc = "overrun" => length > FloatExact

(* "a fatal error occurred" never occurs: what the assertion of            *)
(* pixel_block.h:174 says.                                                 *)
NeverOverruns == pc # "overrun"

(* However many pixels were allocated, normalize() divides by the highest  *)
(* and the lowest sample of the track (pixel.h:80-102), be they zero or    *)
(* not.                                                                    *)
PeaksAreOfTheTrack ==
  pc = "ready" /\ length > 0 =>
    LET all == {samples[k] : k \in DOMAIN samples}
    IN  peak = [max |-> Max(all), min |-> Min(all)]

=============================================================================
