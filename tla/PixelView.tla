------------------------------ MODULE PixelView ------------------------------
(***************************************************************************)
(* From the pixels of a block to those the device gets: the view of a      *)
(* block, its interpolation to the zoom level, and the chunks of a reply   *)
(* (src/pixel_block.h:37-124, pixel.h:59-67, controller.h:81-110).  The    *)
(* mipmap's mutex is held meanwhile, so the block is not updated.          *)
(*                                                                         *)
(* The positions that the code computes as doubles, a number of pixels     *)
(* between 0 and 2^31, are known up to 1/Precision of a pixel; what is     *)
(* done with the values of pixels is exact.                                *)
(***************************************************************************)
EXTENDS PixelBlock, SequencesExt

CONSTANTS
  Zooms,         (* GetHZoomLevel(), pixels per second: num / den          *)
  Precision,     (* 2^20: no position is off by more than three roundings  *)
  ChunkSize,     (* chunk_size, 128                                        *)
  Undefined      (* what is read at index -1                               *)

ASSUME ViewAssumption ==
  /\ Zooms \subseteq [num : Nat \ {0}, den : Nat \ {0}]
  /\ Precision \in Nat /\ Precision > 1
  /\ ChunkSize \in Nat \ {0} /\ Undefined \notin [max : Int, min : Int]

VARIABLES
  reading,       (* is get_pixels() in interpolate() or clone()?           *)
  new_pps,       (* the zoom level asked for                               *)
  new_num_pix,   (* the number of new pixels                               *)
  j,             (* the loop's i, counting new pixels                      *)
  shown          (* the last new pixel, multiplied by new_pps.num          *)

viewVars == <<reading, new_pps, new_num_pix, j, shown>>
vars == <<blockVars, viewVars>>

NoPixel == [max |-> 0, min |-> 0]

Init ==
  /\ BlockInit
  /\ reading = FALSE /\ new_pps \in Zooms /\ new_num_pix = 0 /\ j = 0 /\ shown = NoPixel

(* get_nearest_pps() of the mipmap.                                        *)
NearestPps(z) ==
  LET above == {p \in BlockPps : p * z.den >= z.num}
  IN  IF above # {} THEN Min(above) ELSE Max(BlockPps)

(* "bail early if we already have the given pps"                           *)
HasPps(z) == pps * z.den = z.num

(* A bug for ViewFitsTrack: the view has all pixels of the block.          *)
WholeView == Len(channel)

(* get_pixels(nullopt, nullopt): from 0 to the last pixel, which is left   *)
(* out: the end of a view is exclusive.                                    *)
ViewSize == Len(channel) - 1

(* What floor() and ceil() make of a / b when it is computed up to         *)
(* b / Precision, or e / Precision: 0 is exact, and nothing else is 0.     *)
Floors(a, b) ==
  {f \in (a \div b) - 1 .. (a \div b) + 1 :
     f >= 0 /\ Precision * (f * b - a) <= b /\ Precision * (a - (f + 1) * b) < b}
Ceils(a, b, e) ==
  {c \in a \div b .. (a \div b) + 2 :
     (c = 0 <=> a = 0) /\ Precision * (a - c * b) <= e /\ Precision * ((c - 1) * b - a) < e}

(* The copy, or interpolate(): the number of its pixels is known up to     *)
(* 1/Precision of a new pixel and of an old one.                           *)
GetPixels(z) ==
  /\ pc = "ready" /\ ~reading /\ pps = NearestPps(z)
  /\ reading' = TRUE /\ new_pps' = z /\ j' = 0 /\ shown' = NoPixel
  /\ \/ HasPps(z) /\ new_num_pix' = ViewSize
     \/ /\ ~HasPps(z)
        /\ new_num_pix' \in
             Ceils(ViewSize * z.num, pps * z.den, Min({z.num, pps * z.den}))
  /\ UNCHANGED blockVars

(* The time of new pixel n, multiplied by new_pps.num / pps.               *)
Time(n) == pps * new_pps.den * n

(* A pixel of the copy.                                                    *)
ClonePixel ==
  /\ reading /\ j < new_num_pix /\ HasPps(new_pps)
  /\ shown' = [max |-> new_pps.num * channel[j + 1].max,
               min |-> new_pps.num * channel[j + 1].min]
  /\ j' = j + 1
  /\ UNCHANGED <<blockVars, reading, new_pps, new_num_pix>>

(* A bug for ShownNearItsTime: the resolutions are taken to be equal.      *)
Idx0Unscaled == {Min({j, ViewSize - 1})}

(* The pixel before the new one, and the first one at least a pixel later, *)
(* as far as there is one.                                                 *)
Idx0 == {Min({f, ViewSize - 1}) : f \in Floors(Time(j), new_pps.num)}

(* A bug for UndefinedForOnePixel: the limit is one too low.               *)
Idx1TooLow ==
  {Min({c, ViewSize - 3}) :
     c \in Ceils(Time(j) + new_pps.num, new_pps.num, new_pps.num)}

Idx1 ==
  {Min({c, ViewSize - 2}) :
     c \in Ceils(Time(j) + new_pps.num, new_pps.num, new_pps.num)}

(* linear_interp(), for two pixels that are taken to be neighbours.        *)
Interpolated(idx0, idx1) ==
  LET k == Time(j) - idx0 * new_pps.num
      Between(y0, y1) == (new_pps.num - k) * y0 + k * y1
  IN  [max |-> Between(channel[idx0 + 1].max, channel[idx1 + 1].max),
       min |-> Between(channel[idx0 + 1].min, channel[idx1 + 1].min)]

InterpolatePixel ==
  /\ reading /\ j < new_num_pix /\ ~HasPps(new_pps)
  /\ \E idx0 \in Idx0, idx1 \in Idx1 :
       shown' = IF idx1 < 0 THEN Undefined ELSE Interpolated(idx0, idx1)
  /\ j' = j + 1
  /\ UNCHANGED <<blockVars, reading, new_pps, new_num_pix>>

Return ==
  /\ reading /\ j = new_num_pix
  /\ reading' = FALSE /\ new_num_pix' = 0 /\ j' = 0 /\ shown' = NoPixel
  /\ UNCHANGED <<blockVars, new_pps>>

Update ==
  /\ ~reading
  /\ \/ \E n \in Lengths : BeginUpdate(n)
     \/ \E s \in Levels : AddSample(s)
     \/ Overrun
     \/ Transform
  /\ UNCHANGED viewVars

Next ==
  Update \/ (\E z \in Zooms : GetPixels(z)) \/ ClonePixel \/ InterpolatePixel \/ Return

Spec == Init /\ [][Next]_vars

-----------------------------------------------------------------------------
(* The reply to a request for the pixels from start to end.                *)

Clamp(x, lo, hi) == Max({lo, Min({x, hi})})

(* from(): the ids of the pixels that are asked for and exist.  Its        *)
(* conversion of their values to haptic_pixel_t (pixel.h:46-50), one       *)
(* number made of max and min, is left out.                                *)
From(start, end) ==
  LET first == Clamp(start, 0, new_num_pix)
      last  == Clamp(end, first, new_num_pix)
  IN  [k \in 1 .. last - first |-> first + k - 1]

(* A bug for EveryPixelIsSentOnce: the end of a chunk is included.         *)
OverlappingChunks(block) ==
  [c \in 1 .. (Len(block) + ChunkSize - 1) \div ChunkSize |->
     SubSeq(block, (c - 1) * ChunkSize + 1, Min({c * ChunkSize + 1, Len(block)}))]

(* The messages of one reply.                                              *)
Chunks(block) ==
  [c \in 1 .. (Len(block) + ChunkSize - 1) \div ChunkSize |->
     SubSeq(block, (c - 1) * ChunkSize + 1, Min({c * ChunkSize, Len(block)}))]

SendPixels(start, end) == IF end - start < 1 THEN <<>> ELSE Chunks(From(start, end))

-----------------------------------------------------------------------------
(* Properties.                                                             *)

TypeOK ==
  /\ pps \in BlockPps /\ num_channels \in 1 .. MaxChannels
  /\ length \in Lengths \union {0} /\ samples \in Seq(Levels) /\ Len(samples) <= length
  /\ channel \in Seq(Pixel) /\ pixel_idx \in 0 .. Len(channel)
  /\ peak \in [max : Int, min : Int] /\ pc \in {"empty", "update", "overrun", "ready"}
  /\ reading \in BOOLEAN /\ new_pps \in Zooms
  /\ new_num_pix \in Nat /\ j \in 0 .. new_num_pix
  /\ shown \in [max : Int, min : Int] \union {Undefined}

(* The number of pixels, their distribution and the exclusive end of a     *)
(* view fit together (pixel_block.h:51, 153, 184): no pixel of the view    *)
(* has been left without a sample, and less than a pixel's worth of the    *)
(* track is missing at its end.                                            *)
ViewFitsTrack ==
  pc = "ready" /\ length <= FloatExact =>
    /\ \A p \in 0 .. ViewSize - 1 : Window(p) # {}
    /\ length - 1 - (ViewSize - 1) * SamplesPerPixel < SamplesPerPixel

(* The extremes that are computed for a time, before they are normalized   *)
(* and made into one number, are those of the track near it: of pixels     *)
(* that start at most two pixels (and a rounding) before or after it.      *)
(* They lie beyond its samples there by a rounding of the time at most     *)
(* (pixel_block.h:97-119).                                                 *)
ShownNearItsTime ==
  reading /\ j > 0 /\ shown # Undefined /\ length <= FloatExact =>
    LET z         == new_pps.num
        Off(p)    == Precision * (Time(j - 1) - p * z)
        IsNear(p) == Off(p) <= (2 * Precision + 1) * z /\ -Off(p) <= (2 * Precision + 1) * z
        near      == UNION {Values(p) : p \in {q \in 0 .. ViewSize - 1 : IsNear(q)}}
        lo        == Min(near)
        hi        == Max(near)
    IN  \A v \in {shown.min, shown.max} :
          /\ Precision * z * lo - z * (hi - lo) <= Precision * v
          /\ Precision * v <= Precision * z * hi + z * (hi - lo)

(* idx1 is -1 (pixel_block.h:106) for tracks of one pixel, whenever they   *)
(* are interpolated, and for no others.                                    *)
UndefinedForOnePixel ==
  reading /\ j > 0 /\ length <= FloatExact =>
    (shown = Undefined <=> length \in 1 .. SamplesPerPixel /\ ~HasPps(new_pps))

(* Whatever range is asked for, its pixels are sent in order, each of them *)
(* once, in messages of at most ChunkSize pixels (controller.h:98-110).    *)
EveryPixelIsSentOnce ==
  reading =>
    \A start \in -1 .. new_num_pix, end \in 0 .. new_num_pix + 1 :
      LET messages == SendPixels(start, end)
          ids      == FlattenSeq(messages)
      IN  /\ \A c \in DOMAIN messages : Len(messages[c]) \in 1 .. ChunkSize
          /\ \A a, b \in DOMAIN ids : a < b => ids[a] < ids[b]
          /\ Range(ids) = (start .. end - 1) \intersect (0 .. new_num_pix - 1)

=============================================================================
