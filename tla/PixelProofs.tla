----------------------------- MODULE PixelProofs -----------------------------
(***************************************************************************)
(* Proofs about PixelBlock and PixelView, for any float, sample rate,      *)
(* resolutions, zoom levels and samples, and tracks of any length.         *)
(***************************************************************************)
EXTENDS PixelView, WellFoundedInduction, TLAPS

-----------------------------------------------------------------------------
(* Products and quotients.                                                 *)

LEMMA ProductOrder ==
  ASSUME NEW a \in Int, NEW c \in Int, NEW b \in Nat \ {0}, a < c
  PROVE  a * b + b <= c * b
  <1>1. PICK d \in Nat : c = a + 1 + d
    <2>1. c - a - 1 \in Nat /\ c = a + 1 + (c - a - 1)
      OBVIOUS
    <2>2. QED
      BY <2>1
  <1>2. c * b = a * b + b + d * b
    BY <1>1
  <1>3. d * b >= 0
    BY <1>1
  <1>4. a * b \in Int /\ d * b \in Int
    BY <1>1
  <1>5. QED
    BY <1>2, <1>3, <1>4

LEMMA ScaledOrder ==
  ASSUME NEW k \in Nat, NEW a \in Int, NEW b \in Int, a <= b
  PROVE  k * a <= k * b /\ a * k <= b * k /\ k * a \in Int /\ k * b \in Int
  <1>1. PICK d \in Nat : b = a + d
    <2>1. b - a \in Nat /\ b = a + (b - a)
      OBVIOUS
    <2>2. QED
      BY <2>1
  <1>2. k * d \in Nat /\ k * a \in Int /\ k * b = k * a + k * d
    BY <1>1
  <1>3. k * a <= k * b /\ k * b \in Int
    BY <1>2
  <1>4. a * k = k * a /\ b * k = k * b
    OBVIOUS
  <1>5. QED
    BY <1>2, <1>3, <1>4

LEMMA ProductCancels ==
  ASSUME NEW a \in Int, NEW c \in Int, NEW b \in Nat \ {0}, a * b < c * b
  PROVE  a < c
  <1>1. SUFFICES ASSUME ~(a < c)
                 PROVE  FALSE
    OBVIOUS
  <1>2. CASE a = c
    BY <1>2
  <1>3. CASE c < a
    <2>1. c * b + b <= a * b
      BY <1>3, ProductOrder
    <2>2. a * b \in Int /\ c * b \in Int
      OBVIOUS
    <2>3. QED
      BY <2>1, <2>2
  <1>4. QED
    BY <1>1, <1>2, <1>3

LEMMA Division ==
  ASSUME NEW a \in Nat, NEW b \in Nat \ {0}
  PROVE  /\ a \div b \in Nat /\ a % b \in 0 .. b - 1
         /\ a = (a \div b) * b + (a % b)
  OBVIOUS

(* A sum of whole and broken steps has one number of whole ones.           *)
LEMMA DivisionIsUnique ==
  ASSUME NEW a \in Nat, NEW b \in Nat \ {0}, NEW q \in Int, q * b <= a, a < q * b + b
  PROVE  a \div b = q
  <1> DEFINE d == a \div b
  <1>1. d \in Nat /\ d * b <= a /\ a < d * b + b
    BY Division
  <1>2. d * b \in Int /\ q * b \in Int
    BY <1>1
  <1>3. ~(d < q)
    BY <1>1, <1>2, ProductOrder
  <1>4. ~(q < d)
    BY <1>1, <1>2, ProductOrder
  <1>5. QED
    BY <1>1, <1>3, <1>4

(* The rounded quotient of two floats that hold integers up to FloatExact  *)
(* is never rounded to an integer, so its ceiling is exact.                *)
LEMMA ExactCeiling ==
  ASSUME NEW n \in Nat, NEW b \in Nat \ {0}, n <= FloatExact, FloatExact \in Nat
  PROVE  LET c == CeilQuotient(ToFloat(n), b)
         IN  c \in Nat /\ n <= c * b /\ (n > 0 => (c - 1) * b < n) /\ (n = 0 => c = 0)
  <1> DEFINE q == n \div b
             r == n % b
  <1>1. q \in Nat /\ r \in 0 .. b - 1 /\ n = q * b + r
    BY Division
  <1>2. r # 0 => ~FractionIsLost(q, r, b)
    <2> SUFFICES ASSUME r # 0, NEW v \in PowersOfTwo, q > 0, FloatExact <= 2 * q * v,
                        RoundsDown(r * v, b, (q * v) % 2 = 0), v \in Nat
                 PROVE  FALSE
      <3>1. \A v \in PowersOfTwo : v \in Nat
        BY DEF PowersOfTwo
      <3>2. QED
        BY <3>1 DEF FractionIsLost
    <2>1. 2 * (r * v) <= b
      BY <1>1 DEF RoundsDown
    <2>2. b * q < (2 * v) * q
      <3>1. b * q < n
        BY <1>1
      <3>2. (2 * v) * q = 2 * q * v
        BY <1>1
      <3>3. b * q \in Int /\ (2 * v) * q \in Int
        BY <1>1
      <3>4. QED
        BY <3>1, <3>2, <3>3
    <2>3. b < 2 * v
      <3>1. q \in Nat \ {0} /\ b \in Int /\ 2 * v \in Int
        BY <1>1
      <3>2. QED
        BY <2>2, <3>1, ProductCancels
    <2>4. 2 * v <= 2 * (r * v)
      <3>1. r \in Nat \ {0}
        BY <1>1
      <3>2. r * v >= v
        BY <3>1
      <3>3. r * v \in Int
        BY <3>1
      <3>4. QED
        BY <3>2, <3>3
    <2>5. QED
      <3>1. r * v \in Int
        BY <1>1
      <3>2. QED
        BY <2>1, <2>3, <2>4, <3>1
  <1>3. ToFloat(n) = n
    BY DEF ToFloat
  <1>4. CeilQuotient(ToFloat(n), b) = IF r = 0 THEN q ELSE q + 1
    BY <1>2, <1>3 DEF CeilQuotient
  <1>5. q * b \in Int /\ (q + 1) * b = q * b + b /\ (q - 1) * b = q * b - b
    BY <1>1
  <1>6. CASE r = 0
    <2>1. n = q * b
      BY <1>1, <1>5, <1>6
    <2>2. n = 0 => q = 0
      BY <1>1, <2>1
    <2>3. QED
      BY <1>1, <1>4, <1>5, <1>6, <2>1, <2>2
  <1>7. CASE r # 0
    <2>1. q + 1 - 1 = q /\ n > 0
      BY <1>1, <1>5, <1>7
    <2>2. QED
      BY <1>1, <1>4, <1>5, <1>7, <2>1
  <1>8. QED
    BY <1>6, <1>7

-----------------------------------------------------------------------------
(* Largest and smallest elements.                                          *)

LEMMA LeastNatural ==
  ASSUME NEW T, T \subseteq Nat, T # {}
  PROVE  \E x \in T : \A y \in T : x <= y
  <1>1. PICK x \in T : \A y \in T : ~(<<y, x>> \in OpToRel(<, Nat))
    BY NatLessThanWellFounded, WFMin, Zenon
  <1>2. \A y \in T : ~(y < x)
    BY <1>1 DEF OpToRel
  <1>3. QED
    BY <1>2

IsMax(m, S) == m \in S /\ \A x \in S : x <= m
IsMin(m, S) == m \in S /\ \A x \in S : m <= x

LEMMA TheMax == ASSUME NEW S, S \subseteq Int, NEW m, IsMax(m, S) PROVE Max(S) = m
  <1>1. m \in S /\ \A y \in S : m >= y
    BY DEF IsMax
  <1>2. Max(S) \in S /\ \A y \in S : Max(S) >= y
    BY <1>1, Zenon DEF Max
  <1>3. m \in Int /\ Max(S) \in Int
    BY <1>1, <1>2, Zenon
  <1>4. m >= Max(S) /\ Max(S) >= m
    BY <1>1, <1>2
  <1>5. QED
    BY <1>3, <1>4

LEMMA TheMin == ASSUME NEW S, S \subseteq Int, NEW m, IsMin(m, S) PROVE Min(S) = m
  <1>1. m \in S /\ \A y \in S : m <= y
    BY DEF IsMin
  <1>2. Min(S) \in S /\ \A y \in S : Min(S) <= y
    BY <1>1, Zenon DEF Min
  <1>3. m \in Int /\ Min(S) \in Int
    BY <1>1, <1>2, Zenon
  <1>4. m >= Min(S) /\ Min(S) >= m
    BY <1>1, <1>2
  <1>5. QED
    BY <1>3, <1>4

LEMMA MinExists ==
  ASSUME NEW h \in Nat, NEW S, S \subseteq -h .. h, S # {}
  PROVE  IsMin(Min(S), S)
  <1> DEFINE T == {x + h : x \in S}
  <1>1. \A x \in S : x \in Int /\ x + h \in Nat
    OBVIOUS
  <1>2. T \subseteq Nat /\ T # {} /\ S \subseteq Int
    BY <1>1, Zenon
  <1>3. PICK t \in T : \A y \in T : t <= y
    BY <1>2, LeastNatural
  <1>4. PICK m \in S : t = m + h
    BY <1>3
  <1>5. \A x \in S : m + h <= x + h
    BY <1>3, <1>4, Zenon
  <1>6. IsMin(m, S)
    BY <1>1, <1>5 DEF IsMin
  <1>7. QED
    BY <1>2, <1>6, TheMin

LEMMA MaxExists ==
  ASSUME NEW h \in Nat, NEW S, S \subseteq -h .. h, S # {}
  PROVE  IsMax(Max(S), S)
  <1> DEFINE T == {h - x : x \in S}
  <1>1. \A x \in S : x \in Int /\ h - x \in Nat
    OBVIOUS
  <1>2. T \subseteq Nat /\ T # {} /\ S \subseteq Int
    BY <1>1, Zenon
  <1>3. PICK t \in T : \A y \in T : t <= y
    BY <1>2, LeastNatural
  <1>4. PICK m \in S : t = h - m
    BY <1>3
  <1>5. \A x \in S : h - m <= h - x
    BY <1>3, <1>4, Zenon
  <1>6. IsMax(m, S)
    BY <1>1, <1>5 DEF IsMax
  <1>7. QED
    BY <1>2, <1>6, TheMax

LEMMA MaxOfTwo == ASSUME NEW a \in Int, NEW b \in Int PROVE IsMax(Max({a, b}), {a, b})
  <1>1. IsMax(IF a >= b THEN a ELSE b, {a, b})
    BY DEF IsMax
  <1>2. QED
    BY <1>1, TheMax

LEMMA MinOfTwo == ASSUME NEW a \in Int, NEW b \in Int PROVE IsMin(Min({a, b}), {a, b})
  <1>1. IsMin(IF a <= b THEN a ELSE b, {a, b})
    BY DEF IsMin
  <1>2. QED
    BY <1>1, TheMin

(* What a value adds to the largest one so far.                            *)
LEMMA MaxGrows ==
  ASSUME NEW S, S \subseteq Int, NEW m, IsMax(m, S), NEW s \in Int
  PROVE  IsMax(Max({m, s}), S \union {s})
  <1> DEFINE n == Max({m, s})
  <1>1. m \in S /\ m \in Int /\ \A x \in S : x \in Int /\ x <= m
    BY Zenon DEF IsMax
  <1>2. n \in {m, s} /\ m <= n /\ s <= n
    BY <1>1, MaxOfTwo, Zenon DEF IsMax
  <1> HIDE DEF n
  <1>3. n \in S \union {s} /\ \A x \in S \union {s} : x <= n
    BY <1>1, <1>2
  <1>4. QED
    BY <1>3 DEF IsMax, n

LEMMA MinGrows ==
  ASSUME NEW S, S \subseteq Int, NEW m, IsMin(m, S), NEW s \in Int
  PROVE  IsMin(Min({m, s}), S \union {s})
  <1> DEFINE n == Min({m, s})
  <1>1. m \in S /\ m \in Int /\ \A x \in S : x \in Int /\ m <= x
    BY Zenon DEF IsMin
  <1>2. n \in {m, s} /\ n <= m /\ n <= s
    BY <1>1, MinOfTwo, Zenon DEF IsMin
  <1> HIDE DEF n
  <1>3. n \in S \union {s} /\ \A x \in S \union {s} : n <= x
    BY <1>1, <1>2
  <1>4. QED
    BY <1>3 DEF IsMin, n

-----------------------------------------------------------------------------
(* Types.                                                                  *)

LEMMA Constants ==
  /\ FloatExact \in Nat /\ SampleRate \in Nat \ {0}
  /\ Huge \in Nat /\ Levels \subseteq -Huge .. Huge /\ Levels \subseteq Int
  /\ Lengths \subseteq Nat /\ MaxChannels \in Nat
  /\ ChunkSize \in Nat \ {0}
  /\ Undefined \notin [max : Int, min : Int]
  <1>1. FloatExact \in Nat
    BY FloatAssumption DEF PowersOfTwo
  <1>2. QED
    BY <1>1, AudioAssumption, ViewAssumption

LEMMA BlockPpsArePositive ==
  ASSUME NEW p \in BlockPps
  PROVE  p \in Nat \ {0} /\ SampleRate \div p \in Nat \ {0}
  <1>1. PICK res \in Nat \ {0} : p = SampleRate \div res /\ p # 0
    BY AudioAssumption DEF BlockPps, SamplesPerPixToPps
  <1>2. p \in Nat \ {0} /\ p * res <= SampleRate
    BY <1>1, Constants, Division
  <1>3. p <= SampleRate
    <2>1. p * 1 <= p * res
      BY <1>1, <1>2
    <2>2. QED
      BY <1>1, <1>2, <2>1, Constants
  <1>4. SampleRate \div p # 0
    <2>1. SUFFICES ASSUME SampleRate \div p = 0
                   PROVE  FALSE
      OBVIOUS
    <2>2. SampleRate = SampleRate % p /\ SampleRate % p < p
      BY <1>2, <2>1, Constants, Division
    <2>3. QED
      BY <1>2, <1>3, <2>2, Constants
  <1>5. QED
    BY <1>2, <1>4, Constants, Division

LEMMA FreshIsPixel == Fresh \in Pixel
  BY Constants DEF Fresh, Pixel

LEMMA HalfOfPower ==
  ASSUME NEW p \in PowersOfTwo, p # 1
  PROVE  \E q \in PowersOfTwo : p = 2 * q
  <1>1. p \div 2 \in PowersOfTwo /\ p = 2 * (p \div 2)
    BY SMT DEF PowersOfTwo
  <1>2. QED
    BY <1>1

LEMMA FloatsAreNaturals ==
  ASSUME NEW n \in Lengths
  PROVE  ToFloat(n) \in Nat
  <1> DEFINE T == {p \in PowersOfTwo : n < p * FloatExact}
  <1>1. n \in Nat
    BY Constants
  <1>2. PowersOfTwo \subseteq Nat \ {0}
    BY SMT DEF PowersOfTwo
  <1>3. T # {}
    <2>1. 16777216 \in T
      BY AudioAssumption, SMT DEF PowersOfTwo
    <2>2. QED
      BY <2>1, SMT
  <1> HIDE DEF T
  <1>4. T \subseteq Nat
    BY <1>2, Zenon DEF T
  <1>5. PICK u \in T : \A p \in T : u <= p
    BY <1>3, <1>4, LeastNatural, Zenon
  <1> USE DEF T
  <1>6. SUFFICES ASSUME ~(n <= FloatExact)
                 PROVE  ToFloat(n) \in Nat
    BY <1>1 DEF ToFloat
  <1>7. u # 1
    <2>1. n \in Nat
      BY <1>1
    <2>2. QED
      BY <2>1, <1>6, Constants
  <1>8. PICK q \in PowersOfTwo : u = 2 * q
    BY <1>7, HalfOfPower
  <1>9. q * FloatExact <= n
    <2>1. q < u /\ q \in Nat
      BY <1>2, <1>8
    <2>2. q \notin T
      BY <1>2, <1>5, <2>1
    <2>3. QED
      BY <1>1, <2>1, <2>2, Constants
  <1>10. n < u * FloatExact /\ u * FloatExact <= 2 * n
    <2>1. u * FloatExact = 2 * (q * FloatExact) /\ q * FloatExact \in Nat
      BY <1>2, <1>8, Constants
    <2>2. QED
      BY <1>1, <1>9, <2>1
  <1> DEFINE w == CHOOSE p \in PowersOfTwo : n < p * FloatExact /\ p * FloatExact <= 2 * n
  <1>11. w \in PowersOfTwo
    BY <1>10, Zenon
  <1>12. n \div w \in Nat /\ w \in Nat
    BY <1>1, <1>2, <1>11, Division
  <1>13. ToFloat(n) = (n \div w) * w \/ ToFloat(n) = (n \div w + 1) * w
    BY <1>6 DEF ToFloat
  <1> HIDE DEF w
  <1>14. QED
    BY <1>12, <1>13

LEMMA PixelNumber ==
  ASSUME NEW n \in Lengths, pps \in BlockPps
  PROVE  PixelsPerChannel(n) \in Nat \ {0}
  <1> DEFINE q == ToFloat(n) \div SamplesPerPixel
  <1>1. q \in Nat
    BY FloatsAreNaturals, BlockPpsArePositive, Division DEF SamplesPerPixel
  <1>2. PixelsPerChannel(n) = q + 1 \/ PixelsPerChannel(n) = q + 2
    BY <1>1 DEF PixelsPerChannel, CeilQuotient
  <1>3. QED
    BY <1>1, <1>2

(* TypeOK, in two parts.                                                   *)
BlockType ==
  /\ pps \in BlockPps /\ num_channels \in 1 .. MaxChannels
  /\ length \in Lengths \union {0} /\ samples \in Seq(Levels) /\ Len(samples) <= length
  /\ channel \in Seq(Pixel) /\ pixel_idx \in 0 .. Len(channel)
  /\ peak \in [max : Int, min : Int] /\ pc \in {"empty", "update", "overrun", "ready"}

ViewType ==
  /\ reading \in BOOLEAN /\ new_pps \in Zooms
  /\ new_num_pix \in Nat /\ j \in 0 .. new_num_pix
  /\ shown \in [max : Int, min : Int] \union {Undefined}

LEMMA TypeParts == TypeOK <=> BlockType /\ ViewType
  BY DEF TypeOK, BlockType, ViewType

LEMMA SamplesPerPixelIsPositive == BlockType => SamplesPerPixel \in Nat \ {0} /\ pps \in Nat \ {0}
  BY BlockPpsArePositive DEF BlockType, SamplesPerPixel

LEMMA BlockInitType == BlockInit => BlockType
  BY Constants DEF BlockInit, BlockType, Unscaled

LEMMA BeginUpdateType ==
  ASSUME BlockType, NEW n \in Lengths, BeginUpdate(n)
  PROVE  BlockType'
  <1>1. PixelsPerChannel(n) \in Nat
    BY PixelNumber DEF BlockType
  <1>2. channel' \in Seq(Pixel)
    BY <1>1, FreshIsPixel DEF BeginUpdate
  <1>3. samples' \in Seq(Levels) /\ Len(samples') = 0 /\ n \in Nat
    BY Constants DEF BeginUpdate
  <1>4. Len(channel') \in Nat
    BY <1>2
  <1>5. peak' \in [max : Int, min : Int]
    BY DEF BeginUpdate, Unscaled
  <1>6. /\ pps' = pps /\ num_channels' = num_channels
        /\ length' = n /\ pixel_idx' = 0 /\ pc' = "update"
    BY DEF BeginUpdate
  <1>7. pixel_idx' \in 0 .. Len(channel') /\ Len(samples') <= length'
    BY <1>3, <1>4, <1>6
  <1>8. pps' \in BlockPps /\ num_channels' \in 1 .. MaxChannels
    BY <1>6 DEF BlockType
  <1>9. QED
    BY <1>2, <1>3, <1>5, <1>6, <1>7, <1>8 DEF BlockType

LEMMA WithIsPixel ==
  ASSUME BlockType, NEW pixel \in Pixel, NEW s \in Levels
  PROVE  With(pixel, s) \in Pixel
  <1>1. s \in -Huge .. Huge /\ s \in Int /\ s * s \in Nat /\ Huge \in Nat
    BY Constants
  <1>2. pixel.max \in -Huge .. Huge /\ pixel.min \in -Huge .. Huge /\ pixel.sum \in Nat
    BY DEF Pixel
  <1>3. Max({pixel.max, s}) \in -Huge .. Huge
    <2>1. pixel.max \in Int
      BY <1>1, <1>2
    <2>2. Max({pixel.max, s}) \in {pixel.max, s}
      BY <1>1, <2>1, MaxOfTwo, Zenon DEF IsMax
    <2>3. QED
      BY <1>1, <1>2, <2>2
  <1>4. Min({pixel.min, s}) \in -Huge .. Huge
    <2>1. pixel.min \in Int
      BY <1>1, <1>2
    <2>2. Min({pixel.min, s}) \in {pixel.min, s}
      BY <1>1, <2>1, MinOfTwo, Zenon DEF IsMin
    <2>3. QED
      BY <1>1, <1>2, <2>2
  <1>5. SamplesPerPixel - Collected \in Nat
    <2>1. Len(samples) \in Nat
      BY DEF BlockType
    <2>2. SamplesPerPixel \in Nat \ {0}
      BY SamplesPerPixelIsPositive
    <2>3. Len(samples) % SamplesPerPixel \in 0 .. SamplesPerPixel - 1
      BY <2>1, <2>2, Division, Zenon
    <2>4. QED
      BY <2>2, <2>3 DEF Collected, i
  <1>6. QED
    BY <1>1, <1>2, <1>3, <1>4, <1>5 DEF With, Pixel

LEMMA WithExtremes ==
  ASSUME NEW pixel, NEW s
  PROVE  With(pixel, s).max = Max({pixel.max, s}) /\ With(pixel, s).min = Min({pixel.min, s})
  <1> DEFINE hi == Max({pixel.max, s})
             lo == Min({pixel.min, s})
             sum == pixel.sum + s * s
             over == IF PixelIsComplete THEN SamplesPerPixel - Collected ELSE 0
  <1>1. With(pixel, s) = [max |-> hi, min |-> lo, sum |-> sum, over |-> over]
    BY DEF With
  <1> HIDE DEF hi, lo, sum, over
  <1>2. With(pixel, s).max = hi /\ With(pixel, s).min = lo
    BY <1>1
  <1>3. QED
    BY <1>2 DEF hi, lo

LEMMA AddSampleType ==
  ASSUME BlockType, NEW s \in Levels, AddSample(s)
  PROVE  BlockType'
  <1>1. samples \in Seq(Levels) /\ channel \in Seq(Pixel) /\ length \in Nat /\ pixel_idx \in Nat
    BY Constants DEF BlockType
  <1>2. samples' \in Seq(Levels) /\ Len(samples') = Len(samples) + 1
    BY <1>1 DEF AddSample
  <1>3. Len(samples') <= length'
    BY <1>1, <1>2 DEF AddSample, i
  <1>4. channel[pixel_idx + 1] \in Pixel /\ pixel_idx + 1 \in 1 .. Len(channel)
    BY <1>1 DEF AddSample
  <1>5. With(channel[pixel_idx + 1], s) \in Pixel
    BY <1>4, WithIsPixel
  <1>6. channel' \in Seq(Pixel) /\ Len(channel') = Len(channel)
    BY <1>1, <1>4, <1>5 DEF AddSample
  <1>7. pixel_idx' \in 0 .. Len(channel')
    BY <1>1, <1>4, <1>6 DEF AddSample
  <1>8. QED
    BY <1>2, <1>3, <1>6, <1>7 DEF AddSample, BlockType

LEMMA TransformType ==
  ASSUME BlockType, Transform
  PROVE  BlockType'
  <1> DEFINE maxima == {channel[p].max : p \in DOMAIN channel} \union {-Huge}
             minima == {channel[p].min : p \in DOMAIN channel} \union {Huge}
  <1>1. \A p \in DOMAIN channel : channel[p].max \in -Huge .. Huge /\ channel[p].min \in -Huge .. Huge
    <2>1. \A p \in DOMAIN channel : channel[p] \in Pixel
      BY DEF BlockType
    <2>2. QED
      BY <2>1 DEF Pixel
  <1>2. maxima \subseteq -Huge .. Huge /\ minima \subseteq -Huge .. Huge
    BY <1>1, Constants
  <1>3. Max(maxima) \in Int /\ Min(minima) \in Int
    <2>1. IsMax(Max(maxima), maxima) /\ IsMin(Min(minima), minima)
      BY <1>2, Constants, MaxExists, MinExists, Zenon
    <2>2. QED
      BY <1>2, <2>1 DEF IsMax, IsMin
  <1>4. peak' = [max |-> Max(maxima), min |-> Min(minima)]
    BY DEF Transform
  <1> HIDE DEF maxima, minima
  <1>5. peak' \in [max : Int, min : Int]
    BY <1>3, <1>4
  <1>6. QED
    BY <1>5 DEF Transform, BlockType

-----------------------------------------------------------------------------
(* The loop over the samples.                                              *)

(* What pixel p stands for, as far as the loop has got.                    *)
Seen(p) == {samples[k + 1] : k \in {k \in Window(p) : k < i}}

(* Before sample i, pixel_idx is the pixel whose window i is in.           *)
IndexInv ==
  pc \in {"update", "overrun"} /\ i < length =>
    (pixel_idx - 1) * SamplesPerPixel < i /\ i <= pixel_idx * SamplesPerPixel

SizeInv ==
  pc # "empty" => length \in Lengths /\ Len(channel) = PixelsPerChannel(length)

OverrunInv == pc = "overrun" => i < length /\ pixel_idx >= Len(channel)

(* All samples so far are in windows of the channel's pixels.              *)
PlacedInv ==
  pc # "empty" => \A k \in 0 .. i - 1 : k <= (Len(channel) - 1) * SamplesPerPixel

ContentInv ==
  pc # "empty" =>
    \A p \in 0 .. Len(channel) - 1 :
      /\ IsMax(channel[p + 1].max, Seen(p) \union {-Huge})
      /\ IsMin(channel[p + 1].min, Seen(p) \union {Huge})

PeakInv ==
  pc = "ready" =>
    /\ i = length
    /\ peak = [max |-> Max({channel[p].max : p \in DOMAIN channel} \union {-Huge}),
               min |-> Min({channel[p].min : p \in DOMAIN channel} \union {Huge})]

BlockInv ==
  /\ BlockType /\ IndexInv /\ SizeInv /\ OverrunInv
  /\ PlacedInv /\ ContentInv /\ PeakInv

(* A window ends with the multiple of SamplesPerPixel that completes it.   *)
LEMMA WindowEnd ==
  ASSUME NEW k \in Nat, NEW c \in Int, NEW b \in Nat \ {0}, (c - 1) * b < k, k <= c * b
  PROVE  k % b = 0 <=> k = c * b
  <1> DEFINE q == k \div b
             r == k % b
  <1>1. q \in Nat /\ r \in 0 .. b - 1 /\ k = q * b + r
    BY Division, Zenon
  <1>2. q * b \in Int /\ c * b \in Int /\ (c - 1) * b \in Int
    BY <1>1
  <1>3. r = 0 => q = c
    <2>1. SUFFICES ASSUME r = 0
                   PROVE  q = c
      OBVIOUS
    <2>2. (c - 1) * b < q * b /\ ~(c * b < q * b)
      BY <1>1, <1>2, <2>1
    <2>3. c - 1 < q
      BY <1>1, <2>2, ProductCancels
    <2>4. ~(c < q)
      <3>1. SUFFICES ASSUME c < q
                     PROVE  FALSE
        OBVIOUS
      <3>2. c * b + b <= q * b
        BY <1>1, <3>1, ProductOrder
      <3>3. QED
        BY <1>2, <2>2, <3>2
    <2>5. QED
      BY <1>1, <2>3, <2>4
  <1>4. k = c * b => r = 0
    <2>1. SUFFICES ASSUME k = c * b
                   PROVE  r = 0
      OBVIOUS
    <2>2. q = c
      BY <1>2, <2>1, DivisionIsUnique
    <2>3. QED
      BY <1>1, <1>2, <2>1, <2>2
  <1>5. QED
    BY <1>1, <1>2, <1>3, <1>4

(* A number is in one window only.                                         *)
LEMMA OneWindow ==
  ASSUME NEW k \in Int, NEW c \in Int, NEW p \in Int, NEW b \in Nat \ {0},
         (c - 1) * b < k, k <= c * b, (p - 1) * b < k, k <= p * b
  PROVE  p = c
  <1>1. c * b \in Int /\ p * b \in Int /\ (c - 1) * b = c * b - b /\ (p - 1) * b = p * b - b
    OBVIOUS
  <1>2. ~(p < c)
    <2>1. SUFFICES ASSUME p < c
                   PROVE  FALSE
      OBVIOUS
    <2>2. p * b + b <= c * b
      BY <2>1, ProductOrder
    <2>3. QED
      BY <1>1, <2>2
  <1>3. ~(c < p)
    <2>1. SUFFICES ASSUME c < p
                   PROVE  FALSE
      OBVIOUS
    <2>2. c * b + b <= p * b
      BY <2>1, ProductOrder
    <2>3. QED
      BY <1>1, <2>2
  <1>4. QED
    BY <1>2, <1>3

LEMMA InitBlockInv == BlockInit => BlockInv
  BY BlockInitType DEF BlockInit, BlockInv, IndexInv, SizeInv, OverrunInv, PlacedInv, ContentInv, PeakInv

LEMMA BeginUpdateInv ==
  ASSUME BlockInv, NEW n \in Lengths, BeginUpdate(n)
  PROVE  BlockInv'
  <1>1. BlockType'
    BY BeginUpdateType DEF BlockInv
  <1>2. /\ pps' = pps /\ length' = n /\ samples' = <<>> /\ pixel_idx' = 0 /\ pc' = "update"
        /\ channel' = [p \in 1 .. PixelsPerChannel(n) |-> Fresh]
    BY DEF BeginUpdate
  <1>3. SamplesPerPixel' = SamplesPerPixel /\ SamplesPerPixel \in Nat \ {0} /\ i' = 0
    BY <1>2, SamplesPerPixelIsPositive DEF SamplesPerPixel, i, BlockInv
  <1>4. PixelsPerChannel(n) \in Nat /\ PixelsPerChannel(n)' = PixelsPerChannel(n)
    BY <1>3, PixelNumber DEF BlockInv, BlockType, PixelsPerChannel
  <1>5. IndexInv'
    BY <1>2, <1>3 DEF IndexInv
  <1>6. SizeInv'
    <2>1. Len(channel') = PixelsPerChannel(n)
      BY <1>2, <1>4
    <2>2. PixelsPerChannel(length') = PixelsPerChannel(n)
      BY <1>2
    <2>3. PixelsPerChannel(length)' = PixelsPerChannel(length')
      BY <1>3 DEF PixelsPerChannel
    <2>4. QED
      BY <1>2, <2>1, <2>2, <2>3 DEF SizeInv
  <1>7. PlacedInv'
    BY <1>3 DEF PlacedInv
  <1>8. ContentInv'
    <2>1. SUFFICES ASSUME NEW p \in 0 .. Len(channel') - 1
                   PROVE  /\ IsMax(channel'[p + 1].max, Seen(p)' \union {-Huge})
                          /\ IsMin(channel'[p + 1].min, Seen(p)' \union {Huge})
      BY DEF ContentInv
    <2>2. Seen(p)' = {}
      BY <1>3 DEF Seen, Window
    <2>3. channel'[p + 1] = Fresh
      BY <1>2, <1>4, <2>1
    <2>4. QED
      BY <2>2, <2>3, Constants DEF Fresh, IsMax, IsMin
  <1>9. QED
    BY <1>1, <1>2, <1>5, <1>6, <1>7, <1>8 DEF BlockInv, OverrunInv, PeakInv

(* pixel_idx moves on exactly where a window ends, or at the very last     *)
(* sample.                                                                 *)
LEMMA NextIndex ==
  ASSUME BlockInv, NEW s \in Levels, AddSample(s)
  PROVE  /\ (pixel_idx - 1) * SamplesPerPixel < i /\ i <= pixel_idx * SamplesPerPixel
         /\ i' < length => /\ (pixel_idx' - 1) * SamplesPerPixel < i'
                           /\ i' <= pixel_idx' * SamplesPerPixel
  <1> DEFINE b == SamplesPerPixel
             c == pixel_idx
  <1>1. b \in Nat \ {0} /\ i \in Nat /\ c \in Nat /\ length \in Nat /\ num_channels \in Nat \ {0}
    BY SamplesPerPixelIsPositive, Constants DEF BlockInv, BlockType, i
  <1>2. (c - 1) * b < i /\ i <= c * b
    BY DEF BlockInv, IndexInv, AddSample
  <1>3. i' = i + 1
    BY DEF AddSample, i, BlockInv, BlockType
  <1>4. SUFFICES ASSUME i + 1 < length
                 PROVE  (pixel_idx' - 1) * b < i + 1 /\ i + 1 <= pixel_idx' * b
    BY <1>2, <1>3
  <1>5. i # length * num_channels - 1
    <2>1. length * 1 <= length * num_channels
      BY <1>1
    <2>2. length * num_channels \in Nat
      BY <1>1
    <2>3. QED
      BY <1>1, <1>4, <2>1, <2>2
  <1>6. PixelIsComplete <=> i % b = 0
    BY <1>5 DEF PixelIsComplete, Collected
  <1>7. i % b = 0 <=> i = c * b
    <2>1. c \in Int
      BY <1>1
    <2>2. QED
      BY <1>1, <1>2, <2>1, WindowEnd, Zenon
  <1>8. c * b \in Int /\ (c - 1) * b \in Int /\ (c + 1) * b = c * b + b
    BY <1>1
  <1>9. CASE i = c * b
    <2>1. pixel_idx' = c + 1
      BY <1>6, <1>7, <1>9 DEF AddSample
    <2>2. (c + 1 - 1) * b = c * b
      BY <1>1
    <2>3. QED
      BY <1>1, <1>8, <1>9, <2>1, <2>2
  <1>10. CASE i # c * b
    <2>1. pixel_idx' = c
      BY <1>6, <1>7, <1>10 DEF AddSample
    <2>2. QED
      BY <1>1, <1>2, <1>8, <1>10, <2>1
  <1>11. QED
    BY <1>9, <1>10

(* The new sample belongs to the pixel it is added to.                     *)
LEMMA SeenGrows ==
  ASSUME BlockInv, NEW s \in Levels, AddSample(s), NEW p \in Nat
  PROVE  Seen(p)' = IF p = pixel_idx THEN Seen(p) \union {s} ELSE Seen(p)
  <1> DEFINE b == SamplesPerPixel
  <1>1. b \in Nat \ {0} /\ i \in Nat /\ pixel_idx \in Nat /\ samples \in Seq(Levels) /\ length \in Nat
    BY SamplesPerPixelIsPositive, Constants DEF BlockInv, BlockType, i
  <1>2. samples' = Append(samples, s) /\ i' = i + 1 /\ i = Len(samples) /\ i < length
    BY <1>1 DEF AddSample, i
  <1>3. samples'[i + 1] = s /\ \A k \in Nat : k < i => samples'[k + 1] = samples[k + 1]
    BY <1>1, <1>2
  <1>4. Window(p)' = Window(p)
    BY DEF AddSample, Window, SamplesPerPixel
  <1>5. i \in Window(p) <=> p = pixel_idx
    <2>1. (pixel_idx - 1) * b < i /\ i <= pixel_idx * b
      BY NextIndex
    <2>2. i \in Window(p) <=> (p - 1) * b < i /\ i <= p * b
      BY <1>1, <1>2 DEF Window
    <2>3. (p - 1) * b < i /\ i <= p * b => p = pixel_idx
      BY <1>1, <2>1, OneWindow
    <2>4. QED
      BY <2>1, <2>2, <2>3
  <1>6. Window(p) \subseteq Nat
    BY <1>1 DEF Window
  <1> DEFINE old == {k \in Window(p) : k < i}
             new == {k \in Window(p) : k < i + 1}
  <1>7. new = IF i \in Window(p) THEN old \union {i} ELSE old
    BY <1>1, <1>6
  <1>8. Seen(p)' = {samples'[k + 1] : k \in new}
    BY <1>2, <1>4 DEF Seen
  <1>9. \A k \in old : samples'[k + 1] = samples[k + 1]
    BY <1>3, <1>6
  <1>10. Seen(p) = {samples'[k + 1] : k \in old}
    BY <1>9 DEF Seen
  <1> HIDE DEF old, new
  <1>11. CASE p = pixel_idx
    BY <1>3, <1>5, <1>7, <1>8, <1>10, <1>11
  <1>12. CASE p # pixel_idx
    BY <1>5, <1>7, <1>8, <1>10, <1>12
  <1>13. QED
    BY <1>11, <1>12

LEMMA AddSampleInv ==
  ASSUME BlockInv, NEW s \in Levels, AddSample(s)
  PROVE  BlockInv'
  <1> DEFINE b == SamplesPerPixel
  <1>1. BlockType'
    BY AddSampleType DEF BlockInv
  <1>2. b \in Nat \ {0} /\ i \in Nat /\ pixel_idx \in Nat /\ length \in Nat /\ channel \in Seq(Pixel)
    BY SamplesPerPixelIsPositive, Constants DEF BlockInv, BlockType, i
  <1>3. /\ pps' = pps /\ length' = length /\ pc' = pc /\ pc = "update"
        /\ pixel_idx < Len(channel) /\ b' = b
    BY DEF AddSample, SamplesPerPixel
  <1>4. i' = i + 1
    BY DEF AddSample, i, BlockInv, BlockType
  <1>5. /\ Len(channel') = Len(channel) /\ Len(channel) \in Nat
        /\ \A p \in 0 .. Len(channel) - 1 :
              channel'[p + 1] = IF p = pixel_idx THEN With(channel[p + 1], s) ELSE channel[p + 1]
    BY <1>2 DEF AddSample
  <1>6. IndexInv'
    BY <1>3, NextIndex DEF IndexInv
  <1>7. SizeInv'
    <2>1. PixelsPerChannel(length)' = PixelsPerChannel(length)
      BY <1>3 DEF PixelsPerChannel
    <2>2. QED
      BY <1>3, <1>5, <2>1 DEF SizeInv, BlockInv
  <1>8. PlacedInv'
    <2>1. \A k \in 0 .. i - 1 : k <= (Len(channel) - 1) * b
      BY <1>3 DEF BlockInv, PlacedInv
    <2>2. i <= (Len(channel) - 1) * b
      <3>1. i <= pixel_idx * b
        BY NextIndex
      <3>2. pixel_idx * b <= (Len(channel) - 1) * b
        <4>1. CASE pixel_idx = Len(channel) - 1
          BY <1>2, <1>5, <4>1
        <4>2. CASE pixel_idx < Len(channel) - 1
          <5>1. pixel_idx * b + b <= (Len(channel) - 1) * b
            BY <1>2, <1>5, <4>2, ProductOrder
          <5>2. pixel_idx * b \in Int /\ (Len(channel) - 1) * b \in Int
            BY <1>2, <1>5
          <5>3. QED
            BY <1>2, <5>1, <5>2
        <4>3. QED
          BY <1>2, <1>3, <1>5, <4>1, <4>2
      <3>3. pixel_idx * b \in Int /\ (Len(channel) - 1) * b \in Int
        BY <1>2, <1>5
      <3>4. QED
        BY <1>2, <3>1, <3>2, <3>3
    <2>3. \A k \in 0 .. i' - 1 : k \in 0 .. i - 1 \/ k = i
      BY <1>2, <1>4
    <2>4. QED
      BY <1>3, <1>5, <2>1, <2>2, <2>3 DEF PlacedInv
  <1>9. ContentInv'
    <2>1. SUFFICES ASSUME NEW p \in 0 .. Len(channel) - 1
                   PROVE  /\ IsMax(channel'[p + 1].max, Seen(p)' \union {-Huge})
                          /\ IsMin(channel'[p + 1].min, Seen(p)' \union {Huge})
      BY <1>5 DEF ContentInv
    <2>2. /\ IsMax(channel[p + 1].max, Seen(p) \union {-Huge})
          /\ IsMin(channel[p + 1].min, Seen(p) \union {Huge})
      BY <1>3 DEF BlockInv, ContentInv
    <2>3. Seen(p)' = IF p = pixel_idx THEN Seen(p) \union {s} ELSE Seen(p)
      BY <1>5, SeenGrows
    <2>4. CASE p # pixel_idx
      BY <1>5, <2>2, <2>3, <2>4
    <2>5. CASE p = pixel_idx
      <3>1. Seen(p) \subseteq Int
        <4>1. \A k \in Window(p) : k < i => k + 1 \in 1 .. Len(samples)
          BY <1>2 DEF Window, i
        <4>2. \A k \in Window(p) : k < i => samples[k + 1] \in Levels
          BY <4>1 DEF BlockInv, BlockType
        <4>3. QED
          BY <4>2, Constants DEF Seen
      <3>2. s \in Int /\ Huge \in Int /\ -Huge \in Int
        BY Constants
      <3>3. /\ IsMax(Max({channel[p + 1].max, s}), (Seen(p) \union {-Huge}) \union {s})
            /\ IsMin(Min({channel[p + 1].min, s}), (Seen(p) \union {Huge}) \union {s})
        <4>1. Seen(p) \union {-Huge} \subseteq Int /\ Seen(p) \union {Huge} \subseteq Int
          BY <3>1, <3>2
        <4>2. QED
          BY <2>2, <3>2, <4>1, MaxGrows, MinGrows, Zenon
      <3>4. /\ (Seen(p) \union {-Huge}) \union {s} = Seen(p)' \union {-Huge}
            /\ (Seen(p) \union {Huge}) \union {s} = Seen(p)' \union {Huge}
        BY <2>3, <2>5
      <3>5. /\ channel'[p + 1].max = Max({channel[p + 1].max, s})
            /\ channel'[p + 1].min = Min({channel[p + 1].min, s})
        <4>1. channel'[p + 1] = With(channel[p + 1], s)
          BY <1>5, <2>5
        <4>2. QED
          BY <4>1, WithExtremes, Zenon
      <3>6. QED
        BY <3>3, <3>4, <3>5, Zenon
    <2>6. QED
      BY <2>4, <2>5
  <1>10. QED
    BY <1>1, <1>3, <1>6, <1>7, <1>8, <1>9 DEF BlockInv, OverrunInv, PeakInv

(* What depends on the block's samples and resolution only.                *)
LEMMA SameSamples ==
  ASSUME pps' = pps, length' = length, samples' = samples
  PROVE  /\ i' = i /\ SamplesPerPixel' = SamplesPerPixel
         /\ \A n : PixelsPerChannel(n)' = PixelsPerChannel(n)
         /\ \A p : Seen(p)' = Seen(p)
  <1>1. i' = i /\ SamplesPerPixel' = SamplesPerPixel
    BY DEF i, SamplesPerPixel
  <1>2. ASSUME NEW n
        PROVE  PixelsPerChannel(n)' = PixelsPerChannel(n)
    BY <1>1 DEF PixelsPerChannel
  <1>3. ASSUME NEW p
        PROVE  Seen(p)' = Seen(p)
    <2>1. Window(p)' = Window(p)
      BY <1>1 DEF Window
    <2>2. QED
      BY <1>1, <2>1 DEF Seen
  <1>4. QED
    BY <1>1, <1>2, <1>3

LEMMA OverrunKeepsInv ==
  ASSUME BlockInv, Overrun
  PROVE  BlockInv'
  <1>1. /\ pps' = pps /\ length' = length /\ samples' = samples /\ channel' = channel
        /\ pixel_idx' = pixel_idx /\ peak' = peak /\ num_channels' = num_channels
        /\ pc = "update" /\ pc' = "overrun" /\ i < length /\ pixel_idx >= Len(channel)
    BY DEF Overrun
  <1>2. /\ i' = i /\ SamplesPerPixel' = SamplesPerPixel
        /\ \A n : PixelsPerChannel(n)' = PixelsPerChannel(n)
        /\ \A p : Seen(p)' = Seen(p)
    BY <1>1, SameSamples
  <1>3. BlockType' /\ PeakInv'
    BY <1>1, <1>2 DEF BlockInv, BlockType, PeakInv
  <1>4. IndexInv' /\ OverrunInv' /\ PlacedInv'
    BY <1>1, <1>2 DEF BlockInv, IndexInv, OverrunInv, PlacedInv
  <1>5. SizeInv'
    BY <1>1, <1>2 DEF BlockInv, SizeInv
  <1>6. ContentInv'
    BY <1>1, <1>2 DEF BlockInv, ContentInv
  <1>7. QED
    BY <1>3, <1>4, <1>5, <1>6 DEF BlockInv

LEMMA TransformInv ==
  ASSUME BlockInv, Transform
  PROVE  BlockInv'
  <1>1. /\ pps' = pps /\ length' = length /\ samples' = samples /\ channel' = channel
        /\ pixel_idx' = pixel_idx /\ num_channels' = num_channels
        /\ pc = "update" /\ pc' = "ready" /\ i = length
    BY DEF Transform
  <1>2. /\ i' = i /\ SamplesPerPixel' = SamplesPerPixel
        /\ \A n : PixelsPerChannel(n)' = PixelsPerChannel(n)
        /\ \A p : Seen(p)' = Seen(p)
    BY <1>1, SameSamples
  <1>3. BlockType'
    BY TransformType DEF BlockInv
  <1>4. IndexInv' /\ OverrunInv'
    BY <1>1, <1>2 DEF BlockInv, IndexInv, OverrunInv
  <1>5. PlacedInv'
    BY <1>1, <1>2 DEF BlockInv, PlacedInv
  <1>6. SizeInv'
    BY <1>1, <1>2 DEF BlockInv, SizeInv
  <1>7. ContentInv'
    BY <1>1, <1>2 DEF BlockInv, ContentInv
  <1>8. PeakInv'
    BY <1>1, <1>2 DEF PeakInv, Transform
  <1>9. QED
    BY <1>3, <1>4, <1>5, <1>6, <1>7, <1>8 DEF BlockInv

LEMMA UnchangedBlockInv ==
  ASSUME BlockInv, UNCHANGED blockVars
  PROVE  BlockInv'
  <1>1. /\ pps' = pps /\ length' = length /\ samples' = samples /\ channel' = channel
        /\ pixel_idx' = pixel_idx /\ peak' = peak /\ num_channels' = num_channels /\ pc' = pc
    BY DEF blockVars
  <1>2. /\ i' = i /\ SamplesPerPixel' = SamplesPerPixel
        /\ \A n : PixelsPerChannel(n)' = PixelsPerChannel(n)
        /\ \A p : Seen(p)' = Seen(p)
    BY <1>1, SameSamples
  <1>3. BlockType' /\ PeakInv'
    <2>1. BlockType'
      BY DEF BlockInv, blockVars, BlockType
    <2>2. PeakInv'
      BY <1>1, <1>2 DEF BlockInv, PeakInv
    <2>3. QED
      BY <2>1, <2>2
  <1>4. IndexInv' /\ OverrunInv' /\ PlacedInv'
    BY <1>1, <1>2 DEF BlockInv, IndexInv, OverrunInv, PlacedInv
  <1>5. SizeInv'
    BY <1>1, <1>2 DEF BlockInv, SizeInv
  <1>6. ContentInv'
    BY <1>1, <1>2 DEF BlockInv, ContentInv
  <1>7. QED
    BY <1>3, <1>4, <1>5, <1>6 DEF BlockInv

-----------------------------------------------------------------------------
(* The view, and all variables together.                                   *)

(* interpolate() runs on a finished block, and does not ask for pixels     *)
(* beyond its view; a copy has as many pixels as its view.                 *)
ReadingInv ==
  /\ reading => pc = "ready"
  /\ new_num_pix > 0 =>
       /\ reading /\ ViewSize >= 1
       /\ Precision * (Time(new_num_pix - 1) - ViewSize * new_pps.num) < new_pps.num
       /\ HasPps(new_pps) => new_num_pix = ViewSize
  /\ j > 0 => new_num_pix > 0 /\ (shown = Undefined <=> ViewSize = 1 /\ ~HasPps(new_pps))

(* What has been shown is between two pixels near its time, or beyond them *)
(* by a rounding.                                                          *)
Between(k, y0, y1) == (new_pps.num - k) * y0 + k * y1

IsWeight(k) ==
  k \in Int /\ Precision * (-k) <= new_pps.num /\ Precision * (k - new_pps.num) <= new_pps.num

IsNear(p, n) ==
  /\ Precision * (Time(n) - p * new_pps.num) <= (2 * Precision + 1) * new_pps.num
  /\ -(Precision * (Time(n) - p * new_pps.num)) <= (2 * Precision + 1) * new_pps.num

Mixed(a, b, k) ==
  [max |-> Between(k, channel[a + 1].max, channel[b + 1].max),
   min |-> Between(k, channel[a + 1].min, channel[b + 1].min)]

ShownInv ==
  reading /\ j > 0 /\ shown # Undefined =>
    \E a, b \in 0 .. ViewSize - 1, k \in Int :
      /\ IsNear(a, j - 1) /\ IsNear(b, j - 1) /\ IsWeight(k)
      /\ shown = Mixed(a, b, k)

Inv == BlockInv /\ ViewType /\ ReadingInv /\ ShownInv

LEMMA UndefinedIsNoPixel == NoPixel \in [max : Int, min : Int] /\ NoPixel # Undefined
  BY Constants DEF NoPixel

LEMMA InitInv == Init => Inv
  <1> SUFFICES ASSUME Init
               PROVE  Inv
    OBVIOUS
  <1>1. BlockInv
    BY InitBlockInv DEF Init
  <1>2. ViewType
    <2>1. reading = FALSE /\ new_pps \in Zooms /\ new_num_pix = 0 /\ j = 0 /\ shown = NoPixel
      BY DEF Init
    <2>2. new_num_pix \in Nat /\ j \in 0 .. new_num_pix
      BY <2>1
    <2>3. QED
      BY <2>1, <2>2, UndefinedIsNoPixel DEF ViewType
  <1>3. ReadingInv
    BY UndefinedIsNoPixel DEF Init, ReadingInv
  <1>4. ShownInv
    BY DEF Init, ShownInv
  <1>5. QED
    BY <1>1, <1>2, <1>3, <1>4 DEF Inv

LEMMA UpdateInv == Inv /\ Update => Inv'
  <1> SUFFICES ASSUME Inv, Update
               PROVE  Inv'
    OBVIOUS
  <1>1. BlockInv'
    <2>1. ASSUME NEW n \in Lengths, BeginUpdate(n)
          PROVE  BlockInv'
      BY <2>1, BeginUpdateInv DEF Inv
    <2>2. ASSUME NEW s \in Levels, AddSample(s)
          PROVE  BlockInv'
      BY <2>2, AddSampleInv DEF Inv
    <2>3. CASE Overrun
      BY <2>3, OverrunKeepsInv DEF Inv
    <2>4. CASE Transform
      BY <2>4, TransformInv DEF Inv
    <2>5. QED
      BY <2>1, <2>2, <2>3, <2>4 DEF Update
  <1>2. UNCHANGED viewVars /\ ~reading
    BY DEF Update
  <1>3. ViewType'
    BY <1>2 DEF Inv, ViewType, viewVars
  <1>4. ReadingInv'
    <2>1. ~reading' /\ new_num_pix' = new_num_pix /\ j' = j /\ shown' = shown
      BY <1>2 DEF viewVars
    <2>2. ~(new_num_pix > 0) /\ ~(j > 0)
      BY <1>2 DEF Inv, ReadingInv
    <2>3. QED
      BY <2>1, <2>2 DEF ReadingInv
  <1>5. ShownInv'
    BY <1>2 DEF ShownInv, viewVars
  <1>6. QED
    BY <1>1, <1>3, <1>4, <1>5 DEF Inv

LEMMA BlockFacts ==
  ASSUME Inv
  PROVE  /\ pps \in Nat \ {0} /\ new_pps.num \in Nat \ {0} /\ new_pps.den \in Nat \ {0}
         /\ channel \in Seq(Pixel) /\ Len(channel) \in Nat
         /\ new_num_pix \in Nat /\ j \in 0 .. new_num_pix
         /\ Precision \in Nat \ {0, 1}
         /\ pc = "ready" => ViewSize \in Nat
  <1>1. pc = "ready" => Len(channel) \in Nat \ {0}
    BY PixelNumber DEF Inv, BlockInv, BlockType, SizeInv
  <1>2. new_pps \in [num : Nat \ {0}, den : Nat \ {0}]
    BY ViewAssumption DEF Inv, ViewType
  <1>3. QED
    BY <1>1, <1>2, SamplesPerPixelIsPositive, ViewAssumption
    DEF Inv, BlockInv, BlockType, ViewType, ViewSize

LEMMA MinOfTwoCases ==
  ASSUME NEW a \in Int, NEW b \in Int
  PROVE  (Min({a, b}) = a /\ a <= b) \/ (Min({a, b}) = b /\ b <= a)
  <1>1. Min({a, b}) \in {a, b} /\ Min({a, b}) <= a /\ Min({a, b}) <= b
    BY MinOfTwo, Zenon DEF IsMin
  <1> DEFINE m == Min({a, b})
  <1> HIDE DEF m
  <1>2. m \in {a, b} /\ m <= a /\ m <= b
    BY <1>1 DEF m
  <1>3. (m = a /\ a <= b) \/ (m = b /\ b <= a)
    BY <1>2
  <1>4. QED
    BY <1>3 DEF m

LEMMA CeilFacts ==
  ASSUME NEW a \in Int, NEW b \in Int, NEW e \in Int, NEW c \in Ceils(a, b, e)
  PROVE  /\ c \in a \div b .. (a \div b) + 2
         /\ (c = 0 <=> a = 0)
         /\ Precision * (a - c * b) <= e /\ Precision * ((c - 1) * b - a) < e
  BY DEF Ceils

LEMMA GetPixelsInv ==
  ASSUME Inv, NEW z \in Zooms, GetPixels(z)
  PROVE  Inv'
  <1> DEFINE d == pps * z.den
             scaled == ViewSize * z.num
             e == Min({z.num, d})
  <1>1. /\ pc = "ready" /\ UNCHANGED blockVars /\ reading' = TRUE /\ new_pps' = z /\ j' = 0
        /\ shown' = NoPixel
        /\ \/ HasPps(z) /\ new_num_pix' = ViewSize
           \/ ~HasPps(z) /\ new_num_pix' \in Ceils(scaled, d, e)
    BY DEF GetPixels
  <1>2. /\ pps \in Nat \ {0} /\ z.num \in Nat \ {0} /\ z.den \in Nat \ {0} /\ ViewSize \in Nat
        /\ Precision \in Nat \ {0, 1} /\ scaled \in Nat /\ d \in Nat \ {0}
    <2>1. z \in [num : Nat \ {0}, den : Nat \ {0}]
      BY ViewAssumption
    <2>2. pps \in Nat \ {0} /\ z.num \in Nat \ {0} /\ z.den \in Nat \ {0} /\ ViewSize \in Nat
      BY <1>1, <2>1, BlockFacts
    <2>3. d \in Nat \ {0}
      BY <2>2
    <2>4. QED
      BY <2>2, <2>3, BlockFacts
  <1>3. BlockInv'
    BY <1>1, UnchangedBlockInv DEF Inv
  <1>4. ViewSize' = ViewSize /\ pps' = pps /\ pc' = pc
    BY <1>1 DEF blockVars, ViewSize
  <1>5. /\ new_num_pix' \in Nat
        /\ new_num_pix' > 0 => ViewSize >= 1 /\ Precision * (d * (new_num_pix' - 1) - scaled) < z.num
    <2>1. CASE HasPps(z) /\ new_num_pix' = ViewSize
      <3>1. d = z.num
        BY <2>1 DEF HasPps
      <3> DEFINE n == z.num
      <3>2. n * (ViewSize - 1) - ViewSize * n = -n /\ Precision * n \in Nat /\ n \in Nat \ {0}
        <4>1. n \in Nat \ {0}
          BY <1>2
        <4> HIDE DEF n
        <4>2. n * (ViewSize - 1) = n * ViewSize - n /\ n * ViewSize \in Nat /\ ViewSize * n = n * ViewSize
          BY <1>2, <4>1
        <4>3. QED
          BY <1>2, <4>1, <4>2
      <3>3. Precision * (n * (ViewSize - 1) - ViewSize * n) < n
        <4> HIDE DEF n
        <4>1. Precision * (-n) = -(Precision * n)
          BY <1>2, <3>2
        <4>2. QED
          BY <3>2, <4>1
      <3>4. ViewSize > 0 => ViewSize >= 1
        BY <1>2
      <3>5. Precision * (d * (ViewSize - 1) - scaled) < z.num
        BY <3>1, <3>3
      <3>6. QED
        BY <1>2, <2>1, <3>4, <3>5
    <2>2. CASE new_num_pix' \in Ceils(scaled, d, e)
      <3>1. /\ scaled \div d \in Nat
            /\ new_num_pix' \in scaled \div d .. (scaled \div d) + 2
            /\ (new_num_pix' = 0 <=> scaled = 0)
            /\ Precision * ((new_num_pix' - 1) * d - scaled) < e
        <4>1. scaled \div d \in Nat
          BY <1>2, Division, Zenon
        <4>2. QED
          BY <2>2, <4>1 DEF Ceils
      <3>2. e \in Int /\ e <= z.num
        BY <1>2, MinOfTwoCases
      <3> HIDE DEF e, d, scaled
      <3>3. new_num_pix' \in Nat /\ (new_num_pix' > 0 => scaled # 0)
        BY <3>1
      <3>4. (new_num_pix' - 1) * d = d * (new_num_pix' - 1) /\ d * (new_num_pix' - 1) \in Int
        BY <1>2, <3>3
      <3>5. Precision * (d * (new_num_pix' - 1) - scaled) \in Int
        BY <1>2, <3>4
      <3>6. Precision * (d * (new_num_pix' - 1) - scaled) < z.num
        <4>1. Precision * (d * (new_num_pix' - 1) - scaled) < e
          BY <3>1, <3>4
        <4>2. z.num \in Int
          BY <1>2
        <4>3. QED
          BY <3>2, <3>5, <4>1, <4>2
      <3>7. scaled # 0 => ViewSize >= 1
        BY <1>2 DEF scaled
      <3>8. QED
        BY <3>3, <3>6, <3>7
    <2>3. QED
      BY <1>1, <2>1, <2>2
  <1>6. ViewType'
    BY <1>1, <1>5, UndefinedIsNoPixel DEF Inv, ViewType
  <1>7. ReadingInv'
    <2>1. reading' /\ pc' = "ready" /\ ~(j' > 0)
      BY <1>1, <1>4
    <2>2. Time(new_num_pix - 1)' = d * (new_num_pix' - 1) /\ (ViewSize * new_pps.num)' = scaled
      BY <1>1, <1>4 DEF Time
    <2>3. HasPps(new_pps)' => new_num_pix' = ViewSize'
      BY <1>1, <1>4 DEF HasPps
    <2>4. QED
      BY <1>1, <1>4, <1>5, <2>1, <2>2, <2>3 DEF ReadingInv
  <1>8. ShownInv'
    BY <1>1 DEF ShownInv
  <1>9. QED
    BY <1>3, <1>6, <1>7, <1>8 DEF Inv

(* New pixels that are asked for do not lie beyond the view.               *)
LEMMA TimeBound ==
  ASSUME Inv, reading, j < new_num_pix
  PROVE  /\ Time(j) \in Nat /\ ViewSize \in Nat \ {0} /\ ViewSize * new_pps.num \in Nat
         /\ Precision * (Time(j) - ViewSize * new_pps.num) < new_pps.num
  <1> DEFINE d == pps * new_pps.den
             s == ViewSize * new_pps.num
  <1>1. /\ d \in Nat \ {0} /\ new_pps.num \in Nat \ {0} /\ j \in Nat /\ new_num_pix \in Nat
        /\ ViewSize \in Nat /\ Precision \in Nat \ {0, 1}
    <2>1. /\ pps \in Nat \ {0} /\ new_pps.den \in Nat \ {0} /\ new_pps.num \in Nat \ {0}
          /\ j \in Nat /\ new_num_pix \in Nat /\ ViewSize \in Nat /\ Precision \in Nat \ {0, 1}
      BY BlockFacts DEF Inv, ReadingInv
    <2>2. d \in Nat \ {0}
      BY <2>1
    <2>3. QED
      BY <2>1, <2>2
  <1>2. ViewSize >= 1 /\ Precision * (d * (new_num_pix - 1) - s) < new_pps.num
    BY <1>1 DEF Inv, ReadingInv, Time
  <1>3. d * j \in Nat /\ d * (new_num_pix - 1) \in Nat /\ s \in Nat
    BY <1>1
  <1> HIDE DEF d, s
  <1>4. d * j <= d * (new_num_pix - 1)
    <2>1. CASE j = new_num_pix - 1
      BY <1>3, <2>1
    <2>2. CASE j < new_num_pix - 1
      <3>1. j * d + d <= (new_num_pix - 1) * d
        BY <1>1, <2>2, ProductOrder
      <3>2. j * d = d * j /\ (new_num_pix - 1) * d = d * (new_num_pix - 1)
        BY <1>1
      <3>3. QED
        BY <1>1, <1>3, <3>1, <3>2
    <2>3. QED
      BY <1>1, <2>1, <2>2
  <1>5. Precision * (d * j - s) <= Precision * (d * (new_num_pix - 1) - s)
    <2> DEFINE x == d * j - s
               y == d * (new_num_pix - 1) - s
    <2>1. x \in Int /\ y \in Int /\ x <= y
      BY <1>3, <1>4
    <2> HIDE DEF x, y
    <2>2. Precision * x <= Precision * y
      BY <1>1, <2>1, ScaledOrder
    <2>3. QED
      BY <2>2 DEF x, y
  <1>6. Precision * (d * j - s) \in Int /\ Precision * (d * (new_num_pix - 1) - s) \in Int
    BY <1>1, <1>3
  <1>7. Precision * (d * j - s) < new_pps.num
    BY <1>1, <1>2, <1>5, <1>6
  <1>8. QED
    BY <1>1, <1>2, <1>3, <1>7 DEF Time, d, s

(* The first of the two pixels is in the view and near, and its weight is  *)
(* in range but for the rounding.                                          *)
LEMMA FirstIndex ==
  ASSUME Inv, reading, j < new_num_pix, NEW a \in Idx0
  PROVE  /\ a \in 0 .. ViewSize - 1 /\ IsNear(a, j)
         /\ IsWeight(Time(j) - a * new_pps.num)
  <1> DEFINE z == new_pps.num
             t == Time(j)
             V == ViewSize
             K == Precision
  <1>1. /\ z \in Nat \ {0} /\ V \in Nat \ {0} /\ K \in Nat \ {0, 1} /\ t \in Nat
        /\ V * z \in Nat /\ K * (t - V * z) < z
    BY BlockFacts, TimeBound
  <1>2. PICK f \in Floors(t, z) : a = Min({f, V - 1})
    BY Zenon DEF Idx0
  <1>3. f \in Nat /\ K * (f * z - t) <= z /\ K * (t - (f + 1) * z) < z
    <2>1. t \div z \in Nat
      BY <1>1, Division, Zenon
    <2>2. QED
      BY <1>2, <2>1 DEF Floors
  <1> HIDE DEF z, t, V, K
  <1>4. (a = f /\ f <= V - 1) \/ (a = V - 1 /\ V - 1 <= f)
    BY <1>1, <1>2, <1>3, MinOfTwoCases
  <1>5. a \in Nat /\ a <= V - 1 /\ a * z \in Nat /\ f * z \in Nat
    BY <1>1, <1>3, <1>4
  <1>6. a * z <= f * z
    BY <1>1, <1>3, <1>4, <1>5, ScaledOrder
  <1>7. K * (a * z - t) <= z
    <2> DEFINE x == a * z - t
               y == f * z - t
    <2>1. x \in Int /\ y \in Int /\ x <= y
      BY <1>1, <1>5, <1>6
    <2>2. K * y <= z
      BY <1>3
    <2> HIDE DEF x, y
    <2>3. K * x <= K * y /\ K * x \in Int /\ K * y \in Int
      BY <1>1, <2>1, ScaledOrder
    <2>4. K * x <= z
      BY <1>1, <2>2, <2>3
    <2>5. QED
      BY <2>4 DEF x
  <1>8. K * (t - a * z - z) <= z
    <2>1. CASE a = f
      <3>1. (f + 1) * z = a * z + z
        BY <1>1, <1>3, <2>1
      <3>2. t - (f + 1) * z = t - a * z - z
        BY <1>1, <1>5, <3>1
      <3>3. K * (t - a * z - z) \in Int
        BY <1>1, <1>5
      <3>4. QED
        BY <1>1, <1>3, <3>2, <3>3
    <2>2. CASE a = V - 1
      <3>1. t - V * z = t - a * z - z
        BY <1>1, <2>2
      <3>2. K * (t - a * z - z) \in Int
        BY <1>1, <1>5
      <3>3. QED
        BY <1>1, <3>1, <3>2
    <2>3. QED
      BY <1>4, <2>1, <2>2
  <1> DEFINE k == t - a * z
  <1>9. k \in Int /\ K * (-k) <= z /\ K * (k - z) <= z
    <2>1. -k = a * z - t /\ k - z = t - a * z - z
      BY <1>1, <1>5
    <2>2. k \in Int
      BY <1>1, <1>5
    <2> HIDE DEF k
    <2>3. QED
      BY <1>7, <1>8, <2>1, <2>2
  <1>10. K * k <= (2 * K + 1) * z /\ -(K * k) <= (2 * K + 1) * z
    <2> HIDE DEF k
    <2>1. K * (k - z) = K * k - K * z /\ K * (-k) = -(K * k) /\ (2 * K + 1) * z = 2 * (K * z) + z
      BY <1>1, <1>9
    <2>2. K * z \in Nat /\ K * k \in Int
      BY <1>1, <1>9
    <2> DEFINE kz == K * z
               kk == K * k
    <2> HIDE DEF kz, kk
    <2>3. kk - kz <= z /\ -kk <= z /\ kz \in Nat /\ kk \in Int
      BY <1>9, <2>1, <2>2 DEF kz, kk
    <2>4. kk <= 2 * kz + z /\ -kk <= 2 * kz + z
      BY <1>1, <2>3
    <2>5. QED
      BY <2>1, <2>4 DEF kz, kk
  <1>11. a \in 0 .. V - 1
    BY <1>1, <1>5
  <1>12. QED
    BY <1>9, <1>10, <1>11 DEF IsNear, IsWeight, z, t, V, K

(* So is the second one, unless the view has one pixel only.               *)
LEMMA SecondIndex ==
  ASSUME Inv, reading, j < new_num_pix, NEW b \in Idx1
  PROVE  /\ b \in Int /\ (b < 0 <=> ViewSize = 1)
         /\ b >= 0 => b \in 0 .. ViewSize - 1 /\ IsNear(b, j)
  <1> DEFINE z == new_pps.num
             t == Time(j)
             V == ViewSize
             K == Precision
  <1>1. /\ z \in Nat \ {0} /\ V \in Nat \ {0} /\ K \in Nat \ {0, 1} /\ t \in Nat
        /\ V * z \in Nat /\ K * (t - V * z) < z
    BY BlockFacts, TimeBound
  <1>2. PICK c \in Ceils(t + z, z, z) : b = Min({c, V - 2})
    BY Zenon DEF Idx1
  <1>3. c \in Nat \ {0} /\ K * (t + z - c * z) <= z /\ K * ((c - 1) * z - (t + z)) < z
    <2>1. t + z \in Nat \ {0}
      BY <1>1
    <2>2. (t + z) \div z \in Nat
      BY <1>1, <2>1, Division, Zenon
    <2>3. /\ c \in (t + z) \div z .. ((t + z) \div z) + 2
          /\ (c = 0 <=> t + z = 0)
          /\ Precision * (t + z - c * z) <= z /\ Precision * ((c - 1) * z - (t + z)) < z
      BY <1>1, <1>2, CeilFacts
    <2> HIDE DEF z, t
    <2>4. c \in Nat \ {0}
      BY <2>1, <2>2, <2>3
    <2>5. QED
      BY <2>3, <2>4
  <1> HIDE DEF z, t, V, K
  <1>4. (b = c /\ c <= V - 2) \/ (b = V - 2 /\ V - 2 <= c)
    BY <1>1, <1>2, <1>3, MinOfTwoCases
  <1>5. b \in Int /\ b <= V - 2 /\ b * z \in Int /\ c * z \in Int /\ (b < 0 <=> V = 1)
    BY <1>1, <1>3, <1>4
  <1> DEFINE k == t - b * z
             kz == K * z
  <1>6. k \in Int /\ kz \in Nat /\ K * k \in Int /\ (2 * K + 1) * z = 2 * kz + z
    BY <1>1, <1>5
  <1>7. K * (t - c * z) + kz <= z /\ -(K * (t - c * z)) - 2 * kz < z /\ K * (t - c * z) \in Int
    <2>1. K * (t + z - c * z) = K * (t - c * z) + K * z
      BY <1>1, <1>5
    <2>2. K * ((c - 1) * z - (t + z)) = -(K * (t - c * z)) - 2 * (K * z)
      <3> DEFINE x == t - c * z
      <3>1. (c - 1) * z - (t + z) = -x - 2 * z /\ x \in Int
        BY <1>1, <1>3, <1>5
      <3> HIDE DEF x
      <3>2. K * (-x - 2 * z) = -(K * x) - 2 * (K * z)
        BY <1>1, <3>1
      <3>3. QED
        BY <3>1, <3>2 DEF x
    <2>3. QED
      BY <1>1, <1>3, <1>5, <2>1, <2>2
  <1>8. -(K * k) <= 2 * kz + z
    <2>1. b * z <= c * z
      BY <1>1, <1>3, <1>4, <1>5, ScaledOrder
    <2> DEFINE x == t - c * z
    <2>2. x <= k /\ x \in Int
      BY <1>1, <1>5, <2>1
    <2>3. -(K * x) - 2 * kz < z
      BY <1>7
    <2> HIDE DEF x, k, kz
    <2>4. K * x <= K * k /\ K * x \in Int
      BY <1>1, <1>6, <2>2, ScaledOrder
    <2>5. QED
      BY <1>1, <1>6, <2>3, <2>4
  <1>9. K * k <= 2 * kz + z
    <2>1. CASE b = c
      BY <1>1, <1>6, <1>7, <2>1
    <2>2. CASE b = V - 2
      <3>1. k = t - V * z + 2 * z
        BY <1>1, <2>2
      <3> DEFINE x == t - V * z
      <3>2. x \in Int /\ K * x < z /\ k = x + 2 * z
        BY <1>1, <3>1
      <3> HIDE DEF x, k
      <3>3. K * k = K * x + 2 * kz /\ K * x \in Int
        BY <1>1, <3>2
      <3>4. QED
        BY <1>1, <1>6, <3>2, <3>3
    <2>3. QED
      BY <1>4, <2>1, <2>2
  <1>10. K * k <= (2 * K + 1) * z /\ -(K * k) <= (2 * K + 1) * z
    BY <1>6, <1>8, <1>9
  <1>11. b >= 0 => b \in 0 .. V - 1
    BY <1>1, <1>5
  <1>12. QED
    BY <1>5, <1>10, <1>11 DEF IsNear, z, t, V, K

LEMMA MixedType ==
  ASSUME Inv, NEW a \in 0 .. ViewSize - 1, NEW b \in 0 .. ViewSize - 1, NEW k \in Int
  PROVE  Mixed(a, b, k) \in [max : Int, min : Int]
  <1>1. /\ new_pps.num \in Nat \ {0} /\ channel \in Seq(Pixel) /\ Len(channel) \in Nat
        /\ a + 1 \in 1 .. Len(channel) /\ b + 1 \in 1 .. Len(channel)
    <2>1. new_pps.num \in Nat \ {0} /\ channel \in Seq(Pixel) /\ Len(channel) \in Nat
      BY BlockFacts
    <2>2. QED
      BY <2>1 DEF ViewSize
  <1>2. channel[a + 1] \in Pixel /\ channel[b + 1] \in Pixel
    BY <1>1
  <1>3. /\ channel[a + 1].max \in Int /\ channel[a + 1].min \in Int
        /\ channel[b + 1].max \in Int /\ channel[b + 1].min \in Int
    BY <1>2, Constants DEF Pixel
  <1>4. \A y0, y1 \in Int : Between(k, y0, y1) \in Int
    <2> SUFFICES ASSUME NEW y0 \in Int, NEW y1 \in Int
                 PROVE  Between(k, y0, y1) \in Int
      OBVIOUS
    <2>1. (new_pps.num - k) * y0 \in Int /\ k * y1 \in Int
      BY <1>1
    <2>2. QED
      BY <2>1 DEF Between
  <1> DEFINE hi == Between(k, channel[a + 1].max, channel[b + 1].max)
             lo == Between(k, channel[a + 1].min, channel[b + 1].min)
  <1>5. hi \in Int /\ lo \in Int
    BY <1>3, <1>4, Zenon
  <1>6. Mixed(a, b, k) = [max |-> hi, min |-> lo]
    BY Zenon DEF Mixed
  <1> HIDE DEF hi, lo
  <1>7. [max |-> hi, min |-> lo] \in [max : Int, min : Int]
    BY <1>5
  <1>8. QED
    BY <1>6, <1>7

(* Both ways of showing a pixel of the view keep the invariant.            *)
LEMMA ShowPixelInv ==
  ASSUME Inv, UNCHANGED <<blockVars, reading, new_pps, new_num_pix>>,
         reading, j < new_num_pix, j' = j + 1,
         NEW a \in 0 .. ViewSize - 1, NEW b \in 0 .. ViewSize - 1, NEW k \in Int,
         IsNear(a, j), IsNear(b, j), IsWeight(k), shown' = Mixed(a, b, k),
         ViewSize # 1 \/ HasPps(new_pps)
  PROVE  Inv'
  <1>1. UNCHANGED blockVars /\ reading' = reading /\ new_pps' = new_pps /\ new_num_pix' = new_num_pix
    OBVIOUS
  <1>2. pps' = pps /\ pc' = pc /\ channel' = channel /\ ViewSize' = ViewSize
    BY <1>1 DEF blockVars, ViewSize
  <1>3. /\ \A y, y0, y1 : Between(y, y0, y1)' = Between(y, y0, y1)
        /\ \A y : IsWeight(y)' = IsWeight(y)
        /\ \A n : Time(n)' = Time(n)
        /\ HasPps(new_pps)' = HasPps(new_pps)
    BY <1>1, <1>2 DEF Between, IsWeight, Time, HasPps
  <1>4. shown' \in [max : Int, min : Int] /\ shown' # Undefined /\ j \in Nat /\ new_num_pix \in Nat
    BY MixedType, Constants, BlockFacts
  <1>5. BlockInv'
    BY <1>1, UnchangedBlockInv DEF Inv
  <1>6. ViewType'
    BY <1>1, <1>4 DEF Inv, ViewType
  <1>7. ReadingInv'
    <2>1. Time(new_num_pix - 1)' = Time(new_num_pix - 1)
      BY <1>1, <1>3
    <2>2. QED
      BY <1>1, <1>2, <1>3, <1>4, <2>1 DEF Inv, ReadingInv
  <1>8. ShownInv'
    <2>1. j' - 1 = j
      BY <1>4
    <2>2. \A p : IsNear(p, j - 1)' = IsNear(p, j)
      BY <1>1, <1>2, <2>1 DEF IsNear, Time
    <2>3. Mixed(a, b, k)' = Mixed(a, b, k)
      BY <1>2, <1>3 DEF Mixed
    <2>4. IsNear(a, j - 1)' /\ IsNear(b, j - 1)' /\ IsWeight(k)' /\ (shown = Mixed(a, b, k))'
      BY <1>3, <2>2, <2>3
    <2>5. a \in (0 .. ViewSize - 1)' /\ b \in (0 .. ViewSize - 1)'
      BY <1>2
    <2>6. (\E a1, b1 \in 0 .. ViewSize - 1, k1 \in Int :
             /\ IsNear(a1, j - 1) /\ IsNear(b1, j - 1) /\ IsWeight(k1)
             /\ shown = Mixed(a1, b1, k1))'
      BY <2>4, <2>5, Zenon
    <2>7. QED
      BY <2>6 DEF ShownInv
  <1>9. QED
    BY <1>5, <1>6, <1>7, <1>8 DEF Inv

LEMMA InterpolatePixelInv ==
  ASSUME Inv, InterpolatePixel
  PROVE  Inv'
  <1>1. /\ UNCHANGED <<blockVars, reading, new_pps, new_num_pix>> /\ reading
        /\ j < new_num_pix /\ j' = j + 1 /\ ~HasPps(new_pps)
    BY DEF InterpolatePixel
  <1>2. PICK a \in Idx0, b \in Idx1 : shown' = IF b < 0 THEN Undefined ELSE Interpolated(a, b)
    BY Zenon DEF InterpolatePixel
  <1> DEFINE k == Time(j) - a * new_pps.num
  <1>3. a \in 0 .. ViewSize - 1 /\ IsNear(a, j) /\ IsWeight(k)
    BY <1>1, FirstIndex, Zenon
  <1>4. /\ b \in Int /\ (b < 0 <=> ViewSize = 1)
        /\ b >= 0 => b \in 0 .. ViewSize - 1 /\ IsNear(b, j)
    BY <1>1, SecondIndex, Zenon
  <1>5. CASE b < 0
    <2>1. pps' = pps /\ pc' = pc /\ channel' = channel /\ ViewSize' = ViewSize
      BY <1>1 DEF blockVars, ViewSize
    <2>2. shown' = Undefined /\ ViewSize' = 1 /\ ViewType /\ j \in Nat /\ new_num_pix \in Nat
      BY <1>2, <1>4, <1>5, <2>1, BlockFacts DEF Inv
    <2>3. BlockInv'
      BY <1>1, UnchangedBlockInv DEF Inv
    <2>4. ViewType'
      BY <1>1, <2>2 DEF ViewType
    <2>5. ReadingInv'
      <3>1. Time(new_num_pix - 1)' = Time(new_num_pix - 1) /\ HasPps(new_pps)' = HasPps(new_pps)
        BY <1>1, <2>1 DEF Time, HasPps
      <3>2. QED
        BY <1>1, <2>1, <2>2, <3>1 DEF Inv, ReadingInv
    <2>6. QED
      BY <2>2, <2>3, <2>4, <2>5 DEF Inv, ShownInv
  <1>6. CASE ~(b < 0)
    <2>1. b \in 0 .. ViewSize - 1 /\ IsNear(b, j) /\ ViewSize # 1
      BY <1>4, <1>6
    <2>2. shown' = Mixed(a, b, k)
      <3>1. Interpolated(a, b) = Mixed(a, b, k)
        BY Zenon DEF Interpolated, Mixed, Between
      <3>2. QED
        BY <1>2, <1>6, <3>1
    <2>3. k \in Int
      BY <1>3, Zenon DEF IsWeight
    <2> HIDE DEF k
    <2>4. QED
      BY <1>1, <1>3, <2>1, <2>2, <2>3, ShowPixelInv
  <1>7. QED
    BY <1>5, <1>6

LEMMA ClonePixelInv ==
  ASSUME Inv, ClonePixel
  PROVE  Inv'
  <1>1. /\ UNCHANGED <<blockVars, reading, new_pps, new_num_pix>> /\ reading
        /\ j < new_num_pix /\ j' = j + 1 /\ HasPps(new_pps)
        /\ shown' = [max |-> new_pps.num * channel[j + 1].max, min |-> new_pps.num * channel[j + 1].min]
    BY DEF ClonePixel
  <1> DEFINE z == new_pps.num
             t == Time(j)
  <1>2. /\ z \in Nat \ {0} /\ Precision \in Nat \ {0, 1} /\ j \in 0 .. ViewSize - 1
        /\ channel \in Seq(Pixel) /\ j + 1 \in 1 .. Len(channel)
    <2>1. /\ z \in Nat \ {0} /\ Precision \in Nat \ {0, 1} /\ j \in Nat /\ new_num_pix \in Nat
          /\ channel \in Seq(Pixel) /\ Len(channel) \in Nat
      BY BlockFacts
    <2>2. new_num_pix = ViewSize
      BY <1>1, <2>1 DEF Inv, ReadingInv
    <2>3. QED
      BY <1>1, <2>1, <2>2 DEF ViewSize
  <1>3. t = j * z
    <2>1. t = z * j
      BY <1>1 DEF Time, HasPps
    <2>2. QED
      BY <1>2, <2>1
  <1> HIDE DEF z, t
  <1>4. t - j * z = 0 /\ (2 * Precision + 1) * z \in Nat
    BY <1>2, <1>3
  <1>5. IsNear(j, j)
    <2>1. Precision * (t - j * z) = 0
      BY <1>2, <1>4
    <2>2. Precision * (t - j * z) <= (2 * Precision + 1) * z /\ -(Precision * (t - j * z)) <= (2 * Precision + 1) * z
      BY <1>4, <2>1
    <2>3. QED
      BY <2>2 DEF IsNear, z, t
  <1>6. IsWeight(0)
    <2>1. 0 \in Int /\ Precision * (-0) <= z /\ Precision * (0 - z) <= z
      BY <1>2
    <2>2. QED
      BY <2>1 DEF IsWeight, z
  <1>7. shown' = Mixed(j, j, 0)
    <2>1. channel[j + 1] \in Pixel
      BY <1>2
    <2>2. channel[j + 1].max \in Int /\ channel[j + 1].min \in Int
      BY <2>1, Constants DEF Pixel
    <2>3. \A y \in Int : Between(0, y, y) = z * y
      <3> SUFFICES ASSUME NEW y \in Int
                   PROVE  (z - 0) * y + 0 * y = z * y
        BY DEF Between, z
      <3>1. QED
        BY <1>2
    <2>4. QED
      BY <1>1, <2>2, <2>3 DEF Mixed, z
  <1>8. QED
    BY <1>1, <1>2, <1>5, <1>6, <1>7, ShowPixelInv

LEMMA ReturnInv ==
  ASSUME Inv, Return
  PROVE  Inv'
  <1>1. /\ UNCHANGED blockVars /\ reading' = FALSE /\ new_pps' = new_pps
        /\ new_num_pix' = 0 /\ j' = 0 /\ shown' = NoPixel
    BY DEF Return
  <1>2. BlockInv'
    BY <1>1, UnchangedBlockInv DEF Inv
  <1>3. ViewType'
    <2>1. new_num_pix' \in Nat /\ j' \in 0 .. new_num_pix'
      BY <1>1
    <2>2. QED
      BY <1>1, <2>1, UndefinedIsNoPixel DEF Inv, ViewType
  <1>4. ReadingInv'
    BY <1>1, UndefinedIsNoPixel DEF ReadingInv
  <1>5. ShownInv'
    BY <1>1 DEF ShownInv
  <1>6. QED
    BY <1>2, <1>3, <1>4, <1>5 DEF Inv

LEMMA StutterInv ==
  ASSUME Inv, UNCHANGED vars
  PROVE  Inv'
  <1>1. UNCHANGED blockVars /\ UNCHANGED viewVars
    BY DEF vars
  <1>2. BlockInv'
    BY <1>1, UnchangedBlockInv DEF Inv
  <1>3. QED
    BY <1>1, <1>2 DEF Inv, ViewType, ReadingInv, ShownInv, blockVars, viewVars, ViewSize, Between, Mixed,
                       IsNear, IsWeight, Time, HasPps

(* Inv is an invariant: of blocks, of their views and of what is shown.    *)
THEOREM PixelsKeepInv == Spec => []Inv
  <1>1. Inv /\ [Next]_vars => Inv'
    <2>1. ASSUME Inv, NEW z \in Zooms, GetPixels(z)
          PROVE  Inv'
      BY <2>1, GetPixelsInv
    <2>2. QED
      BY <2>1, UpdateInv, ClonePixelInv, InterpolatePixelInv, ReturnInv, StutterInv DEF Next
  <1>2. QED
    BY InitInv, <1>1, PTL DEF Spec

-----------------------------------------------------------------------------
(* The properties.                                                         *)

(* TypeOK, whatever the constants are: among other things, an index of     *)
(* update() stays within the channel until the loop has ended.             *)
THEOREM TypeCorrect == Spec => []TypeOK
  <1>1. Inv => TypeOK
    BY TypeParts DEF Inv, BlockInv
  <1>2. QED
    BY <1>1, PixelsKeepInv, PTL

(* What has been seen of a window at the end is all of it.                 *)
LEMMA AllIsSeen ==
  ASSUME Inv, pc = "ready", NEW p \in 0 .. Len(channel) - 1
  PROVE  /\ Values(p) \subseteq Levels
         /\ IsMax(channel[p + 1].max, Values(p) \union {-Huge})
         /\ IsMin(channel[p + 1].min, Values(p) \union {Huge})
  <1>1. i = length /\ samples \in Seq(Levels) /\ Len(samples) = length
    BY DEF Inv, BlockInv, BlockType, PeakInv, i
  <1>2. \A k \in Window(p) : k < i /\ k + 1 \in 1 .. Len(samples)
    BY <1>1 DEF Window
  <1>3. Seen(p) = Values(p)
    BY <1>2 DEF Seen, Values
  <1>4. \A k \in Window(p) : samples[k + 1] \in Levels
    BY <1>1, <1>2
  <1>5. Values(p) \subseteq Levels
    BY <1>4 DEF Values
  <1>6. /\ IsMax(channel[p + 1].max, Seen(p) \union {-Huge})
        /\ IsMin(channel[p + 1].min, Seen(p) \union {Huge})
    BY DEF Inv, BlockInv, ContentInv
  <1>7. QED
    BY <1>3, <1>5, <1>6

(* update() adds every sample to the pixel of its window, and to no other, *)
(* for tracks and resolutions of any size.                                 *)
THEOREM EverySampleInItsPixel == Spec => []SamplesInTheirPixels
  <1>1. Inv => SamplesInTheirPixels
    <2> SUFFICES ASSUME Inv, pc = "ready", NEW p \in 0 .. Len(channel) - 1
                 PROVE  /\ channel[p + 1].max = Max(Values(p) \union {-Huge})
                        /\ channel[p + 1].min = Min(Values(p) \union {Huge})
      BY DEF SamplesInTheirPixels
    <2>1. Values(p) \union {-Huge} \subseteq Int /\ Values(p) \union {Huge} \subseteq Int
      <3>1. Values(p) \subseteq Levels
        BY AllIsSeen, Zenon
      <3>2. Levels \subseteq Int /\ -Huge \in Int /\ Huge \in Int
        BY Constants
      <3>3. QED
        BY <3>1, <3>2, Zenon
    <2>2. QED
      BY <2>1, AllIsSeen, TheMax, TheMin, Zenon
  <1>2. QED
    BY <1>1, PixelsKeepInv, PTL

LEMMA InvComparable == ASSUME Inv PROVE length \in Nat /\ FloatExact \in Nat
  BY Constants DEF Inv, BlockInv, BlockType

(* How many pixels a block has that a float counts without rounding.       *)
LEMMA ExactSize ==
  ASSUME Inv, pc # "empty", length <= FloatExact
  PROVE  /\ length \in Nat /\ SamplesPerPixel \in Nat \ {0} /\ ViewSize \in Nat
         /\ Len(channel) = ViewSize + 1
         /\ length <= ViewSize * SamplesPerPixel
         /\ length > 0 => (ViewSize - 1) * SamplesPerPixel < length
         /\ length = 0 => ViewSize = 0
  <1>1. length \in Nat /\ SamplesPerPixel \in Nat \ {0} /\ Len(channel) = PixelsPerChannel(length)
    BY SamplesPerPixelIsPositive, Constants DEF Inv, BlockInv, SizeInv
  <1> DEFINE c == CeilQuotient(ToFloat(length), SamplesPerPixel)
  <1>2. /\ c \in Nat /\ length <= c * SamplesPerPixel
        /\ length > 0 => (c - 1) * SamplesPerPixel < length
        /\ length = 0 => c = 0
    BY <1>1, Constants, ExactCeiling, Zenon
  <1>3. PixelsPerChannel(length) = c + 1
    BY DEF PixelsPerChannel
  <1> HIDE DEF c
  <1>4. ViewSize = c
    BY <1>1, <1>2, <1>3 DEF ViewSize
  <1>5. QED
    BY <1>1, <1>2, <1>3, <1>4

(* The fatal error of update() needs a track of more samples than a float  *)
(* counts exactly.                                                         *)
THEOREM OverrunsAreRoundingErrors == Spec => []OverrunNeedsRounding
  <1>1. Inv => OverrunNeedsRounding
    <2> SUFFICES ASSUME Inv, pc = "overrun", length <= FloatExact
                 PROVE  FALSE
      BY InvComparable DEF OverrunNeedsRounding
    <2> DEFINE b == SamplesPerPixel
    <2>1. /\ length \in Nat /\ b \in Nat \ {0} /\ ViewSize \in Nat
          /\ Len(channel) = ViewSize + 1 /\ length <= ViewSize * b
      BY ExactSize
    <2>2. i < length /\ pixel_idx >= Len(channel) /\ (pixel_idx - 1) * b < i
      BY DEF Inv, BlockInv, OverrunInv, IndexInv
    <2>3. pixel_idx \in Nat /\ i \in Nat
      BY DEF Inv, BlockInv, BlockType, i
    <2> HIDE DEF b
    <2>4. ViewSize * b <= (pixel_idx - 1) * b
      <3>1. CASE ViewSize = pixel_idx - 1
        BY <2>1, <3>1
      <3>2. CASE ViewSize < pixel_idx - 1
        <4>1. ViewSize * b + b <= (pixel_idx - 1) * b
          BY <2>1, <2>3, <3>2, ProductOrder
        <4>2. ViewSize * b \in Int /\ (pixel_idx - 1) * b \in Int
          BY <2>1, <2>3
        <4>3. QED
          BY <2>1, <4>1, <4>2
      <3>3. QED
        BY <2>1, <2>2, <2>3, <3>1, <3>2
    <2>5. ViewSize * b \in Int /\ (pixel_idx - 1) * b \in Int
      BY <2>1, <2>3
    <2>6. QED
      BY <2>1, <2>2, <2>3, <2>4, <2>5
  <1>2. QED
    BY <1>1, PixelsKeepInv, PTL

(* Every pixel of a view stands for samples, the one where it is drawn     *)
(* among them.                                                             *)
LEMMA PixelsHaveSamples ==
  ASSUME Inv, pc = "ready", length <= FloatExact, NEW p \in 0 .. ViewSize - 1
  PROVE  p * SamplesPerPixel \in Window(p)
  <1> DEFINE b == SamplesPerPixel
  <1>1. length \in Nat /\ b \in Nat \ {0} /\ ViewSize \in Nat /\ p \in Nat
    BY ExactSize
  <1>2. (ViewSize - 1) * b < length
    <2>1. ViewSize # 0
      BY <1>1
    <2>2. QED
      BY <1>1, <2>1, ExactSize
  <1> HIDE DEF b
  <1>3. p * b \in Nat /\ (p - 1) * b = p * b - b /\ (ViewSize - 1) * b \in Int
    BY <1>1
  <1>4. p * b <= (ViewSize - 1) * b
    <2>1. CASE p = ViewSize - 1
      BY <1>1, <1>3, <2>1
    <2>2. CASE p < ViewSize - 1
      <3>1. p * b + b <= (ViewSize - 1) * b
        BY <1>1, <2>2, ProductOrder
      <3>2. QED
        BY <1>1, <1>3, <3>1
    <2>3. QED
      BY <1>1, <2>1, <2>2
  <1>5. p * b \in 0 .. length - 1 /\ (p - 1) * b < p * b /\ p * b <= p * b
    BY <1>1, <1>2, <1>3, <1>4
  <1>6. QED
    BY <1>5 DEF Window, b

(* The spare pixel is the one that the exclusive end of a view leaves out, *)
(* no more and no less.                                                    *)
THEOREM ViewsFitTracks == Spec => []ViewFitsTrack
  <1>1. Inv => ViewFitsTrack
    <2> SUFFICES ASSUME Inv, pc = "ready", length <= FloatExact
                 PROVE  /\ \A p \in 0 .. ViewSize - 1 : Window(p) # {}
                        /\ length - 1 - (ViewSize - 1) * SamplesPerPixel < SamplesPerPixel
      BY DEF ViewFitsTrack
    <2>1. \A p \in 0 .. ViewSize - 1 : Window(p) # {}
      <3> SUFFICES ASSUME NEW p \in 0 .. ViewSize - 1
                   PROVE  Window(p) # {}
        OBVIOUS
      <3>1. p * SamplesPerPixel \in Window(p)
        BY PixelsHaveSamples
      <3>2. QED
        BY <3>1
    <2> DEFINE b == SamplesPerPixel
    <2>2. /\ length \in Nat /\ b \in Nat \ {0} /\ ViewSize \in Nat /\ length <= ViewSize * b
      BY ExactSize
    <2> HIDE DEF b
    <2>3. (ViewSize - 1) * b = ViewSize * b - b /\ ViewSize * b \in Nat
      BY <2>2
    <2>4. length - 1 - (ViewSize - 1) * b < b
      BY <2>2, <2>3
    <2>5. QED
      BY <2>1, <2>4 DEF b
  <1>2. QED
    BY <1>1, PixelsKeepInv, PTL

(* Index -1 is read for tracks of one pixel, whenever they are             *)
(* interpolated, and for tracks of no other length.                        *)
THEOREM UndefinedForShortTracks == Spec => []UndefinedForOnePixel
  <1>1. Inv => UndefinedForOnePixel
    <2> SUFFICES ASSUME Inv, reading, j > 0, length <= FloatExact
                 PROVE  shown = Undefined <=> length \in 1 .. SamplesPerPixel /\ ~HasPps(new_pps)
      BY Zenon DEF UndefinedForOnePixel
    <2>1. (shown = Undefined <=> ViewSize = 1 /\ ~HasPps(new_pps)) /\ pc = "ready" /\ ViewSize >= 1
      BY DEF Inv, ReadingInv
    <2> DEFINE b == SamplesPerPixel
    <2>2. /\ length \in Nat /\ b \in Nat \ {0} /\ ViewSize \in Nat /\ length <= ViewSize * b
          /\ length > 0 => (ViewSize - 1) * b < length
          /\ length = 0 => ViewSize = 0
      BY <2>1, ExactSize
    <2> HIDE DEF b
    <2>3. ViewSize = 1 => length \in 1 .. b
      BY <2>2
    <2>4. ViewSize # 1 => b < length
      <3>1. SUFFICES ASSUME ViewSize # 1
                     PROVE  b < length
        OBVIOUS
      <3>2. 1 * b <= (ViewSize - 1) * b
        BY <2>1, <2>2, <3>1, ScaledOrder
      <3>3. (ViewSize - 1) * b \in Int
        BY <2>2
      <3>4. QED
        BY <2>1, <2>2, <3>2, <3>3
    <2>5. ViewSize = 1 <=> length \in 1 .. b
      BY <2>2, <2>3, <2>4
    <2>6. QED
      BY <2>1, <2>5 DEF b
  <1>2. QED
    BY <1>1, PixelsKeepInv, PTL

(* Every sample is in the window of a pixel.                               *)
LEMMA SomeWindow ==
  ASSUME NEW k \in Nat, NEW b \in Nat \ {0}
  PROVE  \E p \in Nat : (p - 1) * b < k /\ k <= p * b
  <1> DEFINE q == k \div b
             r == k % b
  <1>1. q \in Nat /\ r \in 0 .. b - 1 /\ k = q * b + r
    BY Division, Zenon
  <1> HIDE DEF q, r
  <1>2. q * b \in Nat /\ (q - 1) * b = q * b - b /\ (q + 1) * b = q * b + b /\ (q + 1) - 1 = q
    BY <1>1
  <1>3. CASE r = 0
    <2>1. (q - 1) * b < k /\ k <= q * b
      BY <1>1, <1>2, <1>3
    <2>2. QED
      BY <1>1, <2>1
  <1>4. CASE r # 0
    <2> DEFINE p == q + 1
    <2>1. (p - 1) * b < k /\ k <= p * b /\ p \in Nat
      BY <1>1, <1>2, <1>4
    <2> HIDE DEF p
    <2>2. QED
      BY <2>1
  <1>5. QED
    BY <1>3, <1>4

(* A sample's pixel exists.                                                *)
LEMMA SamplesArePlaced ==
  ASSUME Inv, pc = "ready", NEW k \in 0 .. length - 1
  PROVE  \E p \in 0 .. Len(channel) - 1 : k \in Window(p)
  <1> DEFINE b == SamplesPerPixel
             N == Len(channel) - 1
  <1>1. length \in Nat /\ b \in Nat \ {0} /\ N \in Nat /\ i = length
    <2>1. N \in Nat
      BY BlockFacts DEF ViewSize
    <2>2. QED
      BY <2>1, InvComparable, SamplesPerPixelIsPositive DEF Inv, BlockInv, PeakInv
  <1>2. k <= N * b
    <2>1. pc # "empty" /\ PlacedInv
      BY DEF Inv, BlockInv
    <2>2. \A m \in 0 .. i - 1 : m <= N * b
      BY <2>1, Zenon DEF PlacedInv
    <2>3. k \in 0 .. i - 1
      BY <1>1
    <2>4. QED
      BY <2>2, <2>3, Zenon
  <1>3. PICK p \in Nat : (p - 1) * b < k /\ k <= p * b
    <2>1. k \in Nat
      BY <1>1
    <2>2. QED
      BY <1>1, <2>1, SomeWindow, Zenon
  <1>4. p <= N
    <2>1. SUFFICES ASSUME N < p
                   PROVE  FALSE
      BY <1>1
    <2> HIDE DEF N, b
    <2>2. N * b \in Int /\ (p - 1) * b \in Int
      BY <1>1
    <2>3. CASE N = p - 1
      BY <1>1, <1>2, <1>3, <2>2, <2>3
    <2>4. CASE N < p - 1
      <3>1. N * b + b <= (p - 1) * b
        BY <1>1, <2>4, ProductOrder
      <3>2. QED
        BY <1>1, <1>2, <1>3, <2>2, <3>1
    <2>5. QED
      BY <1>1, <2>1, <2>3, <2>4
  <1>5. p \in 0 .. N
    BY <1>1, <1>4
  <1>6. QED
    BY <1>3, <1>5 DEF Window

(* normalize() divides by the peaks of the track: pixels left without a    *)
(* sample do not matter.                                                   *)
THEOREM PeaksAreReached == Spec => []PeaksAreOfTheTrack
  <1> DEFINE all == {samples[k] : k \in DOMAIN samples}
             his == {channel[p].max : p \in DOMAIN channel} \union {-Huge}
             los == {channel[p].min : p \in DOMAIN channel} \union {Huge}
  <1>1. Inv => PeaksAreOfTheTrack
    <2> SUFFICES ASSUME Inv, pc = "ready", length > 0
                 PROVE  peak = [max |-> Max(all), min |-> Min(all)]
      BY DEF PeaksAreOfTheTrack
    <2>1. /\ samples \in Seq(Levels) /\ Len(samples) = length /\ length \in Nat
          /\ channel \in Seq(Pixel) /\ Len(channel) \in Nat
      BY BlockFacts, InvComparable DEF Inv, BlockInv, BlockType, PeakInv, i
    <2>2. peak = [max |-> Max(his), min |-> Min(los)]
      BY DEF Inv, BlockInv, PeakInv
    <2>3. all \subseteq -Huge .. Huge /\ all # {} /\ Huge \in Nat
      <3>1. \A k \in DOMAIN samples : samples[k] \in Levels
        BY <2>1
      <3>2. 1 \in DOMAIN samples
        BY <2>1
      <3>3. all \subseteq Levels /\ all # {}
        BY <3>1, <3>2, Zenon
      <3>4. QED
        BY <3>3, Constants, Zenon
    <2>4. PICK hi : IsMax(hi, all) /\ hi = Max(all)
      BY <2>3, MaxExists, Zenon
    <2>5. PICK lo : IsMin(lo, all) /\ lo = Min(all)
      BY <2>3, MinExists, Zenon
    <2>6. \A p \in DOMAIN channel :
             /\ channel[p].max \in all \union {-Huge} /\ channel[p].min \in all \union {Huge}
             /\ \A k \in 0 .. length - 1 : k \in Window(p - 1) =>
                  samples[k + 1] <= channel[p].max /\ channel[p].min <= samples[k + 1]
      <3> SUFFICES ASSUME NEW p \in DOMAIN channel
                   PROVE  /\ channel[p].max \in all \union {-Huge} /\ channel[p].min \in all \union {Huge}
                          /\ \A k \in 0 .. length - 1 : k \in Window(p - 1) =>
                               samples[k + 1] <= channel[p].max /\ channel[p].min <= samples[k + 1]
        OBVIOUS
      <3>1. p - 1 \in 0 .. Len(channel) - 1 /\ p = p - 1 + 1
        BY <2>1
      <3>2. /\ IsMax(channel[p].max, Values(p - 1) \union {-Huge})
            /\ IsMin(channel[p].min, Values(p - 1) \union {Huge})
        BY <3>1, AllIsSeen
      <3>3. Values(p - 1) \subseteq all
        <4>1. \A k \in Window(p - 1) : k + 1 \in DOMAIN samples
          BY <2>1 DEF Window
        <4>2. QED
          BY <4>1 DEF Values
      <3>4. \A k \in 0 .. length - 1 : k \in Window(p - 1) => samples[k + 1] \in Values(p - 1)
        BY DEF Values
      <3> HIDE DEF all
      <3>5. QED
        BY <3>2, <3>3, <3>4, Zenon DEF IsMax, IsMin
    <2>7. hi \in his /\ lo \in los
      <3>1. PICK k \in DOMAIN samples : hi = samples[k]
        BY <2>4 DEF IsMax
      <3>2. PICK m \in DOMAIN samples : lo = samples[m]
        BY <2>5 DEF IsMin
      <3>3. k - 1 \in 0 .. length - 1 /\ k - 1 + 1 = k /\ m - 1 \in 0 .. length - 1 /\ m - 1 + 1 = m
        BY <2>1
      <3>4. PICK p \in 0 .. Len(channel) - 1 : k - 1 \in Window(p)
        BY <3>3, SamplesArePlaced
      <3>5. PICK r \in 0 .. Len(channel) - 1 : m - 1 \in Window(r)
        BY <3>3, SamplesArePlaced
      <3>6. p + 1 \in DOMAIN channel /\ p + 1 - 1 = p /\ r + 1 \in DOMAIN channel /\ r + 1 - 1 = r
        BY <2>1
      <3>7. hi <= channel[p + 1].max /\ channel[r + 1].min <= lo
        BY <2>6, <3>1, <3>2, <3>3, <3>4, <3>5, <3>6
      <3>8. channel[p + 1].max \in all \union {-Huge} /\ channel[r + 1].min \in all \union {Huge}
        BY <2>6, <3>6
      <3>9. channel[p + 1].max <= hi /\ lo <= channel[r + 1].min
        <4> HIDE DEF all
        <4>1. hi \in -Huge .. Huge /\ lo \in -Huge .. Huge
          BY <2>3, <2>4, <2>5, Zenon DEF IsMax, IsMin
        <4>2. -Huge <= hi /\ lo <= Huge
          BY <2>3, <4>1
        <4>3. QED
          BY <2>4, <2>5, <3>8, <4>2 DEF IsMax, IsMin
      <3>10. hi = channel[p + 1].max /\ lo = channel[r + 1].min
        <4> HIDE DEF all
        <4>1. hi \in all /\ lo \in all
          BY <2>4, <2>5, Zenon DEF IsMax, IsMin
        <4>2. \A x \in all \union {Huge, -Huge} : x \in Int
          BY <2>3
        <4>3. hi \in Int /\ lo \in Int /\ channel[p + 1].max \in Int /\ channel[r + 1].min \in Int
          BY <3>8, <4>1, <4>2, Zenon
        <4> DEFINE x == channel[p + 1].max
                   y == channel[r + 1].min
        <4>4. hi <= x /\ x <= hi /\ y <= lo /\ lo <= y /\ x \in Int /\ y \in Int
          BY <3>7, <3>9, <4>3
        <4> HIDE DEF x, y
        <4>5. hi = x /\ lo = y
          BY <4>3, <4>4
        <4>6. QED
          BY <4>5 DEF x, y
      <3>11. QED
        BY <3>6, <3>10
    <2>8. his \subseteq all \union {-Huge} /\ los \subseteq all \union {Huge}
      <3> HIDE DEF all
      <3>1. QED
        BY <2>6
    <2> HIDE DEF all, his, los
    <2>9. hi \in -Huge .. Huge /\ lo \in -Huge .. Huge
      BY <2>3, <2>4, <2>5, Zenon DEF IsMax, IsMin
    <2>10. \A x \in all \union {-Huge} : x <= hi
      BY <2>3, <2>4, <2>9 DEF IsMax
    <2>11. \A x \in all \union {Huge} : lo <= x
      BY <2>3, <2>5, <2>9 DEF IsMin
    <2>12. his \subseteq Int /\ los \subseteq Int
      BY <2>3, <2>8
    <2>13. IsMax(hi, his) /\ IsMin(lo, los)
      BY <2>7, <2>8, <2>10, <2>11, Zenon DEF IsMax, IsMin
    <2>14. Max(his) = hi /\ Min(los) = lo
      BY <2>12, <2>13, TheMax, TheMin, Zenon
    <2>15. QED
      BY <2>2, <2>4, <2>5, <2>14
  <1>2. QED
    BY <1>1, PixelsKeepInv, PTL

-----------------------------------------------------------------------------
(* What is shown.                                                          *)

LEMMA Convex ==
  ASSUME NEW z \in Nat, NEW k \in 0 .. z,
         NEW x0 \in Int, NEW x1 \in Int, NEW y0 \in Int, NEW y1 \in Int, x0 <= y0, x1 <= y1
  PROVE  (z - k) * x0 + k * x1 <= (z - k) * y0 + k * y1
  <1>1. z - k \in Nat /\ k \in Nat
    OBVIOUS
  <1> DEFINE m == z - k
  <1> HIDE DEF m
  <1>2. m * x0 <= m * y0 /\ k * x1 <= k * y1 /\ m * x0 \in Int /\ m * y0 \in Int
        /\ k * x1 \in Int /\ k * y1 \in Int
    BY <1>1, ScaledOrder DEF m
  <1>3. m * x0 + k * x1 <= m * y0 + k * y1
    BY <1>2
  <1>4. QED
    BY <1>3 DEF m

(* What is off by m times a difference of at most w, for m up to z / K.    *)
LEMMA Extrapolated ==
  ASSUME NEW z \in Nat, NEW K \in Nat, NEW m \in Nat, K * m <= z, NEW w \in Nat,
         NEW lo \in Int, NEW hi \in Int, NEW y \in Int, NEW d \in Int,
         lo <= y, y <= hi, d <= w, -d <= w
  PROVE  /\ K * (z * lo) - z * w <= K * (z * y + m * d)
         /\ K * (z * y + m * d) <= K * (z * hi) + z * w
  <1>1. m * d <= m * w /\ m * (-d) <= m * w /\ m * w \in Nat /\ m * d \in Int /\ m * (-d) = -(m * d)
    <2>1. m * d <= m * w /\ m * (-d) <= m * w
      BY ScaledOrder
    <2>2. QED
      BY <2>1
  <1> DEFINE x == m * d
             u == m * w
  <1>2. x \in Int /\ u \in Nat /\ x <= u /\ -x <= u
    BY <1>1
  <1>3. K * u <= z * w /\ z * w \in Nat
    <2>1. K * m \in Nat /\ K * u = (K * m) * w
      OBVIOUS
    <2>2. (K * m) * w <= z * w
      BY <2>1, ScaledOrder
    <2>3. QED
      BY <2>1, <2>2
  <1>4. z * lo <= z * y /\ z * y <= z * hi /\ z * lo \in Int /\ z * y \in Int /\ z * hi \in Int
    BY ScaledOrder
  <1> DEFINE a == z * lo
             b == z * y
             c == z * hi
             e == z * w
  <1>5. a <= b /\ b <= c /\ a \in Int /\ b \in Int /\ c \in Int /\ e \in Nat /\ K * u <= e
    BY <1>3, <1>4
  <1> HIDE DEF x, u, a, b, c, e
  <1>6. /\ K * a <= K * b /\ K * b <= K * c /\ K * x <= K * u /\ K * (-x) <= K * u
        /\ K * a \in Int /\ K * b \in Int /\ K * c \in Int /\ K * x \in Int /\ K * u \in Int
    <2>1. -x \in Int /\ u \in Int
      BY <1>2
    <2>2. QED
      BY <1>2, <1>5, <2>1, ScaledOrder
  <1>7. K * (-x) = -(K * x) /\ K * (b + x) = K * b + K * x
    BY <1>2, <1>5
  <1>8. K * a - e <= K * (b + x) /\ K * (b + x) <= K * c + e
    BY <1>2, <1>5, <1>6, <1>7
  <1>9. QED
    BY <1>8 DEF x, a, b, c, e

(* A mixture of two numbers between lo and hi, with weights that are out   *)
(* of range by z / K at most, is out of range by that share of hi - lo.    *)
LEMMA Mixture ==
  ASSUME NEW z \in Nat, NEW K \in Nat, NEW k \in Int, K * (-k) <= z, K * (k - z) <= z,
         NEW lo \in Int, NEW hi \in Int, NEW y0 \in Int, NEW y1 \in Int,
         lo <= y0, y0 <= hi, lo <= y1, y1 <= hi
  PROVE  /\ K * (z * lo) - z * (hi - lo) <= K * ((z - k) * y0 + k * y1)
         /\ K * ((z - k) * y0 + k * y1) <= K * (z * hi) + z * (hi - lo)
  <1> DEFINE w == hi - lo
             d == y1 - y0
             v == (z - k) * y0 + k * y1
  <1>1. w \in Nat /\ d \in Int /\ -d \in Int /\ d <= w /\ -d <= w /\ -(-d) <= w
    OBVIOUS
  <1>2. CASE k < 0
    <2>1. -k \in Nat
      BY <1>2
    <2>2. v = z * y0 + (-k) * (-d)
      <3>1. (z - k) * y0 = z * y0 - k * y0 /\ (-k) * (-d) = k * y1 - k * y0
        OBVIOUS
      <3>2. z * y0 \in Int /\ k * y0 \in Int /\ k * y1 \in Int
        OBVIOUS
      <3>3. QED
        BY <3>1, <3>2
    <2> HIDE DEF w, d, v
    <2>3. QED
      BY <1>1, <2>1, <2>2, Extrapolated DEF w, v
  <1>3. CASE z < k
    <2>1. k - z \in Nat
      BY <1>3
    <2>2. v = z * y1 + (k - z) * d
      <3>1. (z - k) * y0 = z * y0 - k * y0 /\ (k - z) * d = k * y1 - k * y0 - z * y1 + z * y0
        OBVIOUS
      <3>2. z * y0 \in Int /\ k * y0 \in Int /\ k * y1 \in Int /\ z * y1 \in Int
        OBVIOUS
      <3>3. QED
        BY <3>1, <3>2
    <2> HIDE DEF w, d, v
    <2>3. QED
      BY <1>1, <2>1, <2>2, Extrapolated DEF w, v
  <1>4. CASE k \in 0 .. z
    <2>1. (z - k) * lo + k * lo = z * lo /\ (z - k) * hi + k * hi = z * hi
      BY <1>4
    <2>2. z * lo <= v /\ v <= z * hi
      BY <1>4, <2>1, Convex
    <2>3. v \in Int /\ z * lo \in Int /\ z * hi \in Int /\ z * w \in Nat
      <3>1. (z - k) * y0 \in Int /\ k * y1 \in Int
        OBVIOUS
      <3>2. QED
        BY <1>1, <3>1
    <2> DEFINE a == z * lo
               b == z * hi
               e == z * w
    <2>4. a <= v /\ v <= b /\ a \in Int /\ b \in Int /\ v \in Int /\ e \in Nat
      BY <2>2, <2>3
    <2> HIDE DEF v, a, b, e
    <2>5. K * a <= K * v /\ K * v <= K * b /\ K * a \in Int /\ K * v \in Int /\ K * b \in Int
      BY <2>4, ScaledOrder
    <2>6. K * a - e <= K * v /\ K * v <= K * b + e
      BY <2>4, <2>5
    <2>7. QED
      BY <2>6 DEF v, a, b, e
  <1>5. QED
    BY <1>2, <1>3, <1>4

(* The extremes of a pixel of the view are samples of its window.          *)
LEMMA ExtremesAreSamples ==
  ASSUME Inv, pc = "ready", length <= FloatExact, NEW p \in 0 .. ViewSize - 1
  PROVE  /\ channel[p + 1].max \in Values(p) /\ channel[p + 1].min \in Values(p)
         /\ channel[p + 1].min <= channel[p + 1].max
  <1>1. p \in 0 .. Len(channel) - 1
    BY BlockFacts DEF ViewSize
  <1>2. /\ Values(p) \subseteq Levels
        /\ IsMax(channel[p + 1].max, Values(p) \union {-Huge})
        /\ IsMin(channel[p + 1].min, Values(p) \union {Huge})
    BY <1>1, AllIsSeen, Zenon
  <1>3. PICK x : x \in Values(p)
    BY PixelsHaveSamples DEF Values
  <1>4. Values(p) \subseteq -Huge .. Huge /\ Huge \in Nat
    BY <1>2, Constants
  <1>5. channel[p + 1].max \in Values(p)
    BY <1>2, <1>3, <1>4 DEF IsMax
  <1>6. channel[p + 1].min \in Values(p)
    BY <1>2, <1>3, <1>4 DEF IsMin
  <1>7. QED
    BY <1>2, <1>5, <1>6, Zenon DEF IsMin

(* The device is never shown a level that the track has not near that      *)
(* time, but for a rounding, at any zoom level.                            *)
THEOREM ShownIsNear == Spec => []ShownNearItsTime
  <1>1. Inv => ShownNearItsTime
    <2> DEFINE z == new_pps.num
               Off(p) == Precision * (Time(j - 1) - p * z)
               Close(p) == Off(p) <= (2 * Precision + 1) * z /\ -Off(p) <= (2 * Precision + 1) * z
               near == UNION {Values(p) : p \in {q \in 0 .. ViewSize - 1 : Close(q)}}
               lo == Min(near)
               hi == Max(near)
    <2> SUFFICES ASSUME Inv, reading, j > 0, shown # Undefined, length <= FloatExact,
                        NEW v \in {shown.min, shown.max}
                 PROVE  /\ Precision * z * lo - z * (hi - lo) <= Precision * v
                        /\ Precision * v <= Precision * z * hi + z * (hi - lo)
      BY Zenon DEF ShownNearItsTime
    <2>1. PICK a \in 0 .. ViewSize - 1, b \in 0 .. ViewSize - 1, k \in Int :
             IsNear(a, j - 1) /\ IsNear(b, j - 1) /\ IsWeight(k) /\ shown = Mixed(a, b, k)
      BY Zenon DEF Inv, ShownInv
    <2>2. /\ pc = "ready" /\ z \in Nat /\ Precision \in Nat /\ ViewSize \in Nat
          /\ Precision * (-k) <= z /\ Precision * (k - z) <= z
      BY <2>1, BlockFacts DEF Inv, ReadingInv, IsWeight
    <2>3. Values(a) \subseteq near /\ Values(b) \subseteq near
      <3>1. Close(a) /\ Close(b)
        BY <2>1, Zenon DEF IsNear
      <3> HIDE DEF Close
      <3>2. QED
        BY <2>1, <3>1, Zenon
    <2>4. near \subseteq -Huge .. Huge /\ Huge \in Nat
      <3>1. \A p \in 0 .. ViewSize - 1 : Values(p) \subseteq -Huge .. Huge
        <4> SUFFICES ASSUME NEW p \in 0 .. ViewSize - 1
                     PROVE  Values(p) \subseteq -Huge .. Huge
          OBVIOUS
        <4>1. p \in 0 .. Len(channel) - 1
          BY <2>2, BlockFacts DEF ViewSize
        <4>2. Values(p) \subseteq Levels
          BY <2>2, <4>1, AllIsSeen, Zenon
        <4>3. QED
          BY <4>2, Constants, Zenon
      <3> HIDE DEF Close
      <3>2. near \subseteq -Huge .. Huge
        BY <3>1, Zenon
      <3>3. QED
        BY <3>2, Constants
    <2> HIDE DEF near
    <2>5. /\ channel[a + 1].max \in near /\ channel[a + 1].min \in near
          /\ channel[b + 1].max \in near /\ channel[b + 1].min \in near
      BY <2>2, <2>3, ExtremesAreSamples, Zenon
    <2>6. IsMin(lo, near) /\ IsMax(hi, near)
      BY <2>4, <2>5, MinExists, MaxExists, Zenon
    <2> HIDE DEF lo, hi
    <2>7. \A x \in near : x \in Int /\ lo <= x /\ x <= hi
      BY <2>4, <2>6 DEF IsMin, IsMax
    <2>8. lo \in Int /\ hi \in Int
      BY <2>6, <2>7, Zenon DEF IsMin, IsMax
    <2>9. PICK y0 \in near, y1 \in near : v = Between(k, y0, y1)
      <3>1. \/ v = Between(k, channel[a + 1].max, channel[b + 1].max)
            \/ v = Between(k, channel[a + 1].min, channel[b + 1].min)
        BY <2>1 DEF Mixed
      <3>2. QED
        BY <2>5, <3>1, Zenon
    <2>10. /\ y0 \in Int /\ y1 \in Int /\ lo <= y0 /\ y0 <= hi /\ lo <= y1 /\ y1 <= hi
           /\ v = (z - k) * y0 + k * y1
      BY <2>7, <2>9, Zenon DEF Between
    <2> HIDE DEF z
    <2>11. /\ Precision * (z * lo) - z * (hi - lo) <= Precision * ((z - k) * y0 + k * y1)
           /\ Precision * ((z - k) * y0 + k * y1) <= Precision * (z * hi) + z * (hi - lo)
      BY <2>2, <2>8, <2>10, Mixture
    <2>12. Precision * z * lo = Precision * (z * lo) /\ Precision * z * hi = Precision * (z * hi)
      BY <2>2, <2>8
    <2>13. QED
      BY <2>10, <2>11, <2>12
  <1>2. QED
    BY <1>1, PixelsKeepInv, PTL

=============================================================================
