--------------------------- MODULE PixelFoldProofs ---------------------------
(***************************************************************************)
(* Proofs about the two results of PixelBlock and PixelView that are       *)
(* defined by a fold: the sum of the squares of a window's samples, and    *)
(* the concatenation of the messages of a reply.                           *)
(*                                                                         *)
(* A fold is the value that CHOOSE finds for its recursive equation.  Each *)
(* proof names a function that solves the equation, and shows by a least   *)
(* counterexample that no other function does.                             *)
(***************************************************************************)
EXTENDS PixelProofs, FiniteSetTheorems, SequenceTheorems

-----------------------------------------------------------------------------
(* The sum of squares.                                                     *)

Square(v, k) == v[k + 1] * v[k + 1]

(* g adds up the squares of the samples v of every subset of S, in any     *)
(* order.                                                                  *)
AddsSquares(v, g, S) ==
  /\ g \in [SUBSET S -> Int]
  /\ g[{}] = 0
  /\ \A T \in SUBSET S : \A k \in S \ T : g[T \union {k}] = g[T] + Square(v, k)

(* The fold's equation.                                                    *)
FoldStep(v, g, T) ==
  IF T = {} THEN 0 ELSE LET k == CHOOSE x \in T : TRUE IN Square(v, k) + g[T \ {k}]
IsFold(v, g, S) == g = [T \in SUBSET S |-> FoldStep(v, g, T)]

LEMMA FoldIsChosen ==
  ASSUME NEW v, NEW S
  PROVE  MapThenSumSet(LAMBDA k : v[k + 1] * v[k + 1], S) = (CHOOSE g : IsFold(v, g, S))[S]
  BY Zenon DEF MapThenSumSet, MapThenFoldSet, IsFold, FoldStep, Square

LEMMA FoldExists ==
  ASSUME NEW v, NEW S, NEW g, AddsSquares(v, g, S), \A k \in S : Square(v, k) \in Int
  PROVE  IsFold(v, g, S)
  <1>1. ASSUME NEW T \in SUBSET S
        PROVE  g[T] = FoldStep(v, g, T)
    <2>1. CASE T = {}
      BY <2>1 DEF FoldStep, AddsSquares
    <2>2. CASE T # {}
      <3> DEFINE k == CHOOSE x \in T : TRUE
                 R == T \ {k}
      <3>1. k \in T
        BY <2>2
      <3> HIDE DEF k
      <3>2. R \in SUBSET S /\ k \in S \ R /\ R \union {k} = T
        BY <3>1
      <3>3. g[T] = g[R] + Square(v, k) /\ g[R] \in Int /\ Square(v, k) \in Int
        BY <3>2 DEF AddsSquares
      <3>4. g[T] = Square(v, k) + g[R]
        BY <3>3
      <3>5. QED
        BY <2>2, <3>4 DEF FoldStep, k
    <2>3. QED
      BY <2>1, <2>2
  <1>2. g \in [SUBSET S -> Int]
    BY DEF AddsSquares
  <1>3. QED
    BY <1>1, <1>2 DEF IsFold

LEMMA FoldIsUnique ==
  ASSUME NEW v, NEW S, IsFiniteSet(S), NEW g, NEW h, IsFold(v, g, S), IsFold(v, h, S)
  PROVE  g[S] = h[S]
  <1> DEFINE Wrong == {T \in SUBSET S : g[T] # h[T]}
             Sizes == {Cardinality(T) : T \in Wrong}
  <1>1. SUFFICES ASSUME S \in Wrong
                 PROVE  FALSE
    OBVIOUS
  <1>2. \A T \in SUBSET S : IsFiniteSet(T) /\ Cardinality(T) \in Nat
    BY FS_Subset, FS_CardinalityType
  <1>3. PICK n \in Sizes : \A m \in Sizes : n <= m
    <2>1. Sizes \subseteq Nat /\ Sizes # {}
      BY <1>1, <1>2
    <2>2. QED
      BY <2>1, LeastNatural, Zenon
  <1>4. PICK T \in Wrong : n = Cardinality(T)
    BY <1>3
  <1>5. g[T] = FoldStep(v, g, T) /\ h[T] = FoldStep(v, h, T)
    BY Zenon DEF IsFold
  <1>6. T # {}
    BY <1>5 DEF FoldStep
  <1> DEFINE k == CHOOSE x \in T : TRUE
             R == T \ {k}
  <1>7. k \in T
    BY <1>6
  <1>8. R \in SUBSET S /\ Cardinality(R) = Cardinality(T) - 1
    BY <1>2, <1>7, FS_RemoveElement
  <1>9. R \notin Wrong
    <2>1. Cardinality(T) \in Nat /\ ~(Cardinality(T) <= Cardinality(T) - 1)
      BY <1>2
    <2>2. QED
      BY <1>3, <1>4, <1>8, <2>1
  <1>10. g[R] = h[R]
    BY <1>8, <1>9
  <1>11. QED
    BY <1>5, <1>6, <1>10 DEF FoldStep

(* MapThenSumSet is what any function gives that adds up squares.          *)
LEMMA SumOfSquares ==
  ASSUME NEW v, NEW S, IsFiniteSet(S), NEW g, AddsSquares(v, g, S), \A k \in S : Square(v, k) \in Int
  PROVE  MapThenSumSet(LAMBDA k : v[k + 1] * v[k + 1], S) = g[S]
  <1>1. IsFold(v, g, S)
    BY FoldExists, Zenon
  <1>2. IsFold(v, CHOOSE f : IsFold(v, f, S), S)
    BY <1>1, Zenon
  <1>3. QED
    BY <1>1, <1>2, FoldIsChosen, FoldIsUnique, Zenon

(* A function that adds up squares can be extended by one more.            *)
LEMMA OneMoreSquare ==
  ASSUME NEW v, NEW S, NEW x, x \notin S, NEW g, AddsSquares(v, g, S), \A k \in S \union {x} : Square(v, k) \in Int
  PROVE  \E h : AddsSquares(v, h, S \union {x}) /\ h[S \union {x}] = g[S] + Square(v, x)
  <1> DEFINE X == S \union {x}
             h == [T \in SUBSET X |-> IF x \in T THEN g[T \ {x}] + Square(v, x) ELSE g[T]]
  <1>1. \A T \in SUBSET X : T \ {x} \in SUBSET S /\ (x \notin T => T \in SUBSET S)
    OBVIOUS
  <1>2. \A T \in SUBSET S : g[T] \in Int
    BY DEF AddsSquares
  <1>3. h \in [SUBSET X -> Int]
    <2>1. ASSUME NEW T \in SUBSET X
          PROVE  (IF x \in T THEN g[T \ {x}] + Square(v, x) ELSE g[T]) \in Int
      <3>1. Square(v, x) \in Int /\ g[T \ {x}] \in Int /\ (x \notin T => g[T] \in Int)
        BY <1>1, <1>2
      <3>2. QED
        BY <3>1
    <2>2. QED
      BY <2>1
  <1>4. h[{}] = 0
    BY DEF AddsSquares
  <1>5. ASSUME NEW T \in SUBSET X, NEW k \in X \ T
        PROVE  h[T \union {k}] = h[T] + Square(v, k)
    <2>1. T \union {k} \in SUBSET X
      OBVIOUS
    <2>2. CASE k = x
      <3>1. (T \union {k}) \ {x} = T /\ x \in T \union {k} /\ x \notin T
        BY <2>2
      <3>2. h[T \union {k}] = g[T] + Square(v, x) /\ h[T] = g[T]
        BY <2>1, <3>1
      <3>3. QED
        BY <2>2, <3>2
    <2>3. CASE k # x /\ x \in T
      <3> DEFINE R == T \ {x}
      <3>1. R \in SUBSET S /\ k \in S \ R /\ (T \union {k}) \ {x} = R \union {k} /\ x \in T \union {k}
        BY <2>3
      <3>2. g[R \union {k}] = g[R] + Square(v, k)
        BY <3>1 DEF AddsSquares
      <3>3. h[T \union {k}] = g[R \union {k}] + Square(v, x) /\ h[T] = g[R] + Square(v, x)
        BY <2>1, <2>3, <3>1
      <3>4. g[R] \in Int /\ Square(v, x) \in Int /\ Square(v, k) \in Int
        BY <1>2, <3>1
      <3> HIDE DEF R, h
      <3>5. QED
        BY <3>2, <3>3, <3>4
    <2>4. CASE k # x /\ x \notin T
      <3>1. T \in SUBSET S /\ k \in S \ T /\ x \notin T \union {k}
        BY <2>4
      <3>2. g[T \union {k}] = g[T] + Square(v, k)
        BY <3>1 DEF AddsSquares
      <3>3. h[T \union {k}] = g[T \union {k}] /\ h[T] = g[T]
        BY <2>1, <3>1
      <3>4. QED
        BY <3>2, <3>3
    <2>5. QED
      BY <2>2, <2>3, <2>4
  <1>6. h[X] = g[S] + Square(v, x)
    <2>1. X \in SUBSET X /\ x \in X /\ X \ {x} = S
      OBVIOUS
    <2>2. QED
      BY <2>1
  <1> HIDE DEF h
  <1>7. QED
    BY <1>3, <1>4, <1>5, <1>6, Zenon DEF AddsSquares

-----------------------------------------------------------------------------
(* What the loop has added up.                                             *)

(* The samples of a window that the loop has read.                         *)
SeenAt(p) == {k \in Window(p) : k < i}

(* A pixel's sum is that of the samples read so far that are in its window *)
SumInv ==
  pc # "empty" =>
    \A p \in 0 .. Len(channel) - 1 :
      \E g : AddsSquares(samples, g, SeenAt(p)) /\ channel[p + 1].sum = g[SeenAt(p)]

(* ... and once they are all read, it is known how many there are.         *)
OverInv ==
  pc # "empty" =>
    \A p \in 1 .. Len(channel) - 1 :
      p * SamplesPerPixel < i => channel[p + 1].over = SamplesPerPixel

LEMMA EmptySum == \E g : AddsSquares(samples, g, {}) /\ g[{}] = 0
  <1> DEFINE g == [T \in SUBSET {} |-> 0]
  <1>1. g \in [SUBSET {} -> Int] /\ g[{}] = 0
    OBVIOUS
  <1>2. QED
    BY <1>1 DEF AddsSquares

LEMMA SquaresAreIntegers ==
  ASSUME BlockInv, NEW k \in Nat, k < i
  PROVE  Square(samples, k) \in Int
  <1>1. samples[k + 1] \in Levels
    BY DEF BlockInv, BlockType, i
  <1>2. samples[k + 1] \in Int
    BY <1>1, Constants
  <1>3. QED
    BY <1>2 DEF Square

LEMMA WithSum ==
  ASSUME NEW pixel, NEW s
  PROVE  /\ With(pixel, s).sum = pixel.sum + s * s
         /\ With(pixel, s).over = IF PixelIsComplete THEN SamplesPerPixel - Collected ELSE 0
  <1> DEFINE hi == Max({pixel.max, s})
             lo == Min({pixel.min, s})
             sum == pixel.sum + s * s
             over == IF PixelIsComplete THEN SamplesPerPixel - Collected ELSE 0
  <1>1. With(pixel, s) = [max |-> hi, min |-> lo, sum |-> sum, over |-> over]
    BY DEF With
  <1> HIDE DEF hi, lo, sum, over
  <1>2. With(pixel, s).sum = sum /\ With(pixel, s).over = over
    BY <1>1
  <1>3. QED
    BY <1>2 DEF sum, over

LEMMA BeginUpdateSums ==
  ASSUME BlockInv, NEW n \in Lengths, BeginUpdate(n)
  PROVE  SumInv' /\ OverInv'
  <1>1. /\ pps' = pps /\ length' = n /\ samples' = <<>> /\ pc' = "update"
        /\ channel' = [p \in 1 .. PixelsPerChannel(n) |-> Fresh]
    BY DEF BeginUpdate
  <1>2. SamplesPerPixel' = SamplesPerPixel /\ SamplesPerPixel \in Nat \ {0} /\ i' = 0
    BY <1>1, SamplesPerPixelIsPositive DEF SamplesPerPixel, i, BlockInv
  <1>3. PixelsPerChannel(n) \in Nat
    BY PixelNumber DEF BlockInv, BlockType
  <1>4. SumInv'
    <2> SUFFICES ASSUME NEW p \in 0 .. Len(channel') - 1
                 PROVE  \E g : AddsSquares(samples', g, SeenAt(p)') /\ channel'[p + 1].sum = g[SeenAt(p)']
      BY DEF SumInv
    <2>1. SeenAt(p)' = {}
      BY <1>2 DEF SeenAt, Window
    <2>2. channel'[p + 1].sum = 0
      BY <1>1, <1>3 DEF Fresh
    <2>3. PICK g : g \in [SUBSET {} -> Int] /\ g[{}] = 0
      BY EmptySum DEF AddsSquares
    <2>4. AddsSquares(samples', g, SeenAt(p)')
      BY <2>1, <2>3 DEF AddsSquares
    <2>5. QED
      BY <2>1, <2>2, <2>3, <2>4
  <1>5. OverInv'
    <2>1. ASSUME NEW p \in 1 .. Len(channel') - 1
          PROVE  ~(p * SamplesPerPixel' < i')
      <3>1. p \in Nat /\ p * SamplesPerPixel \in Nat
        BY <1>2
      <3>2. QED
        BY <1>2, <3>1
    <2>2. QED
      BY <2>1 DEF OverInv
  <1>6. QED
    BY <1>4, <1>5

(* The new sample is added to the pixel whose window it is in.             *)
LEMMA SeenAtGrows ==
  ASSUME BlockInv, NEW s \in Levels, AddSample(s), NEW p \in Nat
  PROVE  /\ SeenAt(p) \subseteq Nat /\ \A k \in SeenAt(p) : k < i
         /\ SeenAt(p)' = IF p = pixel_idx THEN SeenAt(p) \union {i} ELSE SeenAt(p)
         /\ i \in Nat /\ i' = i + 1
         /\ \A k \in Nat : /\ k = i => Square(samples', k) = s * s
                           /\ k < i => Square(samples', k) = Square(samples, k)
  <1> DEFINE b == SamplesPerPixel
  <1>1. b \in Nat \ {0} /\ i \in Nat /\ pixel_idx \in Nat /\ samples \in Seq(Levels) /\ length \in Nat
    BY SamplesPerPixelIsPositive, Constants DEF BlockInv, BlockType, i
  <1>2. samples' = Append(samples, s) /\ i' = i + 1 /\ i = Len(samples) /\ i < length
    BY <1>1 DEF AddSample, i
  <1>3. samples'[i + 1] = s /\ \A k \in Nat : k < i => samples'[k + 1] = samples[k + 1]
    BY <1>1, <1>2
  <1>4. Window(p)' = Window(p) /\ Window(p) \subseteq Nat
    BY <1>1 DEF AddSample, Window, SamplesPerPixel
  <1>5. i \in Window(p) <=> p = pixel_idx
    <2>1. (pixel_idx - 1) * b < i /\ i <= pixel_idx * b
      BY NextIndex
    <2>2. i \in Window(p) <=> (p - 1) * b < i /\ i <= p * b
      BY <1>1, <1>2 DEF Window
    <2>3. (p - 1) * b < i /\ i <= p * b => p = pixel_idx
      BY <1>1, <2>1, OneWindow
    <2>4. QED
      BY <2>1, <2>2, <2>3
  <1>6. SeenAt(p)' = {k \in Window(p) : k < i + 1}
    BY <1>2, <1>4 DEF SeenAt
  <1>7. SeenAt(p)' = IF i \in Window(p) THEN SeenAt(p) \union {i} ELSE SeenAt(p)
    BY <1>1, <1>4, <1>6 DEF SeenAt
  <1>8. ASSUME NEW k \in Nat
        PROVE  /\ k = i => Square(samples', k) = s * s
               /\ k < i => Square(samples', k) = Square(samples, k)
    <2>1. /\ k = i => samples'[k + 1] = s
          /\ k < i => samples'[k + 1] = samples[k + 1]
      BY <1>3
    <2>2. QED
      BY <2>1, Zenon DEF Square
  <1>9. QED
    BY <1>1, <1>2, <1>4, <1>5, <1>7, <1>8 DEF SeenAt

LEMMA AddSampleSums ==
  ASSUME BlockInv, SumInv, NEW s \in Levels, AddSample(s)
  PROVE  SumInv'
  <1>1. /\ channel \in Seq(Pixel) /\ pc = "update" /\ pc' = "update" /\ s \in Int
        /\ pixel_idx \in Nat
    BY Constants DEF AddSample, BlockInv, BlockType
  <1>2. /\ Len(channel') = Len(channel) /\ Len(channel) \in Nat
        /\ \A p \in 0 .. Len(channel) - 1 :
              channel'[p + 1] = IF p = pixel_idx THEN With(channel[p + 1], s) ELSE channel[p + 1]
    BY <1>1 DEF AddSample
  <1> SUFFICES ASSUME NEW p \in 0 .. Len(channel) - 1
               PROVE  \E g : AddsSquares(samples', g, SeenAt(p)') /\ channel'[p + 1].sum = g[SeenAt(p)']
    BY <1>2 DEF SumInv
  <1> DEFINE S == SeenAt(p)
             w == samples'
  <1>3. PICK g : AddsSquares(samples, g, S) /\ channel[p + 1].sum = g[S]
    BY <1>1 DEF SumInv
  <1>4. p \in Nat
    BY <1>2
  <1>5. /\ S \subseteq Nat /\ \A k \in S : k < i
        /\ SeenAt(p)' = IF p = pixel_idx THEN S \union {i} ELSE S
        /\ i \in Nat
        /\ \A k \in Nat : /\ k = i => Square(w, k) = s * s
                          /\ k < i => Square(w, k) = Square(samples, k)
    BY <1>4, SeenAtGrows
  <1> HIDE DEF S, w
  <1>6. AddsSquares(w, g, S)
    <2>1. \A k \in S : Square(w, k) = Square(samples, k)
      BY <1>5
    <2>2. QED
      BY <1>3, <2>1, Zenon DEF AddsSquares
  <1>7. CASE p # pixel_idx
    <2>1. channel'[p + 1].sum = channel[p + 1].sum /\ SeenAt(p)' = S
      BY <1>2, <1>5, <1>7
    <2>2. QED
      BY <1>3, <1>6, <2>1 DEF w
  <1>8. CASE p = pixel_idx
    <2>1. channel'[p + 1].sum = channel[p + 1].sum + s * s
      BY <1>2, <1>8, WithSum
    <2>2. SeenAt(p)' = S \union {i} /\ i \notin S /\ Square(w, i) = s * s
      BY <1>5, <1>8
    <2>3. \A k \in S \union {i} : Square(w, k) \in Int
      <3>1. Square(w, i) \in Int
        BY <1>1, <2>2
      <3>2. \A k \in S : k \in Nat /\ k < i /\ Square(w, k) = Square(samples, k)
        BY <1>5
      <3>3. QED
        BY <3>1, <3>2, SquaresAreIntegers
    <2>4. PICK h : AddsSquares(w, h, S \union {i}) /\ h[S \union {i}] = g[S] + Square(w, i)
      BY <1>6, <2>2, <2>3, OneMoreSquare, Zenon
    <2>5. QED
      BY <1>3, <2>1, <2>2, <2>4 DEF w
  <1>9. QED
    BY <1>7, <1>8

(* A window is complete when the loop reads its last sample.               *)
LEMMA AddSampleOver ==
  ASSUME BlockInv, OverInv, NEW s \in Levels, AddSample(s)
  PROVE  OverInv'
  <1> DEFINE b == SamplesPerPixel
  <1>1. /\ channel \in Seq(Pixel) /\ pc = "update" /\ pixel_idx \in Nat
        /\ b \in Nat \ {0} /\ i \in Nat /\ i' = i + 1 /\ b' = b
    BY SamplesPerPixelIsPositive, Constants DEF AddSample, BlockInv, BlockType, i, SamplesPerPixel
  <1>2. /\ Len(channel') = Len(channel) /\ Len(channel) \in Nat
        /\ \A p \in 0 .. Len(channel) - 1 :
              channel'[p + 1] = IF p = pixel_idx THEN With(channel[p + 1], s) ELSE channel[p + 1]
    BY <1>1 DEF AddSample
  <1> SUFFICES ASSUME NEW p \in 1 .. Len(channel) - 1, p * b < i + 1
               PROVE  channel'[p + 1].over = b
    BY <1>1, <1>2 DEF OverInv
  <1>3. p \in Nat /\ p * b \in Nat /\ (p - 1) * b \in Int /\ (p - 1) * b = p * b - b
    BY <1>1
  <1> HIDE DEF b
  <1>4. (pixel_idx - 1) * b < i /\ i <= pixel_idx * b
    BY NextIndex DEF b
  <1>5. CASE p * b = i
    <2>1. p = pixel_idx
      <3>1. (p - 1) * b < i /\ i <= p * b /\ p \in Int /\ pixel_idx \in Int /\ i \in Int
        BY <1>1, <1>3, <1>5
      <3>2. QED
        BY <1>1, <1>4, <3>1, OneWindow, Zenon
    <2>2. i % b = 0
      <3>1. (p - 1) * b < i /\ i <= p * b /\ p \in Int /\ i \in Nat
        BY <1>1, <1>3, <1>5
      <3>2. i % b = 0 <=> i = p * b
        BY <1>1, <3>1, WindowEnd, Zenon
      <3>3. QED
        BY <1>5, <3>2
    <2>3. channel'[p + 1].over = b - 0
      BY <1>2, <2>1, <2>2, WithSum DEF PixelIsComplete, Collected, b
    <2>4. QED
      BY <1>1, <2>3
  <1>6. CASE p * b # i
    <2>1. p * b < i
      BY <1>1, <1>3, <1>6
    <2>2. p # pixel_idx
      BY <1>1, <1>3, <1>4, <2>1
    <2>3. p \in 0 .. Len(channel) - 1 /\ channel'[p + 1] = channel[p + 1]
      BY <1>2, <2>2
    <2>4. channel[p + 1].over = b
      BY <1>1, <2>1 DEF OverInv, b
    <2>5. QED
      BY <2>3, <2>4
  <1>7. QED
    BY <1>5, <1>6

LEMMA SumsUntouched ==
  ASSUME SumInv, OverInv, pc # "empty", pc' # "empty",
         UNCHANGED <<pps, length, samples, channel>>
  PROVE  SumInv' /\ OverInv'
  BY DEF SumInv, OverInv, SeenAt, Window, i, SamplesPerPixel

LEMMA NextSums == Inv /\ SumInv /\ OverInv /\ [Next]_vars => SumInv' /\ OverInv'
  <1> SUFFICES ASSUME Inv, SumInv, OverInv, [Next]_vars
               PROVE  SumInv' /\ OverInv'
    OBVIOUS
  <1>1. BlockInv
    BY DEF Inv
  <1>2. ASSUME NEW n \in Lengths, BeginUpdate(n)
        PROVE  SumInv' /\ OverInv'
    BY <1>1, <1>2, BeginUpdateSums
  <1>3. ASSUME NEW s \in Levels, AddSample(s)
        PROVE  SumInv' /\ OverInv'
    BY <1>1, <1>3, AddSampleSums, AddSampleOver
  <1>4. CASE Overrun \/ Transform
    BY <1>4, SumsUntouched DEF Overrun, Transform
  <1>5. CASE UNCHANGED blockVars
    BY <1>5 DEF blockVars, SumInv, OverInv, SeenAt, Window, i, SamplesPerPixel
  <1>6. QED
    BY <1>2, <1>3, <1>4, <1>5
    DEF Next, Update, GetPixels, ClonePixel, InterpolatePixel, Return, vars

LEMMA SumsInvariant == Spec => [](SumInv /\ OverInv)
  <1>1. Init => SumInv /\ OverInv
    BY DEF Init, BlockInit, SumInv, OverInv
  <1>2. QED
    BY <1>1, NextSums, PixelsKeepInv, PTL DEF Spec

(* A window that ends inside of the track has SamplesPerPixel samples.     *)
LEMMA WholeWindow ==
  ASSUME Inv, pc = "ready", NEW p \in 1 .. Len(channel) - 1, p * SamplesPerPixel < length
  PROVE  IsFiniteSet(Window(p)) /\ Cardinality(Window(p)) = SamplesPerPixel
  <1> DEFINE b == SamplesPerPixel
  <1>1. b \in Nat \ {0} /\ length \in Nat /\ p \in Nat \ {0}
    BY SamplesPerPixelIsPositive, InvComparable DEF Inv, BlockInv, BlockType
  <1>2. p * b \in Nat /\ (p - 1) * b \in Nat /\ (p - 1) * b = p * b - b
    BY <1>1
  <1> DEFINE lo == (p - 1) * b + 1
             hi == p * b
  <1>3. Window(p) = lo .. hi
    BY <1>1, <1>2 DEF Window
  <1>4. lo \in Int /\ hi \in Int /\ lo <= hi /\ hi - lo + 1 = b
    BY <1>1, <1>2
  <1> HIDE DEF lo, hi
  <1>5. QED
    BY <1>3, <1>4, FS_Interval

(* Whatever the lengths, the resolution and the number of channels, a      *)
(* pixel whose window lies inside of the track has the mean square of just *)
(* its samples (pixel_block.h:185-189).                                    *)
THEOREM WholePixelsAreMeans == Spec => []WholePixelsHaveTheirMean
  <1>1. Inv /\ SumInv /\ OverInv => WholePixelsHaveTheirMean
    <2> SUFFICES ASSUME Inv, SumInv, OverInv, pc = "ready",
                        NEW p \in 1 .. Len(channel) - 1, p * SamplesPerPixel < length
                 PROVE  /\ channel[p + 1].over = Cardinality(Window(p))
                        /\ channel[p + 1].sum =
                             MapThenSumSet(LAMBDA k : samples[k + 1] * samples[k + 1], Window(p))
      BY Zenon DEF WholePixelsHaveTheirMean
    <2>1. i = length /\ length \in Nat /\ p \in 0 .. Len(channel) - 1
      BY InvComparable DEF Inv, BlockInv, PeakInv
    <2>2. SeenAt(p) = Window(p) /\ \A k \in Window(p) : k \in Nat /\ k < i
      BY <2>1 DEF SeenAt, Window
    <2>3. PICK g : AddsSquares(samples, g, Window(p)) /\ channel[p + 1].sum = g[Window(p)]
      BY <2>1, <2>2 DEF SumInv
    <2>4. \A k \in Window(p) : Square(samples, k) \in Int
      BY <2>2, SquaresAreIntegers DEF Inv
    <2>5. channel[p + 1].sum = MapThenSumSet(LAMBDA k : samples[k + 1] * samples[k + 1], Window(p))
      BY <2>3, <2>4, WholeWindow, SumOfSquares
    <2>6. channel[p + 1].over = Cardinality(Window(p))
      BY <2>1, WholeWindow DEF OverInv
    <2>7. QED
      BY <2>5, <2>6, Zenon
  <1>2. QED
    BY <1>1, SumsInvariant, PixelsKeepInv, PTL

-----------------------------------------------------------------------------
(* The concatenation of the messages of a reply.                           *)

(* The number of messages, and where message c ends.                       *)
Messages(block) == (Len(block) + ChunkSize - 1) \div ChunkSize
ChunkEnd(block, c) == Min({c * ChunkSize, Len(block)})

LEMMA ChunkBounds ==
  ASSUME NEW S, NEW block \in Seq(S), Len(block) > 0
  PROVE  /\ Messages(block) \in Nat \ {0}
         /\ ChunkEnd(block, Messages(block)) = Len(block)
         /\ \A c \in 1 .. Messages(block) :
              /\ (c - 1) * ChunkSize \in Nat
              /\ ChunkEnd(block, c) \in (c - 1) * ChunkSize + 1 .. Len(block)
              /\ ChunkEnd(block, c) <= (c - 1) * ChunkSize + ChunkSize
              /\ c < Messages(block) => ChunkEnd(block, c) = c * ChunkSize
  <1> DEFINE b == ChunkSize
             L == Len(block)
             m == Messages(block)
             e == L + b - 1
  <1>1. b \in Nat \ {0} /\ L \in Nat \ {0} /\ e \in Nat
    BY Constants
  <1>2. m \in Nat /\ m * b <= e /\ e < m * b + b
    <2>1. m = e \div b
      BY DEF Messages
    <2> HIDE DEF b, e, m
    <2>2. e \div b \in Nat /\ e % b \in 0 .. b - 1 /\ e = (e \div b) * b + (e % b)
      BY <1>1, Division
    <2> DEFINE r == e % b
    <2> HIDE DEF r
    <2>3. m \in Nat /\ r \in 0 .. b - 1 /\ e = m * b + r
      BY <2>1, <2>2 DEF r
    <2>4. m * b \in Nat
      BY <1>1, <2>3
    <2>5. QED
      BY <1>1, <2>3, <2>4
  <1> HIDE DEF m
  <1>3. m * b \in Nat /\ L <= m * b
    BY <1>1, <1>2
  <1>4. m # 0
    BY <1>1, <1>3
  <1>5. (m - 1) * b \in Int /\ (m - 1) * b = m * b - b /\ (m - 1) * b < L
    BY <1>1, <1>2, <1>3
  <1>6. ChunkEnd(block, m) = L
    <2>1. IsMin(L, {m * b, L})
      BY <1>1, <1>3 DEF IsMin
    <2>2. QED
      BY <1>1, <1>3, <2>1, TheMin DEF ChunkEnd
  <1>7. ASSUME NEW c \in 1 .. m
        PROVE  /\ (c - 1) * b \in Nat
               /\ ChunkEnd(block, c) \in (c - 1) * b + 1 .. L
               /\ ChunkEnd(block, c) <= (c - 1) * b + b
               /\ c < m => ChunkEnd(block, c) = c * b
    <2>1. c \in Nat \ {0} /\ c * b \in Nat /\ (c - 1) * b = c * b - b
      BY <1>1, <1>2
    <2>2. c - 1 \in Nat /\ (c - 1) * b \in Nat
      BY <1>1, <2>1
    <2>3. CASE c = m
      <3>1. ChunkEnd(block, c) = L /\ (c - 1) * b < L /\ L <= c * b
        BY <1>3, <1>5, <1>6, <2>3
      <3>2. QED
        BY <1>1, <2>1, <2>2, <2>3, <3>1
    <2>4. CASE c < m
      <3>1. c * b + b <= m * b
        BY <1>1, <1>2, <2>1, <2>4, ProductOrder
      <3>2. c * b < L
        BY <1>1, <1>3, <1>5, <2>1, <3>1
      <3>3. IsMin(c * b, {c * b, L})
        BY <1>1, <2>1, <3>2 DEF IsMin
      <3>4. ChunkEnd(block, c) = c * b
        BY <1>1, <2>1, <3>3, TheMin DEF ChunkEnd
      <3>5. QED
        BY <1>1, <2>1, <2>2, <3>2, <3>4
    <2>5. QED
      BY <1>2, <2>3, <2>4
  <1>8. QED
    BY <1>2, <1>4, <1>6, <1>7 DEF m

(* The equation of FlattenSeq.                                             *)
IsFlat(f, seqs) ==
  f = [c \in 1 .. Len(seqs) |-> IF c = 1 THEN seqs[c] ELSE f[c - 1] \o seqs[c]]

LEMMA FlatIsChosen ==
  ASSUME NEW seqs, Len(seqs) # 0
  PROVE  FlattenSeq(seqs) = (CHOOSE f : IsFlat(f, seqs))[Len(seqs)]
  BY Zenon DEF FlattenSeq, IsFlat

LEMMA FlatIsUnique ==
  ASSUME NEW seqs, Len(seqs) \in Nat \ {0}, NEW f, NEW g, IsFlat(f, seqs), IsFlat(g, seqs)
  PROVE  f[Len(seqs)] = g[Len(seqs)]
  <1> DEFINE n == Len(seqs)
             Wrong == {c \in 1 .. n : f[c] # g[c]}
  <1>1. SUFFICES ASSUME n \in Wrong
                 PROVE  FALSE
    OBVIOUS
  <1>2. PICK c \in Wrong : \A d \in Wrong : c <= d
    <2>1. Wrong \subseteq Nat /\ Wrong # {}
      BY <1>1
    <2>2. QED
      BY <2>1, LeastNatural, Zenon
  <1>3. c \in 1 .. n /\ f[c] # g[c]
    OBVIOUS
  <1>4. /\ f[c] = IF c = 1 THEN seqs[c] ELSE f[c - 1] \o seqs[c]
        /\ g[c] = IF c = 1 THEN seqs[c] ELSE g[c - 1] \o seqs[c]
    BY <1>3, Zenon DEF IsFlat
  <1>5. c # 1
    BY <1>3, <1>4
  <1>6. c - 1 \in 1 .. n /\ ~(c <= c - 1)
    BY <1>3, <1>5
  <1>7. f[c - 1] = g[c - 1]
    BY <1>2, <1>6
  <1>8. QED
    BY <1>3, <1>4, <1>5, <1>7

(* The chunks of a block are the block, cut into pieces.                   *)
LEMMA ChunksMakeBlock ==
  ASSUME NEW S, NEW block \in Seq(S)
  PROVE  /\ FlattenSeq(Chunks(block)) = block
         /\ \A c \in DOMAIN Chunks(block) : Len(Chunks(block)[c]) \in 1 .. ChunkSize
  <1> DEFINE L == Len(block)
             m == Messages(block)
             seqs == Chunks(block)
  <1>1. ChunkSize \in Nat \ {0} /\ L \in Nat
    BY Constants
  <1>2. seqs = [c \in 1 .. m |-> SubSeq(block, (c - 1) * ChunkSize + 1, ChunkEnd(block, c))]
    BY DEF Chunks, ChunkEnd, Messages
  <1>3. CASE L = 0
    <2>1. 0 * ChunkSize = 0 /\ L + ChunkSize - 1 \in Nat
      BY <1>1, <1>3
    <2>2. m = 0
      BY <1>1, <1>3, <2>1, DivisionIsUnique DEF Messages
    <2>3. seqs = << >> /\ block = << >>
      BY <1>2, <1>3, <2>2
    <2> HIDE DEF seqs
    <2>4. Len(seqs) = 0 /\ DOMAIN seqs = {}
      BY <2>3
    <2>5. FlattenSeq(seqs) = seqs
      BY <2>4, Zenon DEF FlattenSeq
    <2>6. QED
      BY <2>3, <2>4, <2>5 DEF seqs
  <1>4. CASE L > 0
    <2>1. /\ m \in Nat \ {0} /\ ChunkEnd(block, m) = L
          /\ \A c \in 1 .. m :
               /\ (c - 1) * ChunkSize \in Nat
               /\ ChunkEnd(block, c) \in (c - 1) * ChunkSize + 1 .. L
               /\ ChunkEnd(block, c) <= (c - 1) * ChunkSize + ChunkSize
               /\ c < m => ChunkEnd(block, c) = c * ChunkSize
      BY <1>4, ChunkBounds
    <2> HIDE DEF m, seqs
    <2>2. Len(seqs) = m /\ DOMAIN seqs = 1 .. m
      BY <1>2, <2>1
    <2>3. \A k \in 1 .. L : block[k] \in S
      OBVIOUS
    <2>4. ASSUME NEW c \in 1 .. m
          PROVE  Len(seqs[c]) \in 1 .. ChunkSize
      <3> DEFINE skipped == (c - 1) * ChunkSize
                 lo == skipped + 1
                 hi == ChunkEnd(block, c)
      <3>0. skipped \in Nat /\ hi \in skipped + 1 .. L /\ hi <= skipped + ChunkSize
        BY <2>1
      <3>1. lo \in Nat \ {0} /\ hi \in lo .. L /\ hi - lo + 1 \in 1 .. ChunkSize
        <4> HIDE DEF skipped, hi
        <4>1. QED
          BY <1>1, <3>0
      <3>2. seqs[c] = SubSeq(block, lo, hi)
        BY <1>2
      <3> HIDE DEF lo, hi
      <3>3. lo \in Int /\ hi \in Int /\ lo <= hi /\ \A k \in lo .. hi : block[k] \in S
        BY <1>1, <2>3, <3>1
      <3>4. Len(seqs[c]) = hi - lo + 1
        BY <3>2, <3>3, SubSeqProperties
      <3>5. QED
        BY <3>1, <3>4
    <2> DEFINE cut == [c \in 1 .. m |-> SubSeq(block, 1, ChunkEnd(block, c))]
    <2>5. ASSUME NEW c \in 1 .. m
          PROVE  cut[c] = IF c = 1 THEN seqs[c] ELSE cut[c - 1] \o seqs[c]
      <3>1. cut[c] = SubSeq(block, 1, ChunkEnd(block, c))
            /\ seqs[c] = SubSeq(block, (c - 1) * ChunkSize + 1, ChunkEnd(block, c))
        BY <1>2
      <3>2. CASE c = 1
        <4>1. (c - 1) * ChunkSize + 1 = 1
          BY <1>1, <3>2
        <4>2. QED
          BY <3>1, <3>2, <4>1
      <3>3. CASE c # 1
        <4> DEFINE k == (c - 1) * ChunkSize
                   hi == ChunkEnd(block, c)
        <4>1. c - 1 \in 1 .. m /\ c - 1 < m
          BY <2>1, <3>3
        <4>2. ChunkEnd(block, c - 1) = k
          BY <2>1, <4>1
        <4>3. cut[c - 1] = SubSeq(block, 1, k)
          BY <4>1, <4>2
        <4>4. k \in Nat /\ hi \in k + 1 .. L
          BY <2>1
        <4> HIDE DEF k, hi
        <4>5. 1 \in 1 .. L + 1 /\ k \in 1 - 1 .. L /\ hi \in k .. L
          BY <1>1, <4>4
        <4>6. SubSeq(block, 1, k) \o SubSeq(block, k + 1, hi) = SubSeq(block, 1, hi)
          BY <4>5, ConcatAdjacentSubSeq
        <4>7. QED
          BY <3>1, <3>3, <4>3, <4>6 DEF k, hi
      <3>4. QED
        BY <3>2, <3>3
    <2>6. cut[m] = block
      BY <2>1, SubSeqFull
    <2>7. IsFlat(cut, seqs)
      <3>1. cut = [c \in 1 .. m |-> cut[c]]
        OBVIOUS
      <3> HIDE DEF cut
      <3>2. QED
        BY <2>2, <2>5, <3>1 DEF IsFlat
    <2> HIDE DEF cut
    <2>8. IsFlat(CHOOSE f : IsFlat(f, seqs), seqs)
      BY <2>7, Zenon
    <2>9. Len(seqs) \in Nat \ {0} /\ Len(seqs) # 0
      BY <2>1, <2>2
    <2>10. FlattenSeq(seqs) = (CHOOSE f : IsFlat(f, seqs))[Len(seqs)]
      BY <2>9, FlatIsChosen, Zenon
    <2>11. (CHOOSE f : IsFlat(f, seqs))[Len(seqs)] = cut[Len(seqs)]
      BY <2>7, <2>8, <2>9, FlatIsUnique, Zenon
    <2>12. FlattenSeq(seqs) = block
      BY <2>2, <2>6, <2>10, <2>11
    <2>13. QED
      BY <2>2, <2>4, <2>12 DEF seqs
  <1>5. QED
    BY <1>1, <1>3, <1>4

LEMMA ClampIsBetween ==
  ASSUME NEW x \in Int, NEW lo \in Int, NEW hi \in Int, lo <= hi
  PROVE  Clamp(x, lo, hi) = IF x < lo THEN lo ELSE IF x <= hi THEN x ELSE hi
  <1>1. Min({x, hi}) = IF x <= hi THEN x ELSE hi
    BY MinOfTwoCases
  <1>2. ASSUME NEW y \in Int
        PROVE  Max({lo, y}) = IF y < lo THEN lo ELSE y
    <2>1. IsMax(IF y < lo THEN lo ELSE y, {lo, y})
      BY DEF IsMax
    <2>2. QED
      BY <2>1, TheMax
  <1> DEFINE y == IF x <= hi THEN x ELSE hi
  <1>3. y \in Int /\ Clamp(x, lo, hi) = Max({lo, y})
    BY <1>1 DEF Clamp
  <1>4. QED
    BY <1>2, <1>3

(* The ids of the pixels from start to end that exist, in order.           *)
LEMMA FromIsTheRange ==
  ASSUME Inv, NEW start \in Int, NEW end \in Int, start < end
  PROVE  LET block == From(start, end)
         IN  /\ block \in Seq(Int)
             /\ \A a, b \in DOMAIN block : a < b => block[a] < block[b]
             /\ Range(block) = (start .. end - 1) \intersect (0 .. new_num_pix - 1)
  <1> DEFINE N     == new_num_pix
             first == Clamp(start, 0, N)
             last  == Clamp(end, first, N)
             block == From(start, end)
  <1>1. N \in Nat
    BY BlockFacts
  <1>2. first = (IF start < 0 THEN 0 ELSE IF start <= N THEN start ELSE N)
    BY <1>1, ClampIsBetween
  <1>3. first \in 0 .. N
    BY <1>1, <1>2
  <1> HIDE DEF first
  <1>4. last = (IF end < first THEN first ELSE IF end <= N THEN end ELSE N)
    BY <1>1, <1>3, ClampIsBetween
  <1>5. last \in first .. N
    BY <1>1, <1>3, <1>4
  <1>6. block = [k \in 1 .. last - first |-> first + k - 1]
    BY DEF From, first
  <1> HIDE DEF last, block
  <1>7. last - first \in Nat /\ \A k \in 1 .. last - first : first + k - 1 \in Int
    BY <1>1, <1>3, <1>5
  <1>8. block \in Seq(Int)
    BY <1>6, <1>7
  <1>9. \A a, b \in DOMAIN block : a < b => block[a] < block[b]
    BY <1>1, <1>3, <1>6, <1>7
  <1>10. Range(block) = first .. last - 1
    <2>1. \A x \in first .. last - 1 : x - first + 1 \in 1 .. last - first /\ x = first + (x - first + 1) - 1
      BY <1>1, <1>3, <1>5
    <2>2. \A k \in 1 .. last - first : first + k - 1 \in first .. last - 1
      BY <1>1, <1>3, <1>5
    <2>3. DOMAIN block = 1 .. last - first /\ \A k \in 1 .. last - first : block[k] = first + k - 1
      BY <1>6
    <2>4. QED
      BY <2>1, <2>2, <2>3 DEF Range
  <1>11. first .. last - 1 = (start .. end - 1) \intersect (0 .. N - 1)
    BY <1>1, <1>2, <1>3, <1>4
  <1>12. QED
    BY <1>8, <1>9, <1>10, <1>11 DEF block

(* Whatever range is asked for, and however large the chunks are, its      *)
(* pixels are sent in order, each of them once, in messages of at most     *)
(* ChunkSize pixels (controller.h:98-110).                                 *)
THEOREM PixelsAreSentOnce == Spec => []EveryPixelIsSentOnce
  <1>1. Inv => EveryPixelIsSentOnce
    <2> SUFFICES ASSUME Inv, NEW start \in -1 .. new_num_pix, NEW end \in 0 .. new_num_pix + 1
                 PROVE  LET messages == SendPixels(start, end)
                            ids      == FlattenSeq(messages)
                        IN  /\ \A c \in DOMAIN messages : Len(messages[c]) \in 1 .. ChunkSize
                            /\ \A a, b \in DOMAIN ids : a < b => ids[a] < ids[b]
                            /\ Range(ids) = (start .. end - 1) \intersect (0 .. new_num_pix - 1)
      BY Zenon DEF EveryPixelIsSentOnce
    <2> DEFINE messages == SendPixels(start, end)
               ids      == FlattenSeq(messages)
               block    == From(start, end)
    <2>1. start \in Int /\ end \in Int
      BY BlockFacts
    <2>2. CASE end - start < 1
      <3>1. messages = << >>
        BY <2>2 DEF SendPixels
      <3> HIDE DEF messages
      <3>2. Len(messages) = 0 /\ DOMAIN messages = {}
        BY <3>1
      <3>3. ids = << >>
        BY <3>1, <3>2 DEF FlattenSeq
      <3> HIDE DEF ids
      <3>4. Range(ids) = {}
        BY <3>3 DEF Range
      <3>5. start .. end - 1 = {}
        BY <2>1, <2>2
      <3>6. DOMAIN ids = {}
        BY <3>3
      <3>7. QED
        BY <3>2, <3>4, <3>5, <3>6 DEF ids, messages
    <2>3. CASE ~(end - start < 1)
      <3>1. messages = Chunks(block) /\ start < end
        BY <2>1, <2>3 DEF SendPixels
      <3>2. /\ block \in Seq(Int)
            /\ \A a, b \in DOMAIN block : a < b => block[a] < block[b]
            /\ Range(block) = (start .. end - 1) \intersect (0 .. new_num_pix - 1)
        BY <2>1, <3>1, FromIsTheRange
      <3> HIDE DEF block
      <3>3. /\ FlattenSeq(Chunks(block)) = block
            /\ \A c \in DOMAIN Chunks(block) : Len(Chunks(block)[c]) \in 1 .. ChunkSize
        BY <3>2, ChunksMakeBlock
      <3> HIDE DEF messages
      <3>4. ids = block /\ \A c \in DOMAIN messages : Len(messages[c]) \in 1 .. ChunkSize
        BY <3>1, <3>3
      <3> HIDE DEF ids
      <3>5. QED
        BY <3>2, <3>4 DEF ids, messages
    <2>4. QED
      BY <2>2, <2>3
  <1>2. QED
    BY <1>1, PixelsKeepInv, PTL

=============================================================================
