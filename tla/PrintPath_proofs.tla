--------------------------- MODULE PrintPath_proofs ---------------------------
(***************************************************************************)
(* The way of a print, for every profile, document, plan, chunk size and    *)
(* bound on retries.  Every plan that the planner finishes tiles its        *)
(* transfer raster, with pacing between its bands only.  Drawing stays in   *)
(* an element's box, no band is sent that is blacker than the limit, and    *)
(* the paper shows the picture: packing, cutting, the header's bytes and    *)
(* the printer's unpacking undo each other.  The planner's plans are what   *)
(* the transport assumes; the transport keeps what it reports between what  *)
(* the printer holds and one band less, implements TransportContract, and   *)
(* honours the plan's cooldowns.                                            *)
(***************************************************************************)
EXTENDS PreviewRaster, PrintTransport, Lists_proofs, FiniteSetTheorems,
        FunctionTheorems, SequenceTheorems, TLAPS


-----------------------------------------------------------------------------
(* The planner.                                                             *)
(* The loop invariant of _segment_transfer_raster: start_row is where the   *)
(* last band ended, and never passes the end of the raster.                 *)
LoopInv ==
    /\ Contiguous
    /\ \A i \in 1..Len(bands) : bands[i].heightDots \in 1..MaxBandHeight
    /\ IF Len(bands) = 0 THEN startRow = 0
       ELSE startRow = bands[Len(bands)].startRow + bands[Len(bands)].heightDots
    /\ startRow <= TransferRows(request)
    /\ phase = "planned" => startRow = TransferRows(request)

PlanInv == PlanTypeOK /\ LoopInv /\ PacingBetweenBandsOnly

-----------------------------------------------------------------------------
(* The pacing delay is a natural number between the base delay and the cap. *)
LEMMA PacedDelayBounds ==
    ASSUME NEW c \in 0..100
    PROVE  /\ PacedDelay(c) \in Nat
           /\ PacedDelay(c) <= MaxCooldown
           /\ PacedDelay(c) >= Smaller(BaseDelay, MaxCooldown)
<1> DEFINE raw == IF c > CoverageLimit
                    THEN CeilDiv((c - CoverageLimit) * MsPerPoint, 100) ELSE 0
<1>1. raw \in Nat
  <2>1. CASE c > CoverageLimit
    <3> DEFINE product == (c - CoverageLimit) * MsPerPoint
    <3>1. product \in Nat
      BY <2>1, InputAssumption, SMT
    <3> HIDE DEF product
    <3>2. (product + 100 - 1) \div 100 \in Nat
      BY <3>1, SMT
    <3> QED
      BY <2>1, <3>2 DEF CeilDiv, product
  <2>2. CASE ~(c > CoverageLimit)
    BY <2>2
  <2> QED
    BY <2>1, <2>2
<1>2. PacedDelay(c) = Smaller(BaseDelay + raw, MaxCooldown)
  BY DEF PacedDelay
<1> HIDE DEF raw
<1> QED
  BY <1>1, <1>2, PlannerAssumption, SMT DEF Smaller

(* The height of the next band: at least one row, at most the band height,  *)
(* and never past the end.                                                  *)
LEMMA BandHeightBounds ==
    ASSUME NEW start \in Nat, NEW total \in Nat, start < total
    PROVE  /\ BandHeight(start, total) \in 1..MaxBandHeight
           /\ start + BandHeight(start, total) <= total
BY PlannerAssumption, SMT DEF BandHeight, Smaller

LEMMA TransferRowsType ==
    ASSUME NEW req \in Requests
    PROVE  TransferRows(req) \in Nat \ {0}
<1>1. req.contentHeight \in Nat \ {0}
  BY InputAssumption DEF Requests
<1> QED
  BY <1>1, PlannerAssumption, SMT DEF TransferRows

LEMMA ProductType ==
    ASSUME NEW a \in Nat, NEW b \in Nat
    PROVE  a * b \in Nat
BY SMT

(* What a new band looks like.                                              *)
LEMMA PlannedBands ==
    ASSUME NEW index \in Nat, NEW start \in Nat, NEW height \in Nat,
           NEW total \in Nat, NEW c \in Coverages
    PROVE  /\ Band(index, start, height, total, c) \in BandType
           /\ Band(index, start, height, total, c).startRow = start
           /\ Band(index, start, height, total, c).heightDots = height
           /\ Band(index, start, height, total, c).cooldownAfterMs <= MaxCooldown
           /\ start + height >= total =>
                Band(index, start, height, total, c).cooldownAfterMs = 0
           /\ (start + height < total /\ PacingEnabled) =>
                Band(index, start, height, total, c).cooldownAfterMs
                  >= Smaller(BaseDelay, MaxCooldown)
<1> DEFINE cool == CooldownAfter(c, start + height >= total)
<1>1. /\ PacedDelay(c) \in Nat
      /\ PacedDelay(c) <= MaxCooldown
      /\ PacedDelay(c) >= Smaller(BaseDelay, MaxCooldown)
  BY PacedDelayBounds, InputAssumption
<1>2. /\ cool \in Nat
      /\ cool <= MaxCooldown
      /\ start + height >= total => cool = 0
      /\ (start + height < total /\ PacingEnabled) =>
           cool >= Smaller(BaseDelay, MaxCooldown)
  BY <1>1, PlannerAssumption, SMT DEF CooldownAfter
<1>3. start * RowBytes \in Nat /\ height * RowBytes \in Nat
  BY ProductType, PlannerAssumption
<1> HIDE DEF cool
<1> QED
  BY <1>2, <1>3 DEF Band, BandType, cool

-----------------------------------------------------------------------------
(* The loop invariant holds on entry and every step keeps it.               *)
LEMMA InitPlanInv == PlanInit => PlanInv
BY PlannerAssumption, TransferRowsType
   DEF PlanInit, PlanInv, PlanTypeOK, LoopInv, Contiguous, PacingBetweenBandsOnly

LEMMA CutBandIInv == PlanInv /\ CutBand => PlanInv'
<1> SUFFICES ASSUME PlanInv, CutBand PROVE PlanInv'
  OBVIOUS
<1> DEFINE total  == TransferRows(request)
           height == BandHeight(startRow, total)
           n      == Len(bands)
<1>1. /\ startRow \in Nat /\ startRow < total /\ bands \in Seq(BandType)
      /\ request \in Requests /\ request' = request /\ phase' = phase
      /\ phase = "segment" /\ startRow' = startRow + height
  BY DEF PlanInv, PlanTypeOK, CutBand
<1>2. total \in Nat \ {0}
  BY <1>1, TransferRowsType
<1>3. height \in 1..MaxBandHeight /\ startRow + height <= total
  BY <1>1, <1>2, BandHeightBounds
<1>4. height \in Nat /\ n \in Nat
  BY <1>1, <1>3, PlannerAssumption
<1>5. PICK c \in Coverages : bands' = Append(bands, Band(n, startRow, height, total, c))
  BY DEF CutBand
<1> DEFINE b == Band(n, startRow, height, total, c)
<1>6. /\ b \in BandType /\ b.startRow = startRow /\ b.heightDots = height
      /\ b.cooldownAfterMs <= MaxCooldown
      /\ startRow + height >= total => b.cooldownAfterMs = 0
      /\ (startRow + height < total /\ PacingEnabled) =>
           b.cooldownAfterMs >= Smaller(BaseDelay, MaxCooldown)
  <2>1. n \in Nat /\ startRow \in Nat /\ height \in Nat /\ total \in Nat
    BY <1>1, <1>2, <1>4
  <2> HIDE DEF n, height, total
  <2> QED
    BY <2>1, PlannedBands, SMTT(30)
<1>7. bands' = Append(bands, b)
  BY <1>5
<1>8. TransferRows(request') = total
  BY <1>1
<1> HIDE DEF total, height, b
<1>9. /\ bands' \in Seq(BandType) /\ Len(bands') = n + 1 /\ bands'[n + 1] = b
      /\ \A i \in 1..n : bands'[i] = bands[i]
  BY <1>1, <1>6, <1>7
<1>10. PlanTypeOK'
  BY <1>1, <1>4, <1>9 DEF PlanTypeOK
<1>11. LoopInv'
  <2>1. Contiguous'
    <3> SUFFICES ASSUME NEW i \in 1..(n + 1)
                 PROVE  IF i = 1 THEN bands'[i].startRow = 0
                        ELSE bands'[i].startRow = bands'[i-1].startRow + bands'[i-1].heightDots
      BY <1>9 DEF Contiguous
    <3>1. CASE i \in 1..n
      <4>1. bands'[i] = bands[i] /\ (i # 1 => i - 1 \in 1..n /\ bands'[i-1] = bands[i-1])
        BY <3>1, <1>4, <1>9
      <4> QED
        BY <3>1, <4>1 DEF PlanInv, LoopInv, Contiguous
    <3>2. CASE i = n + 1
      <4>1. CASE n = 0
        BY <4>1, <3>2, <1>6, <1>9 DEF PlanInv, LoopInv
      <4>2. CASE n # 0
        <5>1. i # 1 /\ i - 1 = n /\ n \in 1..n /\ bands'[n] = bands[n]
          BY <4>2, <3>2, <1>4, <1>9
        <5>2. startRow = bands[n].startRow + bands[n].heightDots
          BY <4>2 DEF PlanInv, LoopInv
        <5> QED
          BY <5>1, <5>2, <3>2, <1>6, <1>9
      <4> QED
        BY <4>1, <4>2
    <3> QED
      BY <3>1, <3>2, <1>4
  <2>2. \A i \in 1..Len(bands') : bands'[i].heightDots \in 1..MaxBandHeight
    <3> SUFFICES ASSUME NEW i \in 1..(n + 1)
                 PROVE  bands'[i].heightDots \in 1..MaxBandHeight
      BY <1>9
    <3>1. CASE i \in 1..n
      BY <3>1, <1>9 DEF PlanInv, LoopInv
    <3>2. CASE i = n + 1
      BY <3>2, <1>3, <1>6, <1>9
    <3> QED
      BY <3>1, <3>2, <1>4
  <2>3. Len(bands') # 0 /\ startRow' = bands'[Len(bands')].startRow + bands'[Len(bands')].heightDots
    BY <1>1, <1>4, <1>6, <1>9
  <2>4. startRow' <= TransferRows(request') /\ phase' # "planned"
    BY <1>1, <1>3, <1>8
  <2> QED
    BY <2>1, <2>2, <2>3, <2>4 DEF LoopInv
<1>12. PacingBetweenBandsOnly'
  <2> SUFFICES ASSUME NEW i \in 1..(n + 1)
               PROVE  LET last == bands'[i].startRow + bands'[i].heightDots = total IN
                      /\ bands'[i].cooldownAfterMs <= MaxCooldown
                      /\ last => bands'[i].cooldownAfterMs = 0
                      /\ (~last /\ PacingEnabled) =>
                           bands'[i].cooldownAfterMs >= Smaller(BaseDelay, MaxCooldown)
    BY <1>8, <1>9 DEF PacingBetweenBandsOnly
  <2>1. CASE i \in 1..n
    BY <2>1, <1>9 DEF PlanInv, PacingBetweenBandsOnly, total
  <2>2. CASE i = n + 1
    <3>1. bands'[i] = b
      BY <2>2, <1>9
    <3> QED
      BY <3>1, <1>1, <1>2, <1>3, <1>4, <1>6
  <2> QED
    BY <2>1, <2>2, <1>4
<1> QED
  BY <1>10, <1>11, <1>12 DEF PlanInv

LEMMA NextPlanInv == PlanInv /\ [PlanNext]_planVars => PlanInv'
<1> SUFFICES ASSUME PlanInv, [PlanNext]_planVars PROVE PlanInv'
  OBVIOUS
<1> USE DEF PlanInv, PlanTypeOK, LoopInv, Contiguous, PacingBetweenBandsOnly
<1>1. CASE Reject
  BY <1>1 DEF Reject
<1>2. CASE Accept
  BY <1>2 DEF Accept
<1>3. CASE CutBand
  BY <1>3, CutBandIInv
<1>4. CASE FinishPlan
  BY <1>4, TransferRowsType DEF FinishPlan
<1>5. CASE UNCHANGED planVars
  BY <1>5 DEF planVars
<1> QED
  BY <1>1, <1>2, <1>3, <1>4, <1>5 DEF PlanNext

(* The planner's variables keep their types, for every profile.             *)
THEOREM PlanTypeCorrect == PlanSpec => []PlanTypeOK
<1>1. PlanInv => PlanTypeOK
  BY DEF PlanInv
<1> QED
  BY <1>1, InitPlanInv, NextPlanInv, PTL DEF PlanSpec

(* Every finished plan covers the transfer raster exactly, contiguously, in *)
(* bands no higher than the profile allows (create_print_plan).             *)
THEOREM PlanIsATiling == PlanSpec => []PlanTilesTransfer
<1>1. PlanInv => PlanTilesTransfer
  <2> SUFFICES ASSUME PlanInv, phase = "planned"
               PROVE  /\ Len(bands) > 0
                      /\ bands[Len(bands)].startRow + bands[Len(bands)].heightDots
                           = TransferRows(request)
    BY DEF PlanInv, LoopInv, PlanTilesTransfer
  <2>1. TransferRows(request) # 0 /\ startRow = TransferRows(request)
    BY TransferRowsType DEF PlanInv, PlanTypeOK, LoopInv
  <2>2. Len(bands) # 0 /\ Len(bands) \in Nat
    BY <2>1 DEF PlanInv, PlanTypeOK, LoopInv
  <2> QED
    BY <2>1, <2>2 DEF PlanInv, LoopInv
<1> QED
  BY <1>1, InitPlanInv, NextPlanInv, PTL DEF PlanSpec

(* No delay follows the last band, every other band is followed by a delay  *)
(* within the profile's limits (_cooldown_after_ms).                        *)
THEOREM PlanPacing == PlanSpec => []PacingBetweenBandsOnly
<1>1. PlanInv => PacingBetweenBandsOnly
  BY DEF PlanInv
<1> QED
  BY <1>1, InitPlanInv, NextPlanInv, PTL DEF PlanSpec

-----------------------------------------------------------------------------
(* The paper.                                                               *)
(* Integer arithmetic that the lemmas on rasters rest on.                   *)
LEMMA ProductGrows ==
    ASSUME NEW a \in Nat, NEW b \in Nat, NEW n \in Nat, a <= b
    PROVE  /\ a * n \in Nat /\ b * n \in Nat /\ (b - a) * n \in Nat
           /\ b * n = a * n + (b - a) * n
           /\ a * n <= b * n
<1>1. b - a \in Nat
  OBVIOUS
<1>2. a * n \in Nat /\ b * n \in Nat /\ (b - a) * n \in Nat
  BY <1>1, ProductType
<1>3. b * n = a * n + (b - a) * n
  OBVIOUS
<1> QED
  BY <1>2, <1>3

LEMMA QuotientRemainder ==
    ASSUME NEW a \in Nat, NEW n \in Nat \ {0}
    PROVE  /\ a \div n \in Nat /\ a % n \in Nat /\ a % n < n
           /\ n * (a \div n) \in Nat
           /\ a = n * (a \div n) + (a % n)
<1>1. a \div n \in Nat /\ a % n \in Nat /\ a % n < n
  OBVIOUS
<1>2. a = n * (a \div n) + (a % n)
  OBVIOUS
<1>3. n * (a \div n) \in Nat
  BY <1>1, ProductType
<1> QED
  BY <1>1, <1>2, <1>3

(* Quotient and remainder are the only ones.                                *)
LEMMA DivMod ==
    ASSUME NEW q \in Nat, NEW n \in Nat \ {0}, NEW r \in 0..(n - 1)
    PROVE  (q * n + r) \div n = q /\ (q * n + r) % n = r
<1> DEFINE a == q * n + r
           k == a \div n
           m == a % n
<1>1. q * n \in Nat /\ r \in Nat /\ r < n
  BY ProductType
<1>2. a \in Nat
  BY <1>1
<1> HIDE DEF a
<1>3. k \in Nat /\ m \in Nat /\ m < n /\ a = n * k + m
  BY <1>2
<1> HIDE DEF k, m
<1>4. n * k = k * n
  BY <1>3
<1>5. a = q * n + r /\ a = k * n + m
  BY <1>3, <1>4 DEF a
<1>6. ASSUME q < k PROVE FALSE
  <2>1. (q + 1) * n <= k * n
    BY <1>3, <1>6, ProductGrows
  <2>2. (q + 1) * n = q * n + n
    OBVIOUS
  <2>3. k * n \in Nat
    BY <1>3, ProductType
  <2> QED
    BY <1>1, <1>3, <1>5, <2>1, <2>2, <2>3
<1>7. ASSUME k < q PROVE FALSE
  <2>1. (k + 1) * n <= q * n
    BY <1>3, <1>7, ProductGrows
  <2>2. (k + 1) * n = k * n + n
    BY <1>3
  <2>3. k * n \in Nat
    BY <1>3, ProductType
  <2> QED
    BY <1>1, <1>3, <1>5, <2>1, <2>2, <2>3
<1>8. k = q
  BY <1>3, <1>6, <1>7
<1>9. m = r
  BY <1>1, <1>3, <1>5, <1>8
<1> QED
  BY <1>8, <1>9 DEF a, k, m

(* Where byte c of row y stands in rows of n bytes, and back.               *)
LEMMA BytePosition ==
    ASSUME NEW n \in Nat \ {0}, NEW h \in Nat, NEW y \in 0..(h - 1), NEW c \in 0..(n - 1)
    PROVE  /\ y * n + c + 1 \in 1..(h * n)
           /\ (y * n + c) \div n = y /\ (y * n + c) % n = c
<1>1. y \in Nat /\ y + 1 <= h /\ c \in Nat /\ c < n
  OBVIOUS
<1>2. (y + 1) * n <= h * n /\ h * n \in Nat
  BY <1>1, ProductGrows
<1>3. (y + 1) * n = y * n + n
  BY <1>1
<1>4. y * n \in Nat
  BY <1>1, ProductType
<1>5. y * n + c + 1 \in 1..(h * n)
  BY <1>1, <1>2, <1>3, <1>4
<1> QED
  BY <1>1, <1>5, DivMod

(* Packing a dot and looking at its bit undo each other.                    *)
LEMMA BitOfByte ==
    ASSUME NEW black, NEW x \in Int, NEW y \in Int, NEW b \in 0..7
    PROVE  BitSet(ByteOf(black, x, y), b) <=> <<x + b, y>> \in black
<1> DEFINE d(i) == Dot(black, x + i, y)
<1>1. \A i \in 0..7 : d(i) \in {0, 1} /\ (d(i) = 1 <=> <<x + i, y>> \in black)
  BY DEF Dot
<1>2. ByteOf(black, x, y) = 128 * d(0) + 64 * d(1) + 32 * d(2) + 16 * d(3)
                            + 8 * d(4) + 4 * d(5) + 2 * d(6) + d(7)
  BY DEF ByteOf
<1>3. /\ d(0) \in {0, 1} /\ d(1) \in {0, 1} /\ d(2) \in {0, 1} /\ d(3) \in {0, 1}
      /\ d(4) \in {0, 1} /\ d(5) \in {0, 1} /\ d(6) \in {0, 1} /\ d(7) \in {0, 1}
  BY <1>1
<1>4. PICK d0 \in {0, 1}, d1 \in {0, 1}, d2 \in {0, 1}, d3 \in {0, 1},
           d4 \in {0, 1}, d5 \in {0, 1}, d6 \in {0, 1}, d7 \in {0, 1} :
         /\ d0 = d(0) /\ d1 = d(1) /\ d2 = d(2) /\ d3 = d(3)
         /\ d4 = d(4) /\ d5 = d(5) /\ d6 = d(6) /\ d7 = d(7)
  BY <1>3
<1> DEFINE byte == 128 * d0 + 64 * d1 + 32 * d2 + 16 * d3 + 8 * d4 + 4 * d5 + 2 * d6 + d7
<1>5. ByteOf(black, x, y) = byte
  BY <1>2, <1>4
<1>6. /\ (byte \div 128) % 2 = d0 /\ (byte \div 64) % 2 = d1
      /\ (byte \div 32) % 2 = d2 /\ (byte \div 16) % 2 = d3
      /\ (byte \div 8) % 2 = d4 /\ (byte \div 4) % 2 = d5
      /\ (byte \div 2) % 2 = d6 /\ (byte \div 1) % 2 = d7
  OBVIOUS
<1> HIDE DEF d, byte
<1>7. b = 0 \/ b = 1 \/ b = 2 \/ b = 3 \/ b = 4 \/ b = 5 \/ b = 6 \/ b = 7
  OBVIOUS
<1>8. (byte \div Weights[b + 1]) % 2 = d(b)
  BY <1>4, <1>6, <1>7 DEF Weights
<1> QED
  BY <1>1, <1>5, <1>8 DEF BitSet

(* A blank byte has no bit set.                                             *)
LEMMA BlankByte ==
    ASSUME NEW b \in 0..7
    PROVE  ~BitSet(0, b)
<1>1. b = 0 \/ b = 1 \/ b = 2 \/ b = 3 \/ b = 4 \/ b = 5 \/ b = 6 \/ b = 7
  OBVIOUS
<1>2. Weights[b + 1] \in {128, 64, 32, 16, 8, 4, 2, 1}
  BY <1>1 DEF Weights
<1> QED
  BY <1>2 DEF BitSet

(* The dot at x is bit x % 8 of byte x \div 8.                              *)
LEMMA DotPosition ==
    ASSUME NEW n \in Nat, NEW x \in 0..(8 * n - 1)
    PROVE  x \div 8 \in 0..(n - 1) /\ x % 8 \in 0..7 /\ 8 * (x \div 8) + (x % 8) = x
<1>1. x \in Nat /\ x < 8 * n
  OBVIOUS
<1>2. /\ x \div 8 \in Nat /\ x % 8 \in Nat /\ x % 8 < 8
      /\ 8 * (x \div 8) + (x % 8) = x
  BY <1>1
<1> DEFINE q == x \div 8
<1>3. 8 * q <= x
  BY <1>2
<1> HIDE DEF q
<1>4. q \in Int => q < n
  BY <1>1, <1>3
<1>5. q \in 0..(n - 1)
  BY <1>2, <1>4 DEF q
<1> QED
  BY <1>2, <1>5 DEF q

-----------------------------------------------------------------------------
(* Packing, cutting and unpacking.                                          *)
LEMMA ByteOfType ==
    ASSUME NEW black, NEW x, NEW y
    PROVE  ByteOf(black, x, y) \in Int
<1>1. \A v, w : Dot(black, v, w) \in Int
  BY DEF Dot
<1> QED
  BY <1>1 DEF ByteOf

(* A packed picture holds every dot of it at its place.                     *)
LEMMA PackedDots ==
    ASSUME NEW black, NEW n \in Nat \ {0}, NEW h \in Nat
    PROVE  /\ PackRows(black, n, h) \in Seq(Int)
           /\ Len(PackRows(black, n, h)) = h * n
           /\ \A y \in 0..(h - 1), x \in 0..(8 * n - 1) :
                BitSet(PackRows(black, n, h)[y * n + x \div 8 + 1], x % 8) <=> <<x, y>> \in black
<1> DEFINE s == PackRows(black, n, h)
<1>1. n * h = h * n /\ h * n \in Nat
  BY ProductType
<1>2. s = [i \in 1..(h * n) |-> ByteOf(black, 8 * ((i - 1) % n), (i - 1) \div n)]
  BY <1>1 DEF PackRows
<1> HIDE DEF s
<1>3. s \in Seq(Int) /\ Len(s) = h * n
  BY <1>1, <1>2, ByteOfType
<1>4. ASSUME NEW y \in 0..(h - 1), NEW x \in 0..(8 * n - 1)
      PROVE  BitSet(s[y * n + x \div 8 + 1], x % 8) <=> <<x, y>> \in black
  <2> DEFINE c == x \div 8
             b == x % 8
             p == y * n + c
  <2>1. c \in 0..(n - 1) /\ b \in 0..7 /\ 8 * c + b = x
    BY DotPosition
  <2> HIDE DEF c, b
  <2>2. p + 1 \in 1..(h * n) /\ p \div n = y /\ p % n = c
    BY <2>1, BytePosition
  <2>3. y * n \in Nat /\ p \in Int /\ (p + 1) - 1 = p
    BY <2>1, ProductType
  <2> HIDE DEF p
  <2>4. s[p + 1] = ByteOf(black, 8 * c, y)
    BY <1>2, <2>2, <2>3
  <2>5. 8 * c \in Int /\ y \in Int
    BY <2>1
  <2>6. BitSet(s[p + 1], b) <=> <<x, y>> \in black
    <3>1. BitSet(ByteOf(black, 8 * c, y), b) <=> <<8 * c + b, y>> \in black
      BY <2>1, <2>5, BitOfByte
    <3> QED
      BY <2>1, <2>4, <3>1
  <2> QED
    BY <2>6 DEF p, c, b
<1> QED
  BY <1>3, <1>4 DEF s

(* What is known of a picture that was packed for the printer it goes to.   *)
Packed ==
    /\ request \in Requests /\ request.rowBytes = RowBytes
    /\ picture \subseteq Canvas
    /\ packed = PackRows(picture, request.rowBytes, request.contentHeight)

RowAt(y) == {x \in 0..Width - 1 : <<x, y>> \in picture}

LEMMA RequestType ==
    ASSUME request \in Requests
    PROVE  /\ request.contentHeight \in Nat \ {0} /\ request.rowBytes \in Nat \ {0}
           /\ TransferRows(request) \in Nat \ {0}
           /\ request.contentHeight <= TransferRows(request)
<1>1. request.contentHeight \in ContentHeights /\ request.rowBytes \in PreviewRowBytes
  BY DEF Requests
<1>2. request.contentHeight \in Nat \ {0} /\ request.rowBytes \in Nat \ {0}
  BY <1>1, InputAssumption
<1>3. TransferRows(request) \in Nat \ {0}
  BY TransferRowsType
<1>4. request.contentHeight <= TransferRows(request)
  BY <1>2, PlannerAssumption DEF TransferRows
<1> QED
  BY <1>2, <1>3, <1>4

LEMMA PackedLength ==
    ASSUME Packed
    PROVE  packed \in Seq(Int) /\ Len(packed) = request.contentHeight * RowBytes
BY RequestType, PackedDots DEF Packed

(* The transfer raster: the content's bytes, and zeros after them.          *)
LEMMA TransferBytes ==
    ASSUME Packed
    PROVE  /\ Transfer \in Seq(Int) /\ Len(Transfer) = TransferRows(request) * RowBytes
           /\ \A i \in 1..Len(Transfer) :
                Transfer[i] = IF i <= Len(packed) THEN packed[i] ELSE 0
<1> DEFINE t == TransferRows(request)
           h == request.contentHeight
           blank == [i \in 1..RowBytes * (t - h) |-> 0]
<1>1. t \in Nat /\ h \in Nat /\ h <= t /\ RowBytes \in Nat
  BY RequestType, PlannerAssumption DEF Packed
<1>2. packed \in Seq(Int) /\ Len(packed) = h * RowBytes
  BY PackedLength
<1>3. Transfer = packed \o blank
  BY DEF Transfer
<1> HIDE DEF t, h
<1>4. /\ h * RowBytes \in Nat /\ (t - h) * RowBytes \in Nat
      /\ t * RowBytes = h * RowBytes + (t - h) * RowBytes
      /\ RowBytes * (t - h) = (t - h) * RowBytes
  BY <1>1, ProductGrows
<1>5. blank \in Seq(Int) /\ Len(blank) = (t - h) * RowBytes
      /\ \A i \in 1..Len(blank) : blank[i] = 0
  BY <1>4
<1> HIDE DEF blank
<1>6. Transfer \in Seq(Int) /\ Len(Transfer) = Len(packed) + Len(blank)
      /\ \A i \in 1..Len(Transfer) :
           Transfer[i] = IF i <= Len(packed) THEN packed[i] ELSE blank[i - Len(packed)]
  <2>1. packed \in Seq(Int) /\ blank \in Seq(Int)
    BY <1>2, <1>5
  <2> QED
    BY <1>3, <2>1, ConcatProperties
<1>7. \A i \in 1..Len(Transfer) :
        ~(i <= Len(packed)) => i - Len(packed) \in 1..Len(blank)
  BY <1>2, <1>4, <1>5, <1>6
<1> QED
  BY <1>2, <1>4, <1>5, <1>6, <1>7 DEF t, h

(* Every dot of the picture is at its place in the transfer raster, and     *)
(* rows below the picture are blank.                                        *)
LEMMA TransferDots ==
    ASSUME Packed, NEW y \in 0..(TransferRows(request) - 1), NEW x \in 0..(Width - 1)
    PROVE  BitSet(Transfer[y * RowBytes + x \div 8 + 1], x % 8) <=> <<x, y>> \in picture
<1> DEFINE t == TransferRows(request)
           h == request.contentHeight
           c == x \div 8
           p == y * RowBytes + c + 1
<1>1. t \in Nat /\ h \in Nat /\ h <= t /\ RowBytes \in Nat \ {0} /\ Width = 8 * RowBytes
  BY RequestType, PlannerAssumption DEF Packed, Width
<1>2. c \in 0..(RowBytes - 1) /\ x % 8 \in 0..7
  BY <1>1, DotPosition
<1>3. y \in 0..(t - 1)
  OBVIOUS
<1>4. Len(packed) = h * RowBytes
  BY PackedLength
<1>5. packed = PackRows(picture, RowBytes, h)
  BY DEF Packed
<1> HIDE DEF t, h, c
<1>6. p \in 1..(t * RowBytes)
  BY <1>1, <1>2, <1>3, BytePosition
<1>7. Transfer[p] = IF p <= Len(packed) THEN packed[p] ELSE 0
  BY <1>6, TransferBytes DEF t
<1>8. CASE y < h
  <2>1. y \in 0..(h - 1)
    BY <1>1, <1>3, <1>8
  <2>2. p \in 1..(h * RowBytes)
    BY <1>1, <1>2, <2>1, BytePosition
  <2>3. Transfer[p] = packed[p]
    BY <1>4, <1>7, <2>2
  <2>4. BitSet(packed[p], x % 8) <=> <<x, y>> \in picture
    BY <1>1, <1>5, <2>1, PackedDots DEF c
  <2> QED
    BY <2>3, <2>4 DEF c
<1>9. CASE ~(y < h)
  <2>1. h * RowBytes <= y * RowBytes /\ y * RowBytes \in Nat /\ h * RowBytes \in Nat
    BY <1>1, <1>3, <1>9, ProductGrows
  <2>2. ~(p <= Len(packed))
    BY <1>2, <1>4, <2>1
  <2>3. ~BitSet(Transfer[p], x % 8)
    BY <1>2, <1>7, <2>2, BlankByte
  <2>4. <<x, y>> \notin picture
    <3>1. y \notin 0..(h - 1)
      BY <1>1, <1>3, <1>9
    <3>2. picture \subseteq (0..Width - 1) \X (0..h - 1)
      BY DEF Packed, Canvas, h
    <3> QED
      BY <3>1, <3>2
  <2> QED
    BY <2>3, <2>4 DEF c
<1> QED
  BY <1>1, <1>3, <1>8, <1>9

(* A band of a plan of so many rows, as the planner cuts it.                *)
Cut(b, rows) ==
    /\ b.startRow \in Nat /\ b.heightDots \in Nat \ {0}
    /\ b.startRow + b.heightDots <= rows
    /\ b.byteOffset = b.startRow * RowBytes
    /\ b.byteLength = b.heightDots * RowBytes

LEMMA BandBytes ==
    ASSUME Packed, NEW b, Cut(b, TransferRows(request))
    PROVE  /\ BandRaster(b) \in Seq(Int)
           /\ Len(BandRaster(b)) = b.heightDots * RowBytes
           /\ b.startRow * RowBytes \in Nat
           /\ b.startRow * RowBytes + b.heightDots * RowBytes <= Len(Transfer)
           /\ BandRaster(b) = SubSeq(Transfer, b.startRow * RowBytes + 1,
                                     b.startRow * RowBytes + b.heightDots * RowBytes)
           /\ \A k \in 1..b.heightDots * RowBytes :
                BandRaster(b)[k] = Transfer[b.startRow * RowBytes + k]
<1> DEFINE t == TransferRows(request)
           first == b.startRow * RowBytes
           len == b.heightDots * RowBytes
<1>1. t \in Nat /\ RowBytes \in Nat
  BY RequestType, PlannerAssumption DEF Packed
<1>2. /\ b.startRow \in Nat /\ b.heightDots \in Nat /\ b.startRow + b.heightDots <= t
      /\ b.byteOffset = first /\ b.byteLength = len
  BY DEF Cut
<1>3. /\ first \in Nat /\ len \in Nat
      /\ (b.startRow + b.heightDots) * RowBytes = first + len
  BY <1>1, <1>2, ProductType
<1>4. first + len <= t * RowBytes
  BY <1>1, <1>2, <1>3, ProductGrows
<1>5. Transfer \in Seq(Int) /\ Len(Transfer) = t * RowBytes
  BY TransferBytes
<1>6. BandRaster(b) = SubSeq(Transfer, first + 1, first + len)
  <2>1. Smaller(first + len, Len(Transfer)) = first + len
    BY <1>4, <1>5 DEF Smaller
  <2> QED
    BY <1>2, <2>1 DEF BandRaster
<1> HIDE DEF first, len, t
<1>7. /\ SubSeq(Transfer, first + 1, first + len) \in Seq(Int)
      /\ Len(SubSeq(Transfer, first + 1, first + len)) = len
      /\ \A k \in 1..len : SubSeq(Transfer, first + 1, first + len)[k] = Transfer[first + k]
  <2>1. \A k \in 1..(first + len) : Transfer[k] \in Int
    BY <1>3, <1>4, <1>5
  <2>2. (first + len) - (first + 1) + 1 = len /\ (\A k \in 1..len : (first + 1) + k - 1 = first + k)
    BY <1>3
  <2> QED
    BY <1>3, <1>4, <1>5, <2>1, <2>2, SubSeqProperties
<1> QED
  BY <1>3, <1>4, <1>5, <1>6, <1>7 DEF first, len, t

(* The printer reads a number from its two bytes.                           *)
LEMMA HeaderRead ==
    ASSUME NEW n \in Nat
    PROVE  Number(TwoBytes(n)[1], TwoBytes(n)[2]) = n
<1>1. HeaderBase \in Nat \ {0}
  BY SafetyAssumption
<1>2. (n % HeaderBase) + HeaderBase * (n \div HeaderBase) = n
  BY <1>1
<1> QED
  BY <1>2 DEF Number, TwoBytes

(* The printer makes of a band the rows of the picture that it covers.      *)
LEMMA PrintedRows ==
    ASSUME Packed, NEW b, Cut(b, TransferRows(request))
    PROVE  PrinterRows(RasterHeader(b.heightDots), BandRaster(b))
             = [y \in 1..b.heightDots |-> RowAt(b.startRow + y - 1)]
<1> DEFINE header == RasterHeader(b.heightDots)
           hh == b.heightDots
           s == b.startRow
<1>1. hh \in Nat /\ s \in Nat /\ s + hh <= TransferRows(request)
      /\ RowBytes \in Nat \ {0} /\ Width = 8 * RowBytes /\ TransferRows(request) \in Nat
  BY PlannerAssumption, RequestType DEF Cut, Packed, Width
<1>2. Number(header[1], header[2]) = RowBytes /\ Number(header[3], header[4]) = hh
  <2>1. /\ header[1] = TwoBytes(RowBytes)[1] /\ header[2] = TwoBytes(RowBytes)[2]
        /\ header[3] = TwoBytes(hh)[1] /\ header[4] = TwoBytes(hh)[2]
    BY DEF RasterHeader, TwoBytes
  <2> QED
    BY <1>1, <2>1, HeaderRead
<1> HIDE DEF header
<1>3. PrinterRows(header, BandRaster(b))
        = [y \in 1..hh |-> {x \in 0..8 * RowBytes - 1 :
                              BitSet(BandRaster(b)[(y - 1) * RowBytes + x \div 8 + 1], x % 8)}]
  BY <1>2 DEF PrinterRows
<1> HIDE DEF hh, s
<1>4. ASSUME NEW y \in 1..hh
      PROVE  {x \in 0..8 * RowBytes - 1 :
                BitSet(BandRaster(b)[(y - 1) * RowBytes + x \div 8 + 1], x % 8)}
               = RowAt(s + y - 1)
  <2>1. ASSUME NEW x \in 0..8 * RowBytes - 1
        PROVE  BitSet(BandRaster(b)[(y - 1) * RowBytes + x \div 8 + 1], x % 8)
                 <=> <<x, s + y - 1>> \in picture
    <3> DEFINE c == x \div 8
               v == y - 1
               k == v * RowBytes + c + 1
    <3>1. c \in 0..(RowBytes - 1)
      BY <1>1, DotPosition
    <3>2. v \in 0..(hh - 1) /\ v \in Nat
      BY <1>1
    <3> HIDE DEF c, v
    <3>3. k \in 1..(hh * RowBytes)
      BY <1>1, <3>1, <3>2, BytePosition
    <3>4. BandRaster(b)[k] = Transfer[s * RowBytes + k]
      BY <3>3, BandBytes DEF hh, s
    <3>5. s * RowBytes + k = (s + v) * RowBytes + c + 1
      <4>1. (s + v) * RowBytes = s * RowBytes + v * RowBytes
        BY <1>1, <3>2
      <4>2. s * RowBytes \in Nat /\ v * RowBytes \in Nat
        BY <1>1, <3>2, ProductType
      <4> QED
        BY <3>1, <4>1, <4>2
    <3>6. s + v \in 0..(TransferRows(request) - 1)
      BY <1>1, <3>2
    <3>7. BitSet(Transfer[(s + v) * RowBytes + x \div 8 + 1], x % 8) <=> <<x, s + v>> \in picture
      BY <1>1, <3>6, TransferDots
    <3>8. s + v = s + y - 1
      BY <1>1 DEF v
    <3>9. BandRaster(b)[k] = Transfer[(s + v) * RowBytes + c + 1]
      BY <3>4, <3>5
    <3> QED
      BY <3>7, <3>8, <3>9 DEF c, v
  <2> QED
    BY <1>1, <2>1 DEF RowAt
<1>5. \A y \in 1..hh :
        {x \in 0..8 * RowBytes - 1 :
           BitSet(BandRaster(b)[(y - 1) * RowBytes + x \div 8 + 1], x % 8)} = RowAt(s + y - 1)
  BY <1>4
<1>6. PrinterRows(header, BandRaster(b)) = [y \in 1..hh |-> RowAt(s + y - 1)]
  BY <1>3, <1>5, Zenon
<1> QED
  BY <1>6 DEF header, hh, s

-----------------------------------------------------------------------------
(* Counting black dots.                                                     *)
BlackIn(raster, i, j) == Cardinality(BitsSet(raster, i..j))

LEMMA BitsFinite ==
    ASSUME NEW raster, NEW i \in Int, NEW j \in Int
    PROVE  IsFiniteSet(BitsSet(raster, i..j)) /\ BlackIn(raster, i, j) \in Nat
<1>1. IsFiniteSet(i..j) /\ IsFiniteSet(0..7)
  <2>1. 0 \in Int /\ 7 \in Int
    OBVIOUS
  <2>2. \A a, b \in Int : IsFiniteSet(a..b)
    BY FS_Interval
  <2> QED
    BY <2>1, <2>2
<1>2. IsFiniteSet((i..j) \X (0..7))
  BY <1>1, FS_Product
<1>3. BitsSet(raster, i..j) \subseteq (i..j) \X (0..7)
  BY DEF BitsSet
<1> QED
  BY <1>2, <1>3, FS_Subset, FS_CardinalityType DEF BlackIn

(* Adjacent stretches of bytes add up.                                      *)
LEMMA BlackAdds ==
    ASSUME NEW raster, NEW i \in Int, NEW j \in Int, NEW k \in Int, i <= j + 1, j <= k
    PROVE  BlackIn(raster, i, k) = BlackIn(raster, i, j) + BlackIn(raster, j + 1, k)
<1> DEFINE S == BitsSet(raster, i..j)
           T == BitsSet(raster, (j + 1)..k)
<1>1. IsFiniteSet(S) /\ IsFiniteSet(T) /\ BlackIn(raster, i, j) \in Nat
      /\ BlackIn(raster, j + 1, k) \in Nat
  BY BitsFinite
<1>2. i..k = (i..j) \cup ((j + 1)..k) /\ (i..j) \cap ((j + 1)..k) = {}
  OBVIOUS
<1>3. BitsSet(raster, i..k) = S \cup T /\ S \cap T = {}
  BY <1>2 DEF BitsSet
<1>4. Cardinality(S \cup T) = Cardinality(S) + Cardinality(T) - Cardinality(S \cap T)
  BY <1>1, FS_Union
<1>5. Cardinality(S \cap T) = 0
  BY <1>3, FS_EmptySet
<1>6. /\ BlackIn(raster, i, k) = Cardinality(S \cup T)
      /\ BlackIn(raster, i, j) = Cardinality(S)
      /\ BlackIn(raster, j + 1, k) = Cardinality(T)
  BY <1>3 DEF BlackIn
<1> HIDE DEF S, T
<1> QED
  BY <1>1, <1>4, <1>5, <1>6

(* Blank bytes have no black dots, and neither have no bytes.               *)
LEMMA BlankIsWhite ==
    ASSUME NEW raster, NEW i \in Int, NEW j \in Int, \A k \in i..j : raster[k] = 0
    PROVE  BlackIn(raster, i, j) = 0
<1>1. BitsSet(raster, i..j) = {}
  BY BlankByte DEF BitsSet
<1> QED
  BY <1>1, FS_EmptySet DEF BlackIn

(* The same bytes have the same black dots.                                 *)
LEMMA SameBytes ==
    ASSUME NEW r, NEW s, NEW i \in Int, NEW j \in Int, \A k \in i..j : r[k] = s[k]
    PROVE  BlackIn(r, i, j) = BlackIn(s, i, j)
<1>1. BitsSet(r, i..j) = BitsSet(s, i..j)
  BY DEF BitsSet
<1> QED
  BY <1>1 DEF BlackIn

(* A stretch that is copied keeps its black dots.                           *)
LEMMA BlackMoves ==
    ASSUME NEW r, NEW s, NEW n \in Nat, NEW off \in Int,
           \A k \in 1..n : r[k] = s[off + k]
    PROVE  BlackIn(r, 1, n) = BlackIn(s, off + 1, off + n)
<1> DEFINE S == BitsSet(r, 1..n)
           T == BitsSet(s, (off + 1)..(off + n))
           f == [d \in S |-> <<off + d[1], d[2]>>]
<1>1. S = {d \in (1..n) \X (0..7) : BitSet(r[d[1]], d[2])}
      /\ T = {d \in ((off + 1)..(off + n)) \X (0..7) : BitSet(s[d[1]], d[2])}
  BY DEF BitsSet
<1>2. f \in [S -> T]
  <2> SUFFICES ASSUME NEW d \in S PROVE <<off + d[1], d[2]>> \in T
    OBVIOUS
  <2>1. d[1] \in 1..n /\ d[2] \in 0..7 /\ BitSet(r[d[1]], d[2])
    BY <1>1
  <2>2. off + d[1] \in (off + 1)..(off + n) /\ r[d[1]] = s[off + d[1]]
    BY <2>1
  <2> QED
    BY <1>1, <2>1, <2>2
<1>3. ASSUME NEW a \in S, NEW b \in S, f[a] = f[b]
      PROVE  a = b
  <2>1. a[1] \in 1..n /\ b[1] \in 1..n /\ a = <<a[1], a[2]>> /\ b = <<b[1], b[2]>>
    BY <1>1
  <2>2. off + a[1] = off + b[1] /\ a[2] = b[2]
    BY <1>3
  <2> QED
    BY <2>1, <2>2
<1>4. ASSUME NEW t \in T
      PROVE  \E d \in S : f[d] = t
  <2>1. t[1] \in (off + 1)..(off + n) /\ t[2] \in 0..7 /\ BitSet(s[t[1]], t[2])
        /\ t = <<t[1], t[2]>>
    BY <1>1
  <2>2. t[1] - off \in 1..n /\ off + (t[1] - off) = t[1]
    BY <2>1
  <2>3. <<t[1] - off, t[2]>> \in S
    BY <1>1, <2>1, <2>2
  <2>4. f[<<t[1] - off, t[2]>>] = t
    BY <2>1, <2>2, <2>3
  <2> QED
    BY <2>3, <2>4
<1> HIDE DEF S, T, f
<1>5. ExistsBijection(S, T)
  BY <1>2, <1>3, <1>4, Fun_IsBij DEF ExistsBijection
<1>6. IsFiniteSet(S)
  BY BitsFinite DEF S
<1> QED
  BY <1>5, <1>6, FS_Bijection DEF S, T, BlackIn

(* The black dots of rows of the transfer raster, and how many there may be *)
(* in so many rows.                                                         *)
BlackRows(y, z) == BlackIn(Transfer, y * RowBytes + 1, z * RowBytes)
Limit(rows) == BlockCoverage * 8 * (rows * RowBytes)
Cool(y, z) == 100 * BlackRows(y, z) <= Limit(z - y)

LEMMA LimitAdds ==
    ASSUME NEW a \in Nat, NEW b \in Nat
    PROVE  /\ Limit(a) \in Nat /\ Limit(b) \in Nat
           /\ Limit(a + b) = Limit(a) + Limit(b)
<1> DEFINE p == BlockCoverage * 8
<1>1. p \in Nat /\ RowBytes \in Nat
  BY SafetyAssumption, PlannerAssumption
<1> HIDE DEF p
<1>2. /\ a * RowBytes \in Nat /\ b * RowBytes \in Nat
      /\ (a + b) * RowBytes = a * RowBytes + b * RowBytes
  BY <1>1, ProductType
<1>3. /\ p * (a * RowBytes) \in Nat /\ p * (b * RowBytes) \in Nat
      /\ p * (a * RowBytes + b * RowBytes) = p * (a * RowBytes) + p * (b * RowBytes)
  BY <1>1, <1>2, ProductType
<1> QED
  BY <1>2, <1>3 DEF Limit, p

LEMMA BlackRowsAdd ==
    ASSUME NEW x \in Nat, NEW y \in Nat, NEW z \in Nat, x <= y, y <= z
    PROVE  /\ BlackRows(x, y) \in Nat /\ BlackRows(y, z) \in Nat
           /\ BlackRows(x, z) = BlackRows(x, y) + BlackRows(y, z)
<1>1. RowBytes \in Nat
  BY PlannerAssumption
<1>2. /\ x * RowBytes \in Nat /\ y * RowBytes \in Nat /\ z * RowBytes \in Nat
      /\ x * RowBytes <= y * RowBytes /\ y * RowBytes <= z * RowBytes
  BY <1>1, ProductGrows
<1> QED
  BY <1>2, BitsFinite, BlackAdds DEF BlackRows

(* Stretches of rows that are cool are cool together.                       *)
LEMMA CoolAdds ==
    ASSUME NEW x \in Nat, NEW y \in Nat, NEW z \in Nat, x <= y, y <= z,
           Cool(x, y), Cool(y, z)
    PROVE  Cool(x, z)
<1>1. /\ BlackRows(x, y) \in Nat /\ BlackRows(y, z) \in Nat
      /\ BlackRows(x, z) = BlackRows(x, y) + BlackRows(y, z)
  BY BlackRowsAdd
<1>2. y - x \in Nat /\ z - y \in Nat /\ (y - x) + (z - y) = z - x
  OBVIOUS
<1>3. Limit(y - x) \in Nat /\ Limit(z - y) \in Nat /\ Limit(z - x) = Limit(y - x) + Limit(z - y)
  BY <1>2, LimitAdds
<1>4. 100 * BlackRows(x, y) <= Limit(y - x) /\ 100 * BlackRows(y, z) <= Limit(z - y)
  BY DEF Cool
<1> QED
  BY <1>1, <1>3, <1>4 DEF Cool

(* Rows below the picture are cool, and so are no rows.                     *)
LEMMA TailIsCool ==
    ASSUME Packed, NEW y \in Nat, NEW z \in Nat, y <= z, z <= TransferRows(request),
           y = z \/ request.contentHeight <= y
    PROVE  Cool(y, z)
<1> DEFINE h == request.contentHeight
           t == TransferRows(request)
<1>1. RowBytes \in Nat /\ h \in Nat /\ t \in Nat /\ z <= t
  BY PlannerAssumption, RequestType DEF Packed
<1>2. Len(packed) = h * RowBytes /\ Len(Transfer) = t * RowBytes
  BY PackedLength, TransferBytes
<1> HIDE DEF h, t
<1>3. /\ y * RowBytes \in Nat /\ z * RowBytes \in Nat /\ h * RowBytes \in Nat
      /\ t * RowBytes \in Nat /\ z * RowBytes <= t * RowBytes
  BY <1>1, ProductGrows
<1>4. \A k \in (y * RowBytes + 1)..(z * RowBytes) : Transfer[k] = 0
  <2> SUFFICES ASSUME NEW k \in (y * RowBytes + 1)..(z * RowBytes) PROVE Transfer[k] = 0
    OBVIOUS
  <2>1. y # z
    BY <1>3
  <2>2. h <= y
    BY <2>1 DEF h
  <2>3. h * RowBytes <= y * RowBytes
    BY <1>1, <2>2, ProductGrows
  <2>4. k \in 1..Len(Transfer) /\ ~(k <= Len(packed))
    BY <1>2, <1>3, <2>3
  <2> QED
    BY <2>4, TransferBytes
<1>5. BlackRows(y, z) = 0
  BY <1>3, <1>4, BlankIsWhite DEF BlackRows
<1>6. Limit(z - y) \in Nat
  <2>1. z - y \in Nat
    OBVIOUS
  <2> QED
    BY <2>1, LimitAdds
<1> QED
  BY <1>5, <1>6 DEF Cool

(* A stretch of rows that is cut out is blacker than the limit exactly if   *)
(* the rows are.                                                            *)
LEMMA CutIsCool ==
    ASSUME NEW raster, NEW y \in Nat, NEW n \in Nat,
           Len(raster) = n * RowBytes, DOMAIN raster = 1..Len(raster),
           \A k \in 1..(n * RowBytes) : raster[k] = Transfer[y * RowBytes + k]
    PROVE  ~Blacker(raster, BlockCoverage) <=> Cool(y, y + n)
<1>1. /\ y * RowBytes \in Nat /\ n * RowBytes \in Nat
      /\ (y + n) * RowBytes = y * RowBytes + n * RowBytes
  BY PlannerAssumption, ProductType
<1>2. BlackDots(raster) = BlackIn(raster, 1, n * RowBytes)
  BY DEF BlackDots, BlackIn
<1>3. BlackDots(raster) = BlackRows(y, y + n)
  <2> DEFINE off == y * RowBytes
             m == n * RowBytes
  <2>1. off \in Int /\ m \in Nat /\ \A k \in 1..m : raster[k] = Transfer[off + k]
    BY <1>1
  <2>2. BlackRows(y, y + n) = BlackIn(Transfer, off + 1, off + m)
    BY <1>1 DEF BlackRows
  <2> HIDE DEF off, m
  <2>3. BlackIn(raster, 1, m) = BlackIn(Transfer, off + 1, off + m)
    BY <2>1, BlackMoves
  <2> QED
    BY <1>2, <2>2, <2>3 DEF m
<1>4. BlackRows(y, y + n) \in Nat
  BY <1>1, BitsFinite DEF BlackRows
<1>5. (y + n) - y = n /\ Limit(n) \in Nat
  BY LimitAdds
<1>6. Blacker(raster, BlockCoverage) <=> 100 * BlackRows(y, y + n) > Limit(n)
  BY <1>3 DEF Blacker, Limit
<1> QED
  BY <1>4, <1>5, <1>6 DEF Cool

(* What the safety report measured is cool, each of its bands with the      *)
(* shorter one at the end.                                                  *)
LEMMA MeasuredIsCool ==
    ASSUME Packed, Allowed, NEW k \in Nat, k * SafetyBand < request.contentHeight
    PROVE  Cool(k * SafetyBand, Smaller((k + 1) * SafetyBand, request.contentHeight))
<1> DEFINE h == request.contentHeight
           start == k * SafetyBand
           height == Smaller(SafetyBand, h - start)
           raster == Rows(packed, RowBytes, start, height)
<1>1. /\ h \in Nat \ {0} /\ SafetyBand \in Nat \ {0} /\ RowBytes \in Nat
      /\ request.rowBytes = RowBytes
  BY SafetyAssumption, PlannerAssumption, RequestType DEF Packed
<1>2. start \in Nat /\ (k + 1) * SafetyBand = start + SafetyBand
  BY <1>1, ProductType
<1>3. k \in 0..(h - 1) \div SafetyBand
  <2> DEFINE q == (h - 1) \div SafetyBand
  <2>1. h - 1 \in Nat /\ q \in Nat /\ h - 1 < SafetyBand * q + SafetyBand
    <3>1. PICK v \in Nat : v = h - 1
      BY <1>1
    <3>2. /\ v \div SafetyBand \in Nat /\ v % SafetyBand < SafetyBand
          /\ v = SafetyBand * (v \div SafetyBand) + (v % SafetyBand)
          /\ SafetyBand * (v \div SafetyBand) \in Nat /\ v % SafetyBand \in Nat
      BY <1>1, QuotientRemainder
    <3> QED
      BY <1>1, <3>1, <3>2
  <2> HIDE DEF q
  <2>2. ASSUME q < k PROVE FALSE
    <3>1. (q + 1) * SafetyBand <= k * SafetyBand
      BY <1>1, <2>1, <2>2, ProductGrows
    <3>2. (q + 1) * SafetyBand = SafetyBand * q + SafetyBand
      BY <1>1, <2>1
    <3>3. SafetyBand * q \in Nat
      BY <1>1, <2>1, ProductType
    <3> QED
      BY <1>1, <1>2, <2>1, <3>1, <3>2, <3>3
  <2> QED
    BY <2>1, <2>2 DEF q
<1>4. ~Blacker(raster, BlockCoverage)
  <2>1. start \in {i * SafetyBand : i \in 0..(h - 1) \div SafetyBand}
    BY <1>3
  <2> QED
    BY <1>1, <2>1 DEF Allowed
<1> HIDE DEF start
<1>5. height \in Nat /\ start + height <= h
      /\ start + height = Smaller((k + 1) * SafetyBand, h)
  BY <1>1, <1>2 DEF Smaller, start
<1> HIDE DEF height, h
<1>6. /\ start * RowBytes \in Nat /\ height * RowBytes \in Nat
      /\ (start + height) * RowBytes = start * RowBytes + height * RowBytes
      /\ (start + height) * RowBytes <= h * RowBytes
  BY <1>1, <1>2, <1>5, ProductGrows, ProductType
<1>7. packed \in Seq(Int) /\ Len(packed) = h * RowBytes
  BY PackedLength DEF h
<1>8. \A i \in 1..Len(packed) : packed[i] = Transfer[i]
  <2>1. Len(packed) <= Len(Transfer)
    <3>1. h * RowBytes <= TransferRows(request) * RowBytes
      BY <1>1, RequestType, ProductGrows DEF h, Packed
    <3> QED
      BY <1>7, <3>1, TransferBytes
  <2> QED
    BY <1>7, <2>1, TransferBytes
<1>9. /\ raster \in Seq(Int) /\ Len(raster) = height * RowBytes
      /\ \A i \in 1..height * RowBytes : raster[i] = Transfer[start * RowBytes + i]
  <2> DEFINE first == start * RowBytes
             len == height * RowBytes
  <2>1. raster = SubSeq(packed, first + 1, first + len)
    BY <1>6 DEF Rows
  <2>2. first \in Nat /\ len \in Nat /\ first + len <= Len(packed)
    BY <1>6, <1>7
  <2> HIDE DEF first, len
  <2>3. \A i \in (first + 1)..(first + len) : packed[i] \in Int
    BY <1>7, <2>2
  <2>4. /\ SubSeq(packed, first + 1, first + len) \in Seq(Int)
        /\ Len(SubSeq(packed, first + 1, first + len)) = len
        /\ \A i \in 1..len : SubSeq(packed, first + 1, first + len)[i] = packed[first + i]
    <3>1. (first + len) - (first + 1) + 1 = len /\ (\A i \in 1..len : (first + 1) + i - 1 = first + i)
      BY <2>2
    <3>2. first + 1 \in Int /\ first + len \in Int /\ (first + 1 <= first + len \/ len = 0)
      BY <2>2
    <3> QED
      BY <2>2, <2>3, <3>1, <3>2, SubSeqProperties
  <2>5. \A i \in 1..len : packed[first + i] = Transfer[first + i]
    BY <1>8, <2>2
  <2> QED
    BY <2>1, <2>4, <2>5 DEF first, len
<1> HIDE DEF raster
<1>10. DOMAIN raster = 1..Len(raster)
  BY <1>9
<1>11. Cool(start, start + height)
  BY <1>2, <1>4, <1>5, <1>9, <1>10, CutIsCool
<1> QED
  BY <1>5, <1>11 DEF start, h

(* Any number of measured bands in a row is cool, by induction on it.       *)
LEMMA RunIsCool ==
    ASSUME Packed, Allowed, NEW i \in Nat, i * SafetyBand < request.contentHeight,
           NEW n \in Nat
    PROVE  Cool(i * SafetyBand, Smaller((i + n) * SafetyBand, request.contentHeight))
<1> DEFINE h == request.contentHeight
           End(m) == Smaller((i + m) * SafetyBand, h)
           Hot == {m \in Nat : ~Cool(i * SafetyBand, End(m))}
<1>1. h \in Nat \ {0} /\ SafetyBand \in Nat \ {0}
  BY SafetyAssumption, RequestType DEF Packed
<1>2. i * SafetyBand \in Nat
  BY <1>1, ProductType
<1> SUFFICES ASSUME Hot # {} PROVE FALSE
  OBVIOUS
<1>3. PICK m \in Hot : \A k \in Hot : m <= k
  <2>1. Hot \subseteq Nat
    OBVIOUS
  <2> HIDE DEF Hot
  <2> QED
    BY <2>1, LeastNumber
<1>4. CASE m = 0
  <2>1. End(m) = i * SafetyBand
    BY <1>1, <1>2, <1>4 DEF Smaller
  <2>2. h <= TransferRows(request)
    BY RequestType DEF Packed
  <2>3. TransferRows(request) \in Nat
    BY RequestType DEF Packed
  <2>4. Cool(i * SafetyBand, i * SafetyBand)
    BY <1>1, <1>2, <2>2, <2>3, TailIsCool
  <2> QED
    BY <2>1, <2>4
<1>5. CASE m # 0
  <2> DEFINE k == m - 1
             mid == (i + k) * SafetyBand
  <2>1. k \in Nat /\ m \in Nat /\ i + k \in Nat /\ i <= i + k /\ i + m = (i + k) + 1
    BY <1>5
  <2>2. k \notin Hot
    BY <1>3, <2>1
  <2>3. Cool(i * SafetyBand, End(k))
    BY <2>1, <2>2
  <2> HIDE DEF k
  <2>4. /\ mid \in Nat /\ i * SafetyBand <= mid
        /\ (i + m) * SafetyBand = ((i + k) + 1) * SafetyBand
        /\ ((i + k) + 1) * SafetyBand = mid + SafetyBand
    BY <1>1, <2>1, ProductGrows
  <2>5. CASE mid < h
    <3>1. Cool(mid, Smaller(((i + k) + 1) * SafetyBand, h))
      BY <2>1, <2>5, MeasuredIsCool
    <3>2. End(k) = mid
      BY <1>1, <2>4, <2>5 DEF Smaller
    <3>3. Cool(i * SafetyBand, mid)
      BY <2>3, <3>2
    <3>4. Cool(mid, End(m))
      BY <2>4, <3>1
    <3>5. End(m) \in Nat /\ mid <= End(m)
      BY <1>1, <2>4, <2>5 DEF Smaller
    <3> HIDE DEF End, mid
    <3>6. Cool(i * SafetyBand, End(m))
      BY <1>2, <2>4, <3>3, <3>4, <3>5, CoolAdds
    <3> QED
      BY <3>6
  <2>6. CASE ~(mid < h)
    <3>1. End(k) = h /\ End(m) = h
      BY <1>1, <2>4, <2>6 DEF Smaller
    <3> QED
      BY <2>3, <3>1
  <2> QED
    BY <2>5, <2>6
<1> QED
  BY <1>4, <1>5

(* A band of the plan begins where a measured band begins, and is made of   *)
(* measured bands, a shorter one, and blank rows.                           *)
LEMMA BandIsCool ==
    ASSUME Packed, Allowed, NEW b, Cut(b, TransferRows(request)),
           NEW j \in Nat, b.startRow = j * MaxBandHeight,
           b.heightDots = BandHeight(b.startRow, TransferRows(request))
    PROVE  ~Blacker(BandRaster(b), BlockCoverage)
<1> DEFINE h == request.contentHeight
           t == TransferRows(request)
           s == b.startRow
           n == b.heightDots
           end == Smaller(s + MaxBandHeight, h)
<1>1. /\ h \in Nat \ {0} /\ t \in Nat /\ h <= t /\ SafetyBand \in Nat \ {0}
      /\ MaxBandHeight \in Nat \ {0}
  BY SafetyAssumption, PlannerAssumption, RequestType DEF Packed
<1>2. s \in Nat /\ n \in Nat /\ s + n <= t /\ n = Smaller(MaxBandHeight, t - s)
  BY DEF Cut, BandHeight
<1>3. PICK q \in Nat : MaxBandHeight = q * SafetyBand
  <2>1. /\ MaxBandHeight \div SafetyBand \in Nat
        /\ MaxBandHeight = SafetyBand * (MaxBandHeight \div SafetyBand)
    BY <1>1, SafetyAssumption
  <2>2. SafetyBand * (MaxBandHeight \div SafetyBand) = (MaxBandHeight \div SafetyBand) * SafetyBand
    BY <1>1, <2>1
  <2> QED
    BY <2>1, <2>2
<1>4. PICK i \in Nat : s = i * SafetyBand
  <2>1. j * q \in Nat /\ (j * q) * SafetyBand = j * (q * SafetyBand)
    BY <1>1, ProductType
  <2> QED
    BY <1>3, <2>1
<1> HIDE DEF h, t, s, n
<1>5. Cool(s, s + n)
  <2>1. CASE h <= s
    BY <1>1, <1>2, <2>1, TailIsCool DEF t, h
  <2>2. CASE ~(h <= s)
    <3>1. (i + q) * SafetyBand = s + MaxBandHeight
      BY <1>1, <1>3, <1>4
    <3>2. Cool(s, end)
      <4>1. i * SafetyBand < request.contentHeight
        BY <1>1, <1>2, <1>4, <2>2 DEF h
      <4>2. Cool(i * SafetyBand, Smaller((i + q) * SafetyBand, request.contentHeight))
        BY <4>1, RunIsCool
      <4> QED
        BY <1>4, <3>1, <4>2 DEF h
    <3>3. end \in Nat /\ s <= end /\ end <= s + n /\ (end = s + n \/ h <= end)
      BY <1>1, <1>2, <2>2 DEF Smaller
    <3> HIDE DEF end
    <3>4. Cool(end, s + n)
      BY <1>1, <1>2, <3>3, TailIsCool DEF t, h
    <3> QED
      BY <1>2, <3>2, <3>3, <3>4, CoolAdds
  <2> QED
    BY <2>1, <2>2
<1>6. /\ BandRaster(b) \in Seq(Int) /\ Len(BandRaster(b)) = n * RowBytes
      /\ \A k \in 1..n * RowBytes : BandRaster(b)[k] = Transfer[s * RowBytes + k]
  BY BandBytes DEF s, n
<1>7. DOMAIN BandRaster(b) = 1..Len(BandRaster(b))
  BY <1>6
<1> QED
  BY <1>2, <1>5, <1>6, <1>7, CutIsCool

-----------------------------------------------------------------------------
(* Drawing.                                                                 *)
LEMMA ElementType ==
    ASSUME NEW e \in Elements
    PROVE  /\ e.x \in Int /\ e.y \in Int /\ e.w \in Int /\ e.h \in Int
           /\ e.type \in {"rect", "image", "qr"}
           /\ e.type = "rect" => e.black \in BOOLEAN
           /\ e.type = "image" =>
                /\ e.fit \in {"contain", "cover"}
                /\ e.sourceW \in Nat \ {0} /\ e.sourceH \in Nat \ {0}
           /\ e.type = "qr" =>
                /\ e.size \in Nat \ {0}
                /\ e.modules \subseteq (0..e.size - 1) \X (0..e.size - 1)
BY ElementAssumption

LEMMA AreaWithin ==
    ASSUME NEW x \in Int, NEW y \in Int, NEW w \in Int, NEW h \in Int,
           NEW u \in Int, NEW v \in Int, NEW m \in Int, NEW n \in Int,
           x <= u, u + m <= x + w, y <= v, v + n <= y + h
    PROVE  Area(u, v, m, n) \subseteq Area(x, y, w, h)
<1>1. (u..u + m - 1) \subseteq (x..x + w - 1)
  OBVIOUS
<1>2. (v..v + n - 1) \subseteq (y..y + h - 1)
  OBVIOUS
<1> QED
  BY <1>1, <1>2 DEF Area

(* Rounding does not carry a quotient over a number that it is not over.    *)
LEMMA RoundedWithin ==
    ASSUME NEW n \in Nat, NEW d \in Nat \ {0}, NEW h \in Nat, n <= h * d
    PROVE  RoundDiv(n, d) \in Nat /\ RoundDiv(n, d) <= h
<1> DEFINE q == n \div d
           m == n % d
<1>1. q \in Nat /\ m \in Nat /\ m < d /\ d * q \in Nat /\ n = d * q + m
  BY QuotientRemainder
<1>2. RoundDiv(n, d) = IF 2 * m > d \/ (2 * m = d /\ q % 2 = 1) THEN q + 1 ELSE q
  BY DEF RoundDiv
<1> HIDE DEF q, m
<1>3. q * d = d * q /\ h * d \in Nat
  BY <1>1, ProductType
<1>4. ASSUME h < q PROVE FALSE
  <2>1. (h + 1) * d <= q * d
    BY <1>1, <1>4, ProductGrows
  <2>2. (h + 1) * d = h * d + d
    OBVIOUS
  <2> QED
    BY <1>1, <1>3, <2>1, <2>2
<1>5. q = h => m = 0
  BY <1>1, <1>3
<1>6. q <= h
  BY <1>1, <1>4
<1>7. RoundDiv(n, d) = q \/ (RoundDiv(n, d) = q + 1 /\ m # 0)
  BY <1>1, <1>2
<1> QED
  BY <1>1, <1>5, <1>6, <1>7

(* A fitted image lies in its box.                                          *)
LEMMA InsideInBox ==
    ASSUME NEW e \in Elements, e.type = "image", ~Empty(e)
    PROVE  Inside(e) \subseteq Box(e)
<1>1. /\ e.x \in Int /\ e.y \in Int /\ e.w \in Nat \ {0} /\ e.h \in Nat \ {0}
      /\ e.sourceW \in Nat \ {0} /\ e.sourceH \in Nat \ {0}
  BY ElementType DEF Empty
<1>2. CASE e.fit = "contain"
  <2>1. ResizedW(e) \in Nat /\ ResizedW(e) <= e.w /\ ResizedH(e) \in Nat /\ ResizedH(e) <= e.h
    <3>1. CASE ByWidth(e)
      <4>1. e.w * e.sourceH <= e.h * e.sourceW
        BY <1>2, <3>1 DEF ByWidth
      <4>2. e.sourceH * e.w = e.w * e.sourceH /\ e.sourceH * e.w \in Nat
        BY <1>1, ProductType
      <4>3. RoundDiv(e.sourceH * e.w, e.sourceW) \in Nat /\ RoundDiv(e.sourceH * e.w, e.sourceW) <= e.h
        BY <1>1, <4>1, <4>2, RoundedWithin
      <4> QED
        BY <1>1, <3>1, <4>3 DEF ResizedW, ResizedH, Larger
    <3>2. CASE ~ByWidth(e)
      <4>1. ~(e.w * e.sourceH <= e.h * e.sourceW)
        BY <1>2, <3>2 DEF ByWidth
      <4>2. /\ e.sourceW * e.h = e.h * e.sourceW /\ e.sourceW * e.h \in Nat
            /\ e.w * e.sourceH \in Nat
        BY <1>1, ProductType
      <4>3. e.sourceW * e.h <= e.w * e.sourceH
        BY <4>1, <4>2
      <4>4. RoundDiv(e.sourceW * e.h, e.sourceH) \in Nat /\ RoundDiv(e.sourceW * e.h, e.sourceH) <= e.w
        BY <1>1, <4>2, <4>3, RoundedWithin
      <4> QED
        BY <1>1, <3>2, <4>4 DEF ResizedW, ResizedH, Larger
    <3> QED
      BY <3>1, <3>2
  <2> DEFINE m == ResizedW(e)
             n == ResizedH(e)
             u == (e.w - m) \div 2
             v == (e.h - n) \div 2
  <2>2. Inside(e) = Area(e.x + u, e.y + v, m, n)
    BY <1>2 DEF Inside
  <2>3. m \in Nat /\ m <= e.w /\ n \in Nat /\ n <= e.h
    BY <2>1
  <2> HIDE DEF m, n
  <2>4. u \in Int /\ v \in Int /\ 0 <= u /\ 0 <= v /\ u + m <= e.w /\ v + n <= e.h
    BY <1>1, <2>3
  <2> HIDE DEF u, v
  <2>5. /\ e.x <= e.x + u /\ (e.x + u) + m <= e.x + e.w
        /\ e.y <= e.y + v /\ (e.y + v) + n <= e.y + e.h
        /\ e.x + u \in Int /\ e.y + v \in Int
    BY <1>1, <2>3, <2>4
  <2>6. Area(e.x + u, e.y + v, m, n) \subseteq Area(e.x, e.y, e.w, e.h)
    BY <1>1, <2>3, <2>5, AreaWithin
  <2> QED
    BY <2>2, <2>6 DEF Box
<1>3. CASE e.fit # "contain"
  BY <1>3 DEF Inside
<1> QED
  BY <1>2, <1>3

(* A QR code with no more modules than dots lies in its box.                *)
LEMMA QrInBox ==
    ASSUME NEW e \in Elements, e.type = "qr", ~Empty(e), Smaller(e.w, e.h) >= e.size
    PROVE  QrDots(e) \subseteq Box(e)
<1>1. /\ e.x \in Int /\ e.y \in Int /\ e.w \in Nat \ {0} /\ e.h \in Nat \ {0}
      /\ e.size \in Nat \ {0}
      /\ e.modules \subseteq (0..e.size - 1) \X (0..e.size - 1)
  BY ElementType DEF Empty
<1> DEFINE side == Smaller(e.w, e.h)
           m == ModuleSize(e)
           left == e.x + Larger(0, (e.w - m * e.size) \div 2)
           top == e.y + Larger(0, (e.h - m * e.size) \div 2)
<1>2. side \in Nat /\ side <= e.w /\ side <= e.h /\ side >= e.size
  BY <1>1 DEF Smaller
<1> HIDE DEF side
<1>3. m \in Nat \ {0} /\ m * e.size \in Nat /\ m * e.size <= side
  <2> DEFINE q == side \div e.size
  <2>1. q \in Nat /\ e.size * q \in Nat /\ e.size * q <= side /\ side < e.size * q + e.size
    <3>1. /\ q \in Nat /\ side % e.size \in Nat /\ side % e.size < e.size
          /\ e.size * q \in Nat /\ side = e.size * q + (side % e.size)
      BY <1>1, <1>2, QuotientRemainder
    <3> HIDE DEF q
    <3> QED
      BY <1>1, <1>2, <3>1
  <2>2. m = Larger(1, q)
    BY DEF ModuleSize, side
  <2> HIDE DEF q, m
  <2>3. q # 0
    BY <1>1, <1>2, <2>1
  <2>4. m = q
    BY <2>1, <2>2, <2>3 DEF Larger
  <2> QED
    BY <1>1, <2>1, <2>3, <2>4
<1>4. /\ left \in Int /\ e.x <= left /\ left + m * e.size <= e.x + e.w
      /\ top \in Int /\ e.y <= top /\ top + m * e.size <= e.y + e.h
  <2> DEFINE s == m * e.size
  <2>1. s \in Nat /\ s <= e.w /\ s <= e.h
    BY <1>1, <1>2, <1>3
  <2> HIDE DEF s
  <2>2. /\ Larger(0, (e.w - s) \div 2) \in Nat /\ Larger(0, (e.w - s) \div 2) + s <= e.w
        /\ Larger(0, (e.h - s) \div 2) \in Nat /\ Larger(0, (e.h - s) \div 2) + s <= e.h
    BY <1>1, <2>1 DEF Larger
  <2>3. /\ left = e.x + Larger(0, (e.w - s) \div 2)
        /\ top = e.y + Larger(0, (e.h - s) \div 2)
    BY DEF s
  <2> HIDE DEF left, top
  <2>4. /\ left \in Int /\ e.x <= left /\ left + s <= e.x + e.w
        /\ top \in Int /\ e.y <= top /\ top + s <= e.y + e.h
    BY <1>1, <2>1, <2>2, <2>3
  <2> QED
    BY <2>4 DEF s
<1>5. QrDots(e) = UNION {Area(left + c[1] * m, top + c[2] * m, m, m) : c \in e.modules}
  BY DEF QrDots
<1> HIDE DEF m, left, top
<1>6. ASSUME NEW i \in 0..e.size - 1
      PROVE  i * m \in Nat /\ i * m + m <= m * e.size
  <2>1. (i + 1) * m <= e.size * m
    BY <1>1, <1>3, ProductGrows
  <2>2. (i + 1) * m = i * m + m /\ e.size * m = m * e.size
    BY <1>1, <1>3
  <2>3. i * m \in Nat
    BY <1>3, ProductType
  <2> QED
    BY <2>1, <2>2, <2>3
<1>7. ASSUME NEW c \in e.modules
      PROVE  Area(left + c[1] * m, top + c[2] * m, m, m) \subseteq Box(e)
  <2>1. c[1] \in 0..e.size - 1 /\ c[2] \in 0..e.size - 1
    BY <1>1
  <2>2. PICK i \in 0..e.size - 1, j \in 0..e.size - 1 : i = c[1] /\ j = c[2]
    BY <2>1
  <2> DEFINE a == i * m
             b == j * m
  <2>3. /\ a \in Nat /\ a + m <= m * e.size /\ b \in Nat /\ b + m <= m * e.size
    BY <1>6
  <2> HIDE DEF a, b
  <2>4. /\ left + a \in Int /\ e.x <= left + a /\ (left + a) + m <= e.x + e.w
        /\ top + b \in Int /\ e.y <= top + b /\ (top + b) + m <= e.y + e.h
    BY <1>1, <1>3, <1>4, <2>3
  <2>5. Area(left + a, top + b, m, m) \subseteq Area(e.x, e.y, e.w, e.h)
    BY <1>1, <1>3, <2>4, AreaWithin
  <2> QED
    BY <2>2, <2>5 DEF a, b, Box
<1> QED
  BY <1>5, <1>7

(* An element changes dots in its box only, and none beyond the canvas.     *)
LEMMA PaintedInBox ==
    ASSUME NEW e \in Elements, picture \subseteq Canvas
    PROVE  /\ Painted(e) \subseteq Canvas
           /\ (e.type = "qr" => Smaller(e.w, e.h) >= e.size) =>
                (picture \cup Painted(e)) \ (picture \cap Painted(e)) \subseteq Box(e)
<1>1. CASE Empty(e)
  BY <1>1 DEF Painted
<1>2. CASE ~Empty(e)
  <2> DEFINE after == CASE e.type = "rect" /\ e.black -> picture \cup Box(e)
                        [] e.type = "rect" /\ ~e.black -> picture \ Box(e)
                        [] e.type = "image" -> (picture \ Box(e)) \cup ImageDots(e)
                        [] e.type = "qr" -> (picture \ Box(e)) \cup QrDots(e)
  <2>1. Painted(e) = Canvas \cap after
    BY <1>2 DEF Painted
  <2>2. CASE e.type = "rect"
    <3>1. after = picture \cup Box(e) \/ after = picture \ Box(e)
      BY <2>2, ElementType
    <3> QED
      BY <2>1, <3>1
  <2>3. CASE e.type = "image"
    <3>1. after = (picture \ Box(e)) \cup ImageDots(e)
      BY <2>3
    <3>2. ImageDots(e) \subseteq Box(e)
      BY <1>2, <2>3, InsideInBox DEF ImageDots
    <3> QED
      BY <2>1, <3>1, <3>2
  <2>4. CASE e.type = "qr"
    <3>1. after = (picture \ Box(e)) \cup QrDots(e)
      BY <2>4
    <3>2. Smaller(e.w, e.h) >= e.size => QrDots(e) \subseteq Box(e)
      BY <1>2, <2>4, QrInBox
    <3> QED
      BY <2>1, <2>4, <3>1, <3>2
  <2> QED
    BY <2>2, <2>3, <2>4, ElementType
<1> QED
  BY <1>1, <1>2

-----------------------------------------------------------------------------
(* From the document to the paper.                                          *)
(* Each band begins at a multiple of the band height, is cut from the       *)
(* transfer raster and ends inside it.                                      *)
BandsAligned ==
    /\ \A i \in 1..Len(bands) :
         /\ Cut(bands[i], TransferRows(request))
         /\ bands[i].startRow = (i - 1) * MaxBandHeight
         /\ bands[i].heightDots = BandHeight(bands[i].startRow, TransferRows(request))
    /\ startRow < TransferRows(request) => startRow = Len(bands) * MaxBandHeight
    /\ phase \in {"segment", "planned"} => request.rowBytes = RowBytes

SentRows == IF sent = 0 THEN 0 ELSE bands[sent].startRow + bands[sent].heightDots

(* What each stage has done: the raster is the picture's, it was allowed    *)
(* before it was planned, and the paper shows the rows of the bands sent.   *)
PaperInv ==
    /\ stage \in {"draw", "stored", "planning", "blocked", "sending", "error", "done"}
    /\ elements \in Seq(Elements)
    /\ picture \subseteq Canvas
    /\ stage # "draw" => packed = PackRows(picture, request.rowBytes, request.contentHeight)
    /\ stage \in {"draw", "stored", "planning", "blocked"} => sent = 0 /\ paper = <<>>
    /\ stage \in {"planning", "sending", "error", "done"} => Allowed
    /\ stage \in {"sending", "error", "done"} =>
         /\ phase = "planned"
         /\ sent \in 0..Len(bands)
         /\ paper = [y \in 1..SentRows |-> RowAt(y - 1)]
    /\ stage = "done" => sent = Len(bands)

RInv == PlanInv /\ BandsAligned /\ PaperInv

(* Every step of the planner leaves its bands aligned.                      *)
LEMMA CutBandAligned ==
    ASSUME PlanInv, BandsAligned, CutBand
    PROVE  BandsAligned'
<1> DEFINE t == TransferRows(request)
           n == Len(bands)
           height == BandHeight(startRow, t)
<1>1. /\ request \in Requests /\ startRow \in Nat /\ startRow < t /\ bands \in Seq(BandType)
      /\ UNCHANGED request /\ phase = "segment" /\ phase' = phase
      /\ startRow' = startRow + height
  BY DEF PlanInv, PlanTypeOK, CutBand
<1>2. t \in Nat /\ n \in Nat /\ MaxBandHeight \in Nat /\ RowBytes \in Nat
  BY <1>1, RequestType, PlannerAssumption
<1>3. height \in Nat \ {0} /\ startRow + height <= t /\ height = Smaller(MaxBandHeight, t - startRow)
  <2>1. height \in 1..MaxBandHeight /\ startRow + height <= t
    BY <1>1, <1>2, BandHeightBounds
  <2> QED
    BY <1>2, <2>1 DEF BandHeight
<1>4. PICK c \in Coverages : bands' = Append(bands, Band(n, startRow, height, t, c))
  BY DEF CutBand
<1> DEFINE b == Band(n, startRow, height, t, c)
<1>5. /\ b.startRow = startRow /\ b.heightDots = height
      /\ b.byteOffset = startRow * RowBytes /\ b.byteLength = height * RowBytes
  BY DEF Band
<1>6. /\ bands' = Append(bands, b) /\ TransferRows(request') = t
  BY <1>1, <1>4
<1> HIDE DEF b
<1>7. /\ Len(bands') = n + 1 /\ bands'[n + 1] = b
      /\ \A i \in 1..n : bands'[i] = bands[i]
  BY <1>1, <1>2, <1>6
<1>8. startRow = n * MaxBandHeight
  BY <1>1 DEF BandsAligned
<1>9. ASSUME NEW i \in 1..(n + 1)
      PROVE  /\ Cut(bands'[i], t)
             /\ bands'[i].startRow = (i - 1) * MaxBandHeight
             /\ bands'[i].heightDots = BandHeight(bands'[i].startRow, t)
  <2>1. CASE i \in 1..n
    <3>1. /\ Cut(bands[i], t) /\ bands[i].startRow = (i - 1) * MaxBandHeight
          /\ bands[i].heightDots = BandHeight(bands[i].startRow, t)
      BY <2>1 DEF BandsAligned
    <3>2. bands'[i] = bands[i]
      BY <1>7, <2>1
    <3> QED
      BY <3>1, <3>2
  <2>2. CASE i = n + 1
    <3>1. bands'[i] = b /\ (i - 1) * MaxBandHeight = startRow
      BY <1>2, <1>7, <1>8, <2>2
    <3>2. Cut(b, t)
      BY <1>1, <1>3, <1>5 DEF Cut
    <3> QED
      BY <1>5, <3>1, <3>2
  <2> QED
    BY <1>2, <2>1, <2>2
<1>10. startRow' < t => startRow' = (n + 1) * MaxBandHeight
  <2> HIDE DEF t, n, height
  <2>1. (n + 1) * MaxBandHeight = n * MaxBandHeight + MaxBandHeight /\ n * MaxBandHeight \in Nat
    BY <1>2, ProductType
  <2> QED
    BY <1>1, <1>2, <1>3, <1>8, <2>1 DEF Smaller
<1>11. phase' \in {"segment", "planned"} => request'.rowBytes = RowBytes
  BY <1>1 DEF BandsAligned
<1>12. TransferRows(request)' = t
  BY <1>1
<1> HIDE DEF n, height, t
<1> QED
  BY <1>7, <1>9, <1>10, <1>11, <1>12 DEF BandsAligned

LEMMA PlanStepAligned ==
    ASSUME PlanInv, BandsAligned, [PlanNext]_planVars
    PROVE  BandsAligned'
<1>1. CASE Reject
  BY <1>1 DEF Reject, BandsAligned
<1>2. CASE Accept
  <2>1. UNCHANGED <<request, startRow, bands>> /\ request \in Requests
    BY <1>2 DEF Accept, PlanInv, PlanTypeOK
  <2>2. request.rowBytes * request.contentHeight = RowBytes * request.contentHeight
    BY <1>2 DEF Accept, FitsProfile
  <2>3. /\ request.rowBytes \in Nat /\ request.contentHeight \in Nat \ {0} /\ RowBytes \in Nat
    BY <2>1, RequestType, PlannerAssumption
  <2>4. request.rowBytes = RowBytes
    <3>1. ASSUME NEW a \in Nat, NEW b \in Nat, NEW h \in Nat \ {0}, a * h = b * h, a < b
          PROVE  FALSE
      <4>1. (a + 1) * h <= b * h
        BY <3>1, ProductGrows
      <4>2. (a + 1) * h = a * h + h /\ a * h \in Nat
        BY ProductType
      <4> QED
        BY <3>1, <4>1, <4>2
    <3> QED
      BY <2>2, <2>3, <3>1
  <2> QED
    BY <2>1, <2>4 DEF BandsAligned
<1>3. CASE CutBand
  BY <1>3, CutBandAligned
<1>4. CASE FinishPlan
  BY <1>4 DEF FinishPlan, BandsAligned
<1>5. CASE UNCHANGED planVars
  BY <1>5 DEF planVars, BandsAligned
<1> QED
  BY <1>1, <1>2, <1>3, <1>4, <1>5 DEF PlanNext

LEMMA PaperInit == RInit => RInv
<1> SUFFICES ASSUME RInit PROVE RInv
  OBVIOUS
<1>1. PlanInv
  BY InitPlanInv DEF RInit
<1>2. BandsAligned
  BY PlannerAssumption DEF RInit, PlanInit, BandsAligned
<1>3. PaperInv
  BY DEF RInit, PaperInv
<1> QED
  BY <1>1, <1>2, <1>3 DEF RInv

(* The planner's state is at rest while something else is done.             *)
LEMMA PlannerRests ==
    ASSUME RInv, UNCHANGED planVars
    PROVE  PlanInv' /\ BandsAligned'
BY NextPlanInv, PlanStepAligned DEF RInv

LEMMA DrawStep ==
    ASSUME RInv, NEW e \in Elements, Draw(e)
    PROVE  RInv'
<1>1. /\ stage = "draw" /\ UNCHANGED <<stage, sent, paper>> /\ UNCHANGED planVars
      /\ elements' = Append(elements, e) /\ picture' = Painted(e)
  BY DEF Draw
<1>2. PlanInv' /\ BandsAligned'
  BY <1>1, PlannerRests
<1>3. elements' \in Seq(Elements)
  BY <1>1 DEF RInv, PaperInv
<1>4. picture' \subseteq Canvas'
  BY <1>1, PaintedInBox DEF RInv, PaperInv, Canvas, Width, planVars
<1>5. sent = 0 /\ paper = <<>>
  BY <1>1 DEF RInv, PaperInv
<1> QED
  BY <1>1, <1>2, <1>3, <1>4, <1>5 DEF RInv, PaperInv

LEMMA PackStep ==
    ASSUME RInv, Pack
    PROVE  RInv'
<1>1. /\ stage = "draw" /\ stage' = "stored" /\ UNCHANGED <<elements, picture, sent, paper>>
      /\ UNCHANGED planVars
      /\ packed' = PackRows(picture, request.rowBytes, request.contentHeight)
  BY DEF Pack
<1>2. PlanInv' /\ BandsAligned'
  BY <1>1, PlannerRests
<1>3. PaperInv'
  BY <1>1 DEF RInv, PaperInv, Canvas, Width, planVars
<1> QED
  BY <1>2, <1>3 DEF RInv

LEMMA CheckStep ==
    ASSUME RInv, Check
    PROVE  RInv'
<1>1. /\ stage = "stored" /\ UNCHANGED <<elements, picture, packed, sent, paper>>
      /\ UNCHANGED planVars
      /\ stage' = IF Allowed THEN "planning" ELSE "blocked"
  BY DEF Check
<1>2. PlanInv' /\ BandsAligned'
  BY <1>1, PlannerRests
<1>3. Allowed' <=> Allowed
  BY <1>1 DEF Allowed, planVars
<1>4. PaperInv'
  BY <1>1, <1>3 DEF RInv, PaperInv, Canvas, Width, planVars
<1> QED
  BY <1>2, <1>4 DEF RInv

LEMMA PlanPaperStep ==
    ASSUME RInv, Plan
    PROVE  RInv'
<1>1. /\ stage = "planning" /\ UNCHANGED <<elements, picture, packed, sent, paper>>
      /\ PlanNext
      /\ stage' = IF phase' = "planned" THEN "sending" ELSE stage
  BY DEF Plan
<1>2. PlanInv' /\ BandsAligned'
  BY <1>1, NextPlanInv, PlanStepAligned DEF RInv
<1>3. UNCHANGED request
  BY <1>1 DEF PlanNext, Reject, Accept, CutBand, FinishPlan
<1>4. (Allowed' <=> Allowed) /\ Allowed
  BY <1>1, <1>3 DEF Allowed, RInv, PaperInv
<1>5. sent' = 0 /\ paper' = <<>>
  BY <1>1 DEF RInv, PaperInv
<1>6. Len(bands') \in Nat /\ sent' \in 0..Len(bands')
  BY <1>2, <1>5 DEF PlanInv, PlanTypeOK
<1>7. paper' = [y \in 1..SentRows' |-> RowAt(y - 1)']
  BY <1>5 DEF SentRows
<1>8. PaperInv'
  <2>1. stage' \in {"planning", "sending"} /\ (stage' = "sending" => phase' = "planned")
    BY <1>1
  <2>2. elements' \in Seq(Elements) /\ picture' \subseteq Canvas'
        /\ packed' = PackRows(picture, request.rowBytes, request.contentHeight)'
    BY <1>1, <1>3 DEF RInv, PaperInv, Canvas, Width
  <2> QED
    BY <1>4, <1>5, <1>6, <1>7, <2>1, <2>2 DEF PaperInv
<1> QED
  BY <1>2, <1>8 DEF RInv

(* While bands are sent, the raster is known to be the picture's.           *)
LEMMA SendingIsPacked ==
    ASSUME RInv, stage \in {"sending", "error", "done"}
    PROVE  Packed
BY DEF RInv, PlanInv, PlanTypeOK, BandsAligned, PaperInv, Packed

LEMMA SendBandStep ==
    ASSUME RInv, SendBand
    PROVE  RInv'
<1> DEFINE b == bands[sent + 1]
<1>1. /\ stage = "sending" /\ sent < Len(bands) /\ UNCHANGED planVars
      /\ UNCHANGED <<elements, picture, packed>>
      /\ \/ /\ paper' = paper \o PrinterRows(RasterHeader(b.heightDots), BandRaster(b))
            /\ sent' = sent + 1 /\ stage' = "sending"
         \/ stage' = "error" /\ UNCHANGED <<sent, paper>>
  BY DEF SendBand
<1>2. PlanInv' /\ BandsAligned'
  BY <1>1, PlannerRests
<1>3. UNCHANGED <<request, phase, bands>>
  BY <1>1 DEF planVars
<1>4. (Allowed' <=> Allowed) /\ Allowed
  BY <1>1, <1>3 DEF Allowed, RInv, PaperInv
<1>5. \A y : RowAt(y)' = RowAt(y)
  BY <1>1, <1>3 DEF RowAt, Width
<1>6. /\ elements' \in Seq(Elements) /\ picture' \subseteq Canvas'
      /\ packed' = PackRows(picture, request.rowBytes, request.contentHeight)'
  BY <1>1, <1>3 DEF RInv, PaperInv, Canvas, Width
<1>7. /\ sent \in 0..Len(bands) /\ Len(bands) \in Nat /\ phase = "planned"
      /\ paper = [y \in 1..SentRows |-> RowAt(y - 1)]
  BY <1>1 DEF RInv, PlanInv, PlanTypeOK, PaperInv
<1>8. stage' \in {"sending", "error"} /\ stage # "draw" /\ phase' = "planned"
  BY <1>1, <1>3, <1>7
<1>9. sent' \in 0..Len(bands') /\ paper' = [y \in 1..SentRows' |-> RowAt(y - 1)']
  <2>1. CASE stage' = "error" /\ UNCHANGED <<sent, paper>>
    <3>1. SentRows' = SentRows
      BY <1>3, <2>1 DEF SentRows
    <3> QED
      BY <1>3, <1>5, <1>7, <2>1, <3>1
  <2>2. CASE /\ paper' = paper \o PrinterRows(RasterHeader(b.heightDots), BandRaster(b))
             /\ sent' = sent + 1
    <3>1. sent + 1 \in 1..Len(bands) /\ Len(bands) = Len(bands')
      BY <1>1, <1>3, <1>7
    <3>2. Cut(b, TransferRows(request))
      BY <3>1 DEF RInv, BandsAligned
    <3>3. PrinterRows(RasterHeader(b.heightDots), BandRaster(b))
            = [y \in 1..b.heightDots |-> RowAt(b.startRow + y - 1)]
      BY <1>1, <3>2, SendingIsPacked, PrintedRows
    <3>4. b.startRow = SentRows
      <4>1. IF sent + 1 = 1 THEN b.startRow = 0
            ELSE b.startRow = bands[(sent + 1) - 1].startRow + bands[(sent + 1) - 1].heightDots
        BY <3>1 DEF RInv, PlanInv, LoopInv, Contiguous
      <4>2. (sent + 1) - 1 = sent /\ (sent + 1 = 1 <=> sent = 0)
        BY <1>7
      <4> QED
        BY <4>1, <4>2 DEF SentRows
    <3>5. SentRows' = b.startRow + b.heightDots
      <4>1. sent' # 0 /\ bands'[sent'] = b
        BY <1>3, <1>7, <2>2
      <4> QED
        BY <4>1 DEF SentRows
    <3> DEFINE s == b.startRow
               n == b.heightDots
               rows == [y \in 1..n |-> RowAt(s + y - 1)]
    <3>6. s \in Nat /\ n \in Nat
      BY <3>2 DEF Cut
    <3>7. paper = [y \in 1..s |-> RowAt(y - 1)] /\ paper' = paper \o rows
      BY <1>7, <2>2, <3>3, <3>4
    <3> HIDE DEF s, n, b
    <3>8. paper' = [y \in 1..(s + n) |-> RowAt(y - 1)]
      <4> DEFINE Row(y) == RowAt(y)
      <4> HIDE DEF Row
      <4>1. paper = [y \in 1..s |-> Row(y - 1)] /\ rows = [y \in 1..n |-> Row(s + y - 1)]
            /\ paper' = paper \o rows
        BY <3>7 DEF Row
      <4> HIDE DEF rows
      <4>2. DOMAIN paper = 1..s /\ Len(paper) = s /\ DOMAIN rows = 1..n /\ Len(rows) = n
        BY <3>6, <4>1
      <4>3. paper' = [y \in 1..(s + n) |-> IF y <= s THEN paper[y] ELSE rows[y - s]]
        <5> DEFINE Any == {Row(v) : v \in Int}
        <5>1. \A v \in Int : Row(v) \in Any
          OBVIOUS
        <5> HIDE DEF Any
        <5>2. paper \in Seq(Any)
          <6>1. \A y \in 1..s : Row(y - 1) \in Any
            BY <3>6, <5>1
          <6> QED
            BY <3>6, <4>1, <6>1
        <5>3. rows \in Seq(Any)
          <6>1. \A y \in 1..n : Row(s + y - 1) \in Any
            BY <3>6, <5>1
          <6> QED
            BY <3>6, <4>1, <6>1
        <5>4. /\ paper \o rows \in Seq(Any) /\ Len(paper \o rows) = s + n
              /\ \A y \in 1..(s + n) :
                   (paper \o rows)[y] = IF y <= s THEN paper[y] ELSE rows[y - s]
          BY <4>2, <5>2, <5>3, ConcatProperties
        <5> DEFINE joined == paper \o rows
        <5> HIDE DEF joined
        <5>5. /\ joined \in Seq(Any) /\ Len(joined) = s + n /\ paper' = joined
              /\ \A y \in 1..(s + n) :
                   joined[y] = IF y <= s THEN paper[y] ELSE rows[y - s]
          BY <4>1, <5>4 DEF joined
        <5>6. joined = [y \in 1..(s + n) |-> joined[y]]
          BY <5>5
        <5> QED
          BY <5>5, <5>6
      <4>4. \A y \in 1..(s + n) : (IF y <= s THEN paper[y] ELSE rows[y - s]) = Row(y - 1)
        <5> SUFFICES ASSUME NEW y \in 1..(s + n)
                     PROVE  (IF y <= s THEN paper[y] ELSE rows[y - s]) = Row(y - 1)
          OBVIOUS
        <5>1. CASE y <= s
          BY <3>6, <4>1, <5>1
        <5>2. CASE ~(y <= s)
          <6>1. y - s \in 1..n /\ s + (y - s) - 1 = y - 1
            BY <3>6, <5>2
          <6> QED
            BY <4>1, <5>2, <6>1
        <5> QED
          BY <5>1, <5>2
      <4> QED
        BY <4>3, <4>4 DEF Row
    <3> QED
      BY <1>5, <2>2, <3>1, <3>5, <3>8 DEF s, n, b
  <2> QED
    BY <1>1, <2>1, <2>2
<1>10. PaperInv'
  BY <1>4, <1>6, <1>8, <1>9 DEF PaperInv
<1> QED
  BY <1>2, <1>10 DEF RInv

LEMMA FinishedStep ==
    ASSUME RInv, Finished
    PROVE  RInv'
<1>1. /\ stage = "sending" /\ sent = Len(bands) /\ stage' = "done"
      /\ UNCHANGED <<elements, picture, packed, sent, paper>> /\ UNCHANGED planVars
  BY DEF Finished
<1>2. PlanInv' /\ BandsAligned'
  BY <1>1, PlannerRests
<1>3. (Allowed' <=> Allowed) /\ (\A y : RowAt(y)' = RowAt(y)) /\ SentRows' = SentRows
  BY <1>1 DEF Allowed, RowAt, Width, SentRows, planVars
<1>4. PaperInv'
  BY <1>1, <1>3 DEF RInv, PaperInv, Canvas, Width, planVars
<1> QED
  BY <1>2, <1>4 DEF RInv

LEMMA PaperRests ==
    ASSUME RInv, UNCHANGED rvars
    PROVE  RInv'
<1>1. UNCHANGED <<stage, elements, picture, packed, sent, paper>> /\ UNCHANGED planVars
  BY DEF rvars
<1>2. PlanInv' /\ BandsAligned'
  BY <1>1, PlannerRests
<1>3. (Allowed' <=> Allowed) /\ (\A y : RowAt(y)' = RowAt(y)) /\ SentRows' = SentRows
  BY <1>1 DEF Allowed, RowAt, Width, SentRows, planVars
<1>4. PaperInv'
  BY <1>1, <1>3 DEF RInv, PaperInv, Canvas, Width, planVars
<1> QED
  BY <1>2, <1>4 DEF RInv

LEMMA PaperNext == RInv /\ [RNext]_rvars => RInv'
BY DrawStep, PackStep, CheckStep, PlanPaperStep, SendBandStep, FinishedStep, PaperRests DEF RNext

(* What comes out of the printer is the picture that was drawn: packing,    *)
(* cutting, the header's bytes and the printer's unpacking undo each other, *)
(* for every width, height, band height and paper.                          *)
THEOREM PaperIsThePicture == RSpec => []PaperShowsPicture
<1>1. RInv => PaperShowsPicture
  <2> SUFFICES ASSUME RInv, stage = "done"
               PROVE  paper = [y \in 1..TransferRows(request) |->
                                 {x \in 0..Width - 1 : <<x, y - 1>> \in picture}]
    BY DEF PaperShowsPicture
  <2>1. /\ phase = "planned" /\ sent = Len(bands)
        /\ paper = [y \in 1..SentRows |-> RowAt(y - 1)]
    BY DEF RInv, PaperInv
  <2>2. startRow = TransferRows(request) /\ request \in Requests
    BY <2>1 DEF RInv, PlanInv, PlanTypeOK, LoopInv
  <2>3. SentRows = TransferRows(request)
    BY <2>1, <2>2, RequestType DEF RInv, PlanInv, LoopInv, SentRows
  <2> QED
    BY <2>1, <2>3 DEF RowAt
<1> QED
  BY <1>1, PaperInit, PaperNext, PTL DEF RSpec

(* No band that is sent is blacker than the thermal limit, although the     *)
(* safety report measured other bands than the planner cuts: it is enough   *)
(* that the planner's band height is a multiple of the report's.            *)
THEOREM SentStaysCool == RSpec => []SentBandsAreCool
<1>1. RInv => SentBandsAreCool
  <2> SUFFICES ASSUME RInv, NEW i \in 1..sent
               PROVE  ~Blacker(BandRaster(bands[i]), BlockCoverage)
    BY DEF SentBandsAreCool
  <2>1. stage \in {"sending", "error", "done"}
    BY DEF RInv, PaperInv
  <2>2. Packed /\ Allowed /\ sent \in 0..Len(bands) /\ Len(bands) \in Nat
    BY <2>1, SendingIsPacked DEF RInv, PaperInv, PlanInv, PlanTypeOK
  <2>3. i \in 1..Len(bands) /\ i - 1 \in Nat
    BY <2>2
  <2>4. /\ Cut(bands[i], TransferRows(request))
        /\ bands[i].startRow = (i - 1) * MaxBandHeight
        /\ bands[i].heightDots = BandHeight(bands[i].startRow, TransferRows(request))
    BY <2>3 DEF RInv, BandsAligned
  <2> QED
    BY <2>2, <2>3, <2>4, BandIsCool
<1> QED
  BY <1>1, PaperInit, PaperNext, PTL DEF RSpec

(* An element changes no dot outside its box, unless it is a QR code with   *)
(* more modules than dots: fitting, rounding and centring stay inside it.   *)
THEOREM DrawingIsLocal == RSpec => DrawingStaysInBox
<1> DEFINE Local == \A e \in Elements :
              elements' = Append(elements, e) /\ (e.type = "qr" => Smaller(e.w, e.h) >= e.size) =>
                (picture \cup picture') \ (picture \cap picture') \subseteq Box(e)
<1>1. RInv /\ [RNext]_rvars => Local
  <2> SUFFICES ASSUME RInv, [RNext]_rvars, NEW e \in Elements, elements' = Append(elements, e),
                      e.type = "qr" => Smaller(e.w, e.h) >= e.size
               PROVE  (picture \cup picture') \ (picture \cap picture') \subseteq Box(e)
    OBVIOUS
  <2>1. elements \in Seq(Elements) /\ picture \subseteq Canvas
    BY DEF RInv, PaperInv
  <2>2. elements' # elements
    <3>1. Len(Append(elements, e)) = Len(elements) + 1 /\ Len(elements) \in Nat
      BY <2>1
    <3> QED
      BY <3>1
  <2>3. PICK d \in Elements : Draw(d)
    BY <2>2 DEF RNext, rvars, Pack, Check, Plan, SendBand, Finished
  <2>4. d = e
    <3>1. Append(elements, d) = Append(elements, e)
      BY <2>3 DEF Draw
    <3>2. /\ Append(elements, d)[Len(elements) + 1] = d
          /\ Append(elements, e)[Len(elements) + 1] = e
      BY <2>1
    <3> QED
      BY <3>1, <3>2
  <2>5. picture' = Painted(e)
    BY <2>3, <2>4 DEF Draw
  <2> QED
    BY <2>1, <2>5, PaintedInBox
<1> HIDE DEF Local
<1>2. RSpec => [][Local]_rvars
  BY <1>1, PaperInit, PaperNext, PTL DEF RSpec
<1> QED
  BY <1>2 DEF Local, DrawingStaysInBox

(* With the dots that were drawn as well, cooldowns come between bands      *)
(* only.                                                                    *)
THEOREM PaperPacing == RSpec => []PacingBetweenBandsOnly
<1>1. RInv => PacingBetweenBandsOnly
  BY DEF RInv, PlanInv
<1> QED
  BY <1>1, PaperInit, PaperNext, PTL DEF RSpec

-----------------------------------------------------------------------------
(* The plan, handed to the transport.                                       *)
(* What _print_plan reads of a band.                                        *)
BandRecord == [startRow : Nat, heightDots : Nat \ {0}, byteOffset : Nat,
               byteLength : Nat \ {0}, cools : BOOLEAN]

Transported(b) ==
    [startRow |-> b.startRow, heightDots |-> b.heightDots,
     byteOffset |-> b.byteOffset, byteLength |-> b.byteLength,
     cools |-> b.cooldownAfterMs > 0]

TransportedPlan == [i \in 1..Len(bands) |-> Transported(bands[i])]

(* Every plan that create_print_plan finishes is one that the transport's   *)
(* theorems are about: PlanAssumption holds of it.                          *)
THEOREM PlansAreTransportable ==
    PlanSpec => [](phase = "planned" =>
                     IsPlan(TransportedPlan, TransferRows(request),
                            TransferRows(request) * RowBytes))
<1> DEFINE Goal == phase = "planned" => IsPlan(TransportedPlan, TransferRows(request),
                                               TransferRows(request) * RowBytes)
<1>1. PlanInv /\ BandsAligned => Goal
  <2> SUFFICES ASSUME PlanInv, BandsAligned, phase = "planned"
               PROVE  IsPlan(TransportedPlan, TransferRows(request),
                             TransferRows(request) * RowBytes)
    OBVIOUS
  <2> DEFINE n == Len(bands)
             t == TransferRows(request)
             plan == TransportedPlan
  <2>1. /\ n \in Nat /\ bands \in [1..n -> BandType] /\ request \in Requests
        /\ startRow = t /\ RowBytes \in Nat \ {0}
    BY PlannerAssumption DEF PlanInv, PlanTypeOK, LoopInv
  <2>2. t \in Nat \ {0}
    BY <2>1, TransferRowsType
  <2>3. n # 0 /\ bands[n].startRow + bands[n].heightDots = t
    BY <2>1, <2>2 DEF PlanInv, LoopInv
  <2>4. ASSUME NEW i \in 1..n
        PROVE  /\ bands[i].startRow \in Nat /\ bands[i].heightDots \in Nat \ {0}
               /\ bands[i].byteOffset = bands[i].startRow * RowBytes
               /\ bands[i].byteLength = bands[i].heightDots * RowBytes
               /\ bands[i].byteOffset \in Nat /\ bands[i].byteLength \in Nat \ {0}
               /\ bands[i].byteOffset + bands[i].byteLength
                    = (bands[i].startRow + bands[i].heightDots) * RowBytes
    <3>1. /\ bands[i].startRow \in Nat /\ bands[i].heightDots \in Nat \ {0}
          /\ bands[i].byteOffset = bands[i].startRow * RowBytes
          /\ bands[i].byteLength = bands[i].heightDots * RowBytes
      BY DEF BandsAligned, Cut
    <3>2. /\ bands[i].startRow * RowBytes \in Nat /\ bands[i].heightDots * RowBytes \in Nat
          /\ 1 * RowBytes <= bands[i].heightDots * RowBytes
      BY <2>1, <3>1, ProductType, ProductGrows
    <3>3. (bands[i].startRow + bands[i].heightDots) * RowBytes
            = bands[i].startRow * RowBytes + bands[i].heightDots * RowBytes
      BY <2>1, <3>1
    <3>4. bands[i].heightDots * RowBytes \in Nat \ {0}
      BY <2>1, <3>2
    <3> QED
      BY <3>1, <3>2, <3>3, <3>4
  <2>5. ASSUME NEW i \in 1..n, i # n
        PROVE  /\ i + 1 \in 1..n
               /\ bands[i + 1].startRow = bands[i].startRow + bands[i].heightDots
               /\ bands[i + 1].byteOffset = bands[i].byteOffset + bands[i].byteLength
    <3>1. i + 1 \in 1..n /\ i + 1 # 1 /\ (i + 1) - 1 = i
      <4>1. n \in Nat /\ i \in 1..n /\ i # n
        BY <2>1, <2>5
      <4> HIDE DEF n
      <4> QED
        BY <4>1
    <3>2. bands[i + 1].startRow = bands[i].startRow + bands[i].heightDots
      BY <3>1 DEF PlanInv, LoopInv, Contiguous
    <3>3. bands[i + 1].byteOffset = bands[i + 1].startRow * RowBytes
      BY <2>4, <3>1
    <3> QED
      BY <2>4, <3>1, <3>2, <3>3
  <2>6. 1 \in 1..n /\ n \in 1..n /\ bands[1].startRow = 0 /\ bands[1].byteOffset = 0
    <3>1. 1 \in 1..n /\ n \in 1..n
      BY <2>1, <2>3
    <3>2. bands[1].startRow = 0
      BY <3>1 DEF PlanInv, LoopInv, Contiguous
    <3>3. bands[1].byteOffset = 0 * RowBytes
      BY <2>4, <3>1, <3>2
    <3> QED
      BY <2>1, <3>1, <3>2, <3>3
  <2>7. t * RowBytes \in Nat /\ bands[n].byteOffset + bands[n].byteLength = t * RowBytes
    BY <2>1, <2>2, <2>3, <2>4, <2>6, ProductType
  <2>8. /\ plan \in Seq(BandRecord) /\ Len(plan) = n
        /\ \A i \in 1..n : plan[i] = Transported(bands[i])
    <3>1. ASSUME NEW i \in 1..n PROVE Transported(bands[i]) \in BandRecord
      <4>1. (bands[i].cooldownAfterMs > 0) \in BOOLEAN
        OBVIOUS
      <4> QED
        BY <2>4, <4>1 DEF Transported, BandRecord
    <3> HIDE DEF n
    <3>2. plan = [i \in 1..n |-> Transported(bands[i])]
      BY DEF TransportedPlan, n
    <3> HIDE DEF plan
    <3> QED
      BY <2>1, <3>1, <3>2
  <2> HIDE DEF n, t, plan
  <2>9. ASSUME NEW i \in 1..n
        PROVE  /\ plan[i].startRow = bands[i].startRow
               /\ plan[i].heightDots = bands[i].heightDots
               /\ plan[i].byteOffset = bands[i].byteOffset
               /\ plan[i].byteLength = bands[i].byteLength
    <3>1. plan[i] = Transported(bands[i])
      BY <2>8
    <3> QED
      BY <3>1 DEF Transported
  <2>10. \A i \in 1..(n - 1) :
           /\ plan[i + 1].startRow = plan[i].startRow + plan[i].heightDots
           /\ plan[i + 1].byteOffset = plan[i].byteOffset + plan[i].byteLength
    <3> SUFFICES ASSUME NEW i \in 1..(n - 1)
                 PROVE  /\ plan[i + 1].startRow = plan[i].startRow + plan[i].heightDots
                        /\ plan[i + 1].byteOffset = plan[i].byteOffset + plan[i].byteLength
      OBVIOUS
    <3>1. i \in 1..n /\ i # n
      BY <2>1
    <3> QED
      BY <2>5, <2>9, <3>1
  <2>11. /\ plan[1].startRow = 0 /\ plan[1].byteOffset = 0
         /\ plan[n].startRow + plan[n].heightDots = t
         /\ plan[n].byteOffset + plan[n].byteLength = t * RowBytes
    BY <2>3, <2>6, <2>7, <2>9
  <2>12. IsPlan(plan, t, t * RowBytes)
    <3>1. plan \in Seq([startRow : Nat, heightDots : Nat \ {0}, byteOffset : Nat,
                        byteLength : Nat \ {0}, cools : BOOLEAN])
      BY <2>8 DEF BandRecord
    <3>2. Len(plan) = n /\ Len(plan) > 0 /\ t \in Nat
      BY <2>1, <2>2, <2>3, <2>8
    <3> QED
      BY <2>7, <2>10, <2>11, <3>1, <3>2 DEF IsPlan
  <2> QED
    BY <2>12 DEF plan, t
<1>2. PlanInit => BandsAligned
  BY PlannerAssumption DEF PlanInit, BandsAligned
<1> HIDE DEF Goal
<1>3. PlanSpec => []Goal
  BY <1>1, <1>2, InitPlanInv, NextPlanInv, PlanStepAligned, PTL DEF PlanSpec
<1> QED
  BY <1>3 DEF Goal

-----------------------------------------------------------------------------
(* The transport.                                                           *)
Started == {"services", "notify", "write", "cooldown", "unsubscribe"}
Searching == {"profile", "scan", "rescan", "lookup"}

(* What each place in _print_plan knows of the connection and of the body.  *)
PhaseInv ==
    /\ pc \in Searching => ~connected /\ started = <<>>
    /\ pc # "done" <=> result.kind = "none"
    /\ pc \in Searching \cup {"services", "notify", "write", "cooldown"} => pending = "none"
    /\ pc = "unsubscribe" => pending # "none"

(* The bands whose last chunk was written before command k.                 *)
BandsBefore(k) == IF k <= 5 THEN 0 ELSE IF IsBand(k) THEN k - 5 ELSE NumBands

(* Where the printer is once it has taken the chunk that is due.            *)
AfterChunk ==
    LET n == ChunkBytes(cmd, offset) IN
    IF offset + n = CommandBytes(cmd)
      THEN [cmd |-> cmd + 1, offset |-> 0, intact |-> TRUE]
      ELSE [cmd |-> cmd, offset |-> offset + n, intact |-> TRUE]

(* Sender and printer agree on the position, except that a chunk whose      *)
(* write raised may have been taken.                                        *)
PositionInv ==
    /\ IF cmd = StopCommand + 1 THEN offset = 0 ELSE offset < CommandBytes(cmd)
    /\ pending = "ok" <=> cmd = StopCommand + 1
    /\ \/ printer = [cmd |-> cmd, offset |-> offset, intact |-> TRUE]
       \/ pending = "error" /\ profile.chunkSize > 0 /\ printer = AfterChunk
    /\ counters.bands = BandsBefore(cmd)

(* How print_plan ended, and with which counters.                           *)
ResultInv ==
    /\ result.kind = "ok" => pending = "ok" /\ result.count = counters
    /\ result.kind = "error" => pending # "ok" /\ result.count = counters

IInv == /\ TypeOK /\ PhaseInv /\ PositionInv /\ CountersAgree /\ ResultInv
        /\ OkMeansComplete /\ ErrorReleasesPrinter

-----------------------------------------------------------------------------
(* PlanAssumption in the form that the proofs below use.                    *)
LEMMA PlanFacts ==
    /\ NumBands \in Nat \ {0}
    /\ Bands \in [1..NumBands -> BandRecord]
    /\ \A i \in 1..NumBands : i < NumBands =>
         /\ Bands[i + 1].startRow = Bands[i].startRow + Bands[i].heightDots
         /\ Bands[i + 1].byteOffset = Bands[i].byteOffset + Bands[i].byteLength
    /\ Bands[1].startRow = 0 /\ Bands[1].byteOffset = 0
    /\ Bands[NumBands].startRow + Bands[NumBands].heightDots = TotalRows
    /\ Bands[NumBands].byteOffset + Bands[NumBands].byteLength = TotalBytes
    /\ \A i \in 1..NumBands : Bands[i].byteOffset + Bands[i].byteLength <= TotalBytes
    /\ TotalRows \in Nat /\ TotalBytes \in Nat
<1>1. Bands \in Seq(BandRecord) /\ Len(Bands) > 0
  BY PlanAssumption DEF IsPlan, BandRecord
<1>2. NumBands \in Nat \ {0} /\ Bands \in [1..NumBands -> BandRecord]
  <2> HIDE DEF BandRecord
  <2> QED
    BY <1>1 DEF NumBands
<1>3. \A i \in 1..(NumBands - 1) :
         /\ Bands[i + 1].startRow = Bands[i].startRow + Bands[i].heightDots
         /\ Bands[i + 1].byteOffset = Bands[i].byteOffset + Bands[i].byteLength
  BY PlanAssumption DEF IsPlan, NumBands
<1>4. \A i \in 1..NumBands : i < NumBands => i \in 1..(NumBands - 1)
  BY <1>2
<1>5. /\ Bands[1].startRow = 0 /\ Bands[1].byteOffset = 0
      /\ Bands[NumBands].startRow + Bands[NumBands].heightDots = TotalRows
      /\ Bands[NumBands].byteOffset + Bands[NumBands].byteLength = TotalBytes
      /\ TotalRows \in Nat /\ TotalBytes \in Nat
  BY PlanAssumption DEF IsPlan, NumBands
<1>6. \A i \in 1..NumBands : Bands[i].byteOffset \in Nat /\ Bands[i].byteLength \in Nat
  BY <1>2 DEF BandRecord
<1> DEFINE End(i) == Bands[i].byteOffset + Bands[i].byteLength
           EndsInside(d) == d < NumBands => End(NumBands - d) <= TotalBytes
           Outside == {d \in Nat : ~EndsInside(d)}
<1>7. Outside = {}  \* by induction on the distance from the last band
  <2> SUFFICES ASSUME Outside # {} PROVE FALSE
    OBVIOUS
  <2>1. PICK d \in Outside : \A e \in Outside : d <= e
    BY LeastNumber
  <2>2. d \in Nat /\ d < NumBands /\ ~(End(NumBands - d) <= TotalBytes)
    BY <2>1
  <2>3. d # 0
    <3>1. End(NumBands) <= TotalBytes
      BY <1>5
    <3> QED
      BY <1>2, <2>2, <3>1
  <2>4. EndsInside(d - 1)
    <3>1. d - 1 \in Nat /\ ~(d <= d - 1)
      BY <2>2, <2>3
    <3>2. d - 1 \notin Outside
      BY <2>1, <3>1
    <3> QED
      BY <3>1, <3>2
  <2> DEFINE i == NumBands - d
  <2>5. i \in 1..NumBands /\ i + 1 \in 1..NumBands /\ i < NumBands /\ NumBands - (d - 1) = i + 1
    BY <1>2, <2>2, <2>3
  <2>6. End(i + 1) <= TotalBytes
    <3>1. End(NumBands - (d - 1)) <= TotalBytes
      <4>1. d - 1 < NumBands
        BY <1>2, <2>2
      <4> QED
        BY <2>4, <4>1
    <3> HIDE DEF End
    <3> QED
      BY <2>5, <3>1
  <2>7. Bands[i + 1].byteOffset = End(i)
    BY <1>3, <1>4, <2>5
  <2> QED
    BY <1>5, <1>6, <2>2, <2>5, <2>6, <2>7
<1>8. \A i \in 1..NumBands : End(i) <= TotalBytes
  <2> SUFFICES ASSUME NEW i \in 1..NumBands PROVE End(i) <= TotalBytes
    OBVIOUS
  <2>1. NumBands - i \in Nat /\ NumBands - i < NumBands /\ NumBands - (NumBands - i) = i
    BY <1>2
  <2>2. EndsInside(NumBands - i)
    BY <1>7, <2>1
  <2> QED
    BY <2>1, <2>2
<1> QED
  BY <1>2, <1>3, <1>4, <1>5, <1>8

LEMMA NumBandsType == NumBands \in Nat \ {0} /\ StopCommand = NumBands + 6 /\ FeedCommand = NumBands + 5
BY PlanFacts DEF StopCommand, FeedCommand

LEMMA BandFacts ==
    ASSUME NEW i \in 1..NumBands
    PROVE  /\ Bands[i].startRow \in Nat /\ Bands[i].heightDots \in Nat \ {0}
           /\ Bands[i].byteOffset \in Nat /\ Bands[i].byteLength \in Nat \ {0}
           /\ Bands[i].byteOffset + Bands[i].byteLength <= TotalBytes
BY PlanFacts DEF BandRecord

(* Every command has a positive length, and every chunk of it is positive   *)
(* and stays inside it.                                                     *)
LEMMA CommandBytesType ==
    ASSUME NEW k \in 1..StopCommand
    PROVE  CommandBytes(k) \in Nat \ {0}
<1>1. CASE k <= 4
  <2>1. k = 1 \/ k = 2 \/ k = 3 \/ k = 4
    BY <1>1, NumBandsType
  <2> QED
    BY <1>1, <2>1 DEF CommandBytes, PreludeBytes
<1>2. CASE IsBand(k)
  <2>1. k - 4 \in 1..NumBands
    BY <1>2, NumBandsType DEF IsBand
  <2>2. BandOf(k).byteLength \in Nat \ {0}
    BY <2>1, BandFacts DEF BandOf
  <2>3. ~(k <= 4)
    BY <1>2, NumBandsType DEF IsBand
  <2> QED
    BY <1>2, <2>2, <2>3 DEF CommandBytes, HeaderBytes
<1>3. CASE ~(k <= 4) /\ ~IsBand(k)
  BY <1>3 DEF CommandBytes, FeedBytes, StopBytes
<1> QED
  BY <1>1, <1>2, <1>3

LEMMA ChunkBytesType ==
    ASSUME NEW k \in 1..StopCommand, NEW off \in Nat, off < CommandBytes(k),
           profile.chunkSize \in Int, profile.chunkSize > 0
    PROVE  /\ ChunkBytes(k, off) \in Nat \ {0}
           /\ off + ChunkBytes(k, off) <= CommandBytes(k)
BY CommandBytesType DEF ChunkBytes

LEMMA ProfileType ==
    ASSUME TypeOK
    PROVE  profile.chunkSize \in Int /\ profile.notify \in Seq(STRING)
BY ProfileAssumption DEF TypeOK

(* After the last chunk of a band, the counters stand at the next boundary. *)
LEMMA CountedBand ==
    ASSUME NEW i \in 1..NumBands, counters.bands = i - 1, CountersAgree, counters \in CountType,
           counters' = CountBand(counters, Bands[i])
    PROVE  counters'.bands = i /\ counters' \in CountType /\ CountersAgree'
<1>1. /\ counters.bands + 1 = i /\ counters.bands < NumBands
      /\ counters.rows = Bands[i].startRow /\ counters.raster = Bands[i].byteOffset
  BY NumBandsType DEF CountersAgree, CountType
<1>2. /\ counters'.bands = i
      /\ counters'.rows = Bands[i].startRow + Bands[i].heightDots
      /\ counters'.raster = Bands[i].byteOffset + Bands[i].byteLength
  BY <1>1 DEF CountBand
<1>3. counters' \in CountType
  BY <1>1, BandFacts DEF CountBand, CountType
<1>4. CASE i < NumBands
  <2>1. /\ Bands[i + 1].startRow = Bands[i].startRow + Bands[i].heightDots
        /\ Bands[i + 1].byteOffset = Bands[i].byteOffset + Bands[i].byteLength
    BY <1>4, PlanFacts
  <2> QED
    BY <1>2, <1>3, <1>4, <2>1 DEF CountersAgree
<1>5. CASE i = NumBands
  <2>1. /\ Bands[i].startRow + Bands[i].heightDots = TotalRows
        /\ Bands[i].byteOffset + Bands[i].byteLength = TotalBytes
    BY <1>5, PlanFacts
  <2> QED
    BY <1>2, <1>3, <1>5, <2>1, NumBandsType DEF CountersAgree
<1> QED
  BY <1>4, <1>5, NumBandsType

-----------------------------------------------------------------------------
LEMMA InitIInv == Init => IInv
<1> SUFFICES ASSUME Init PROVE IInv
  OBVIOUS
<1>1. TypeOK
  <2>1. NoCount \in CountType
    BY DEF NoCount, CountType
  <2>2. printer \in [cmd : 1..(StopCommand + 1), offset : Nat, intact : BOOLEAN]
    BY NumBandsType DEF Init
  <2>3. /\ counters \in CountType
        /\ result \in [kind : {"none", "ok", "error", "raised"}, count : CountType]
    BY <2>1 DEF Init
  <2>4. 1 \in 1..(StopCommand + 1)
    BY NumBandsType
  <2>5. /\ started \in Seq(STRING) /\ discovered \subseteq Others \cup {Target}
        /\ notifyIndex \in Nat \ {0} /\ slept \in Nat /\ offset \in Nat
        /\ cmd \in 1..(StopCommand + 1) /\ pending \in {"none", "ok", "error"}
    BY <2>4 DEF Init
  <2> QED
    BY <2>2, <2>3, <2>5 DEF Init, TypeOK
<1>2. PhaseInv /\ ResultInv /\ OkMeansComplete /\ ErrorReleasesPrinter
  BY DEF Init, PhaseInv, ResultInv, OkMeansComplete, ErrorReleasesPrinter, Searching
<1>3. 1 \in 1..StopCommand /\ StopCommand + 1 # 1
  BY NumBandsType
<1>4. PositionInv
  BY <1>3, CommandBytesType, NumBandsType DEF Init, PositionInv, BandsBefore, NoCount
<1>5. CountersAgree
  BY NumBandsType, PlanFacts DEF Init, CountersAgree, NoCount
<1> QED
  BY <1>1, <1>2, <1>4, <1>5 DEF IInv

(* How Finish changes the result.                                           *)
LEMMA FinishFacts ==
    ASSUME TypeOK, NEW kind \in {"ok", "error", "raised"}, Finish(kind)
    PROVE  /\ pc' = "done" /\ result'.kind = kind
           /\ kind # "raised" => result'.count = counters
           /\ kind = "raised" => result'.count = NoCount
           /\ result' \in [kind : {"none", "ok", "error", "raised"}, count : CountType]
BY DEF Finish, TypeOK, NoCount, CountType

(* The steps before the connection is up.                                   *)
LEMMA SearchIInv ==
    ASSUME IInv, CheckProfile \/ Scan \/ Rescan \/ DeviceMissing \/ Connect
    PROVE  IInv'
<1>1. /\ pc \in Searching /\ pending = "none" /\ ~connected /\ started = <<>>
      /\ result.kind = "none" /\ TypeOK
      /\ UNCHANGED <<environment, notifyIndex, started, sending, pending>>
  BY DEF IInv, PhaseInv, Searching, CheckProfile, Scan, Rescan, DeviceMissing, Connect
<1>2. \/ /\ pc' \in Searching \cup {"services"} /\ UNCHANGED result
         /\ discovered' \subseteq Others \cup {Target}
         /\ connected' \in BOOLEAN
         /\ pc' \in Searching => ~connected'
      \/ /\ \E k \in {"error", "raised"} : Finish(k)
         /\ UNCHANGED <<discovered, connected>>
  <2>1. CASE CheckProfile
    BY <1>1, <2>1 DEF CheckProfile, Searching, TypeOK
  <2>2. CASE Scan
    BY <1>1, <2>2 DEF Scan, ScanReturns, ScanFails, Visible, Searching, TypeOK
  <2>3. CASE Rescan
    BY <1>1, <2>3 DEF Rescan, ScanReturns, ScanFails, Visible, Searching, TypeOK
  <2>4. CASE DeviceMissing
    BY <2>4 DEF DeviceMissing
  <2>5. CASE Connect
    BY <1>1, <2>5 DEF Connect, Searching, TypeOK
  <2> QED
    BY <2>1, <2>2, <2>3, <2>4, <2>5
<1>3. CASE /\ pc' \in Searching \cup {"services"} /\ UNCHANGED result
           /\ discovered' \subseteq Others \cup {Target}
           /\ connected' \in BOOLEAN
           /\ pc' \in Searching => ~connected'
  <2>1. TypeOK'
    BY <1>1, <1>3 DEF TypeOK, environment, sending, Searching
  <2>2. PhaseInv' /\ ResultInv' /\ OkMeansComplete' /\ ErrorReleasesPrinter'
    BY <1>1, <1>3
       DEF IInv, PhaseInv, ResultInv, OkMeansComplete, ErrorReleasesPrinter, Searching, sending
  <2>3. PositionInv' /\ CountersAgree'
    BY <1>1 DEF IInv, PositionInv, CountersAgree, AfterChunk, ChunkBytes, sending, environment
  <2> QED
    BY <2>1, <2>2, <2>3 DEF IInv
<1>4. ASSUME NEW k \in {"error", "raised"}, Finish(k), UNCHANGED <<discovered, connected>>
      PROVE  IInv'
  <2>1. /\ pc' = "done" /\ result'.kind = k /\ (k # "raised" => result'.count = counters)
        /\ result' \in [kind : {"none", "ok", "error", "raised"}, count : CountType]
    BY <1>1, <1>4, FinishFacts
  <2>2. TypeOK'
    BY <1>1, <1>4, <2>1 DEF TypeOK, environment, sending
  <2>3. PhaseInv' /\ ResultInv' /\ OkMeansComplete' /\ ErrorReleasesPrinter'
    BY <1>1, <1>4, <2>1
       DEF IInv, PhaseInv, ResultInv, OkMeansComplete, ErrorReleasesPrinter, Searching, sending
  <2>4. PositionInv' /\ CountersAgree'
    BY <1>1 DEF IInv, PositionInv, CountersAgree, AfterChunk, ChunkBytes, sending, environment
  <2> QED
    BY <2>2, <2>3, <2>4 DEF IInv
<1> QED
  BY <1>2, <1>3, <1>4

(* The steps between connecting and disconnecting that write nothing.       *)
LEMMA BodyIInv ==
    ASSUME IInv, CheckServices \/ Subscribe \/ Subscribed \/ BadChunkSize \/ Cooldown
                 \/ Unsubscribe
    PROVE  IInv'
<1>1. /\ pc \in Started /\ result.kind = "none" /\ TypeOK
      /\ pc # "unsubscribe" => pending = "none"
      /\ pc = "unsubscribe" => pending # "none"
      /\ UNCHANGED <<environment, discovered, cmd, offset, counters, printer, result, connected>>
  BY DEF IInv, PhaseInv, Started, sending, CheckServices, Subscribe, Subscribed, BadChunkSize,
         Cooldown, Unsubscribe
<1>2. /\ pc' \in Started
      /\ notifyIndex' \in Nat \ {0} /\ started' \in Seq(STRING) /\ slept' \in Nat
      /\ \/ pending' = pending /\ (pc' = "unsubscribe" <=> pc = "unsubscribe")
         \/ pending = "none" /\ pending' = "error" /\ pc' = "unsubscribe"
  <2>1. CASE CheckServices
    BY <1>1, <2>1 DEF CheckServices, Fail, Started, TypeOK, sending
  <2>2. CASE Subscribe
    <3>1. profile.notify \in Seq(STRING)
      BY <1>1, ProfileType
    <3>2. notifyIndex \in 1..Len(profile.notify)
      BY <1>1, <2>2, <3>1 DEF Subscribe, TypeOK
    <3>3. profile.notify[notifyIndex] \in STRING
      BY <3>1, <3>2
    <3>4. started' \in Seq(STRING)
      <4>1. \/ started' = Append(started, profile.notify[notifyIndex])
            \/ started' = started
        BY <2>2 DEF Subscribe
      <4>2. started \in Seq(STRING)
        BY <1>1 DEF TypeOK
      <4> QED
        BY <3>3, <4>1, <4>2
    <3>5. /\ notifyIndex' \in Nat \ {0} /\ slept' \in Nat /\ pc # "unsubscribe"
          /\ \/ pc' = pc /\ pending' = pending
             \/ pc' = "unsubscribe" /\ pending' = "error"
      BY <1>1, <2>2, <3>2 DEF Subscribe, Fail, TypeOK, sending
    <3> QED
      BY <1>1, <2>2, <3>4, <3>5 DEF Subscribe, Started
  <2>3. CASE Subscribed
    BY <1>1, <2>3 DEF Subscribed, Started, TypeOK, sending
  <2>4. CASE BadChunkSize
    BY <1>1, <2>4 DEF BadChunkSize, Fail, Started, TypeOK, sending
  <2>5. CASE Cooldown
    BY <1>1, <2>5 DEF Cooldown, Started, TypeOK
  <2>6. CASE Unsubscribe
    <3>1. started' \in Seq(STRING)
      BY <1>1, <2>6 DEF Unsubscribe, TypeOK
    <3> QED
      BY <1>1, <2>6, <3>1 DEF Unsubscribe, Started, TypeOK, sending
  <2> QED
    BY <2>1, <2>2, <2>3, <2>4, <2>5, <2>6
<1>3. TypeOK'
  BY <1>1, <1>2 DEF TypeOK, Started, environment
<1>4. PhaseInv'
  BY <1>1, <1>2 DEF PhaseInv, Searching, Started
<1>5. PositionInv'
  BY <1>1, <1>2 DEF IInv, PositionInv, AfterChunk, ChunkBytes, environment
<1>6. CountersAgree' /\ ResultInv' /\ OkMeansComplete' /\ ErrorReleasesPrinter'
  BY <1>1, <1>2
  DEF IInv, CountersAgree, ResultInv, OkMeansComplete, ErrorReleasesPrinter, Started
<1> QED
  BY <1>3, <1>4, <1>5, <1>6 DEF IInv

LEMMA DisconnectIInv == ASSUME IInv, Disconnect PROVE IInv'
<1>1. /\ pc = "unsubscribe" /\ started = <<>> /\ pending \in {"ok", "error"} /\ TypeOK
      /\ UNCHANGED <<environment, discovered, notifyIndex, started, sending, pending>>
  BY DEF IInv, PhaseInv, TypeOK, Disconnect
<1>2. PICK k \in {"ok", "error", "raised"} :
        /\ Finish(k) /\ connected' \in BOOLEAN
        /\ k # "raised" => k = pending /\ ~connected'
  BY <1>1 DEF Disconnect
<1>3. /\ pc' = "done" /\ result'.kind = k /\ (k # "raised" => result'.count = counters)
      /\ result' \in [kind : {"none", "ok", "error", "raised"}, count : CountType]
  BY <1>1, <1>2, FinishFacts
<1>4. TypeOK'
  BY <1>1, <1>2, <1>3 DEF TypeOK, environment, sending
<1>5. PhaseInv' /\ ResultInv' /\ ErrorReleasesPrinter'
  BY <1>1, <1>2, <1>3 DEF IInv, PhaseInv, ResultInv, ErrorReleasesPrinter, Searching, sending
<1>6. PositionInv' /\ CountersAgree'
  BY <1>1 DEF IInv, PositionInv, CountersAgree, AfterChunk, ChunkBytes, sending, environment
<1>7. OkMeansComplete'
  <2> SUFFICES ASSUME k = "ok"
               PROVE  /\ printer.cmd = StopCommand + 1
                      /\ counters = [bands |-> NumBands, rows |-> TotalRows, raster |-> TotalBytes]
    BY <1>1, <1>2, <1>3 DEF OkMeansComplete, sending
  <2>1. pending = "ok" /\ cmd = StopCommand + 1
    BY <1>2 DEF IInv, PositionInv
  <2>2. printer.cmd = StopCommand + 1 /\ counters.bands = BandsBefore(cmd)
    BY <2>1 DEF IInv, PositionInv
  <2>3. counters.bands = NumBands
    BY <2>1, <2>2, NumBandsType DEF BandsBefore, IsBand
  <2>4. counters.rows = TotalRows /\ counters.raster = TotalBytes
    BY <2>3, NumBandsType DEF IInv, CountersAgree
  <2> QED
    BY <1>1, <2>2, <2>3, <2>4 DEF TypeOK, CountType
<1> QED
  BY <1>4, <1>5, <1>6, <1>7 DEF IInv

(* What holds when a chunk is due.                                          *)
LEMMA WriteFacts ==
    ASSUME IInv, WriteChunk
    PROVE  /\ pc = "write" /\ pending = "none" /\ TypeOK
           /\ cmd \in 1..StopCommand /\ offset \in Nat /\ offset < CommandBytes(cmd)
           /\ printer = [cmd |-> cmd, offset |-> offset, intact |-> TRUE]
           /\ profile.chunkSize \in Int /\ profile.chunkSize > 0
           /\ ChunkBytes(cmd, offset) \in Nat \ {0}
           /\ offset + ChunkBytes(cmd, offset) <= CommandBytes(cmd)
           /\ Receive(cmd, offset, ChunkBytes(cmd, offset)) = AfterChunk
           /\ AfterChunk \in [cmd : 1..(StopCommand + 1), offset : Nat, intact : BOOLEAN]
           /\ UNCHANGED <<environment, discovered, notifyIndex, started, slept, result, connected>>
<1>1. /\ pc = "write" /\ pending = "none" /\ TypeOK /\ profile.chunkSize > 0
      /\ UNCHANGED <<environment, discovered, notifyIndex, started, slept, result, connected>>
  BY DEF IInv, PhaseInv, WriteChunk
<1>2. cmd \in 1..StopCommand
  BY <1>1, NumBandsType DEF IInv, PositionInv, TypeOK
<1>3. /\ offset \in Nat /\ offset < CommandBytes(cmd)
      /\ printer = [cmd |-> cmd, offset |-> offset, intact |-> TRUE]
  BY <1>1, <1>2, NumBandsType DEF IInv, PositionInv, TypeOK
<1>4. profile.chunkSize \in Int
  BY <1>1, ProfileType
<1>5. /\ ChunkBytes(cmd, offset) \in Nat \ {0}
      /\ offset + ChunkBytes(cmd, offset) <= CommandBytes(cmd)
  BY <1>1, <1>2, <1>3, <1>4, ChunkBytesType
<1>6. Receive(cmd, offset, ChunkBytes(cmd, offset)) = AfterChunk
  <2>1. printer.cmd = cmd /\ printer.offset = offset /\ printer.intact = TRUE
    BY <1>3
  <2> QED
    BY <2>1 DEF Receive, AfterChunk
<1>7. AfterChunk \in [cmd : 1..(StopCommand + 1), offset : Nat, intact : BOOLEAN]
  BY <1>2, <1>3, <1>5, NumBandsType DEF AfterChunk
<1> QED
  BY <1>1, <1>2, <1>3, <1>4, <1>5, <1>6, <1>7

LEMMA ChunkWrittenIInv == ASSUME IInv, WriteChunk, ChunkWritten PROVE IInv'
<1> DEFINE n == ChunkBytes(cmd, offset)
<1>1. /\ pc = "write" /\ pending = "none" /\ TypeOK
      /\ cmd \in 1..StopCommand /\ offset \in Nat /\ offset < CommandBytes(cmd)
      /\ n \in Nat \ {0} /\ offset + n <= CommandBytes(cmd)
      /\ AfterChunk \in [cmd : 1..(StopCommand + 1), offset : Nat, intact : BOOLEAN]
      /\ UNCHANGED <<environment, discovered, notifyIndex, started, slept, result, connected>>
  BY WriteFacts
<1>2. printer' = AfterChunk
  BY WriteFacts DEF ChunkWritten
<1>3. result.kind = "none" /\ counters.bands = BandsBefore(cmd)
  BY <1>1 DEF IInv, PhaseInv, PositionInv
<1>4. CASE offset + n = CommandBytes(cmd)
  <2>1. CommandWritten(cmd)
    BY <1>4 DEF ChunkWritten
  <2>2. /\ cmd' = cmd + 1 /\ offset' = 0
        /\ printer' = [cmd |-> cmd', offset |-> offset', intact |-> TRUE]
        /\ pc' \in {"unsubscribe", "cooldown", "write"}
        /\ IF cmd = StopCommand THEN pc' = "unsubscribe" /\ pending' = "ok"
                                ELSE pc' # "unsubscribe" /\ pending' = "none"
    BY <1>1, <1>2, <1>4, <2>1 DEF CommandWritten, AfterChunk
  <2>3. cmd' \in 1..(StopCommand + 1) /\ (cmd' = StopCommand + 1 <=> cmd = StopCommand)
    BY <1>1, <2>2, NumBandsType
  <2>4. counters' \in CountType /\ counters'.bands = BandsBefore(cmd + 1) /\ CountersAgree'
    <3>1. CASE IsBand(cmd)
      <4>1. cmd - 4 \in 1..NumBands /\ BandsBefore(cmd) = (cmd - 4) - 1
        BY <1>1, <3>1, NumBandsType DEF IsBand, BandsBefore
      <4>2. counters' = CountBand(counters, Bands[cmd - 4])
        BY <2>1, <3>1 DEF CommandWritten, BandOf
      <4>3. counters'.bands = cmd - 4 /\ counters' \in CountType /\ CountersAgree'
        BY <1>1, <1>3, <4>1, <4>2, CountedBand DEF IInv, TypeOK
      <4>4. BandsBefore(cmd + 1) = cmd - 4
        BY <3>1, <4>1, NumBandsType DEF IsBand, BandsBefore
      <4> QED
        BY <4>3, <4>4
    <3>2. CASE ~IsBand(cmd)
      <4>1. counters' = counters
        BY <2>1, <3>2 DEF CommandWritten
      <4>2. BandsBefore(cmd + 1) = BandsBefore(cmd)
        BY <1>1, <3>2, NumBandsType DEF IsBand, BandsBefore
      <4> QED
        BY <1>1, <1>3, <4>1, <4>2 DEF IInv, TypeOK, CountersAgree
    <3> QED
      BY <3>1, <3>2
  <2>5. TypeOK'
    BY <1>1, <1>2, <2>2, <2>3, <2>4 DEF TypeOK, environment
  <2>6. PhaseInv' /\ ResultInv' /\ OkMeansComplete' /\ ErrorReleasesPrinter'
    BY <1>1, <1>3, <2>2
       DEF PhaseInv, ResultInv, OkMeansComplete, ErrorReleasesPrinter, Searching
  <2>7. PositionInv'
    <3>1. cmd' # StopCommand + 1 => 0 < CommandBytes(cmd')
      <4> SUFFICES ASSUME cmd' # StopCommand + 1 PROVE 0 < CommandBytes(cmd')
        OBVIOUS
      <4>1. cmd' \in 1..StopCommand
        BY <2>3, NumBandsType
      <4> QED
        BY <4>1, CommandBytesType
    <3> QED
      BY <2>2, <2>3, <2>4, <3>1 DEF PositionInv
  <2> QED
    BY <2>4, <2>5, <2>6, <2>7 DEF IInv
<1>5. CASE offset + n # CommandBytes(cmd)
  <2>1. /\ offset' = offset + n /\ UNCHANGED <<cmd, counters, pc, pending>>
        /\ printer' = [cmd |-> cmd', offset |-> offset', intact |-> TRUE]
    BY <1>2, <1>5 DEF ChunkWritten, AfterChunk
  <2>2. TypeOK'
    BY <1>1, <1>2, <2>1 DEF TypeOK, environment
  <2>3. PhaseInv' /\ ResultInv' /\ OkMeansComplete' /\ ErrorReleasesPrinter'
    BY <1>1, <1>3, <2>1
       DEF IInv, PhaseInv, ResultInv, OkMeansComplete, ErrorReleasesPrinter, Searching
  <2>4. offset' < CommandBytes(cmd)
    BY <1>1, <1>5, <2>1, CommandBytesType
  <2>5. PositionInv' /\ CountersAgree'
    BY <1>1, <1>3, <2>1, <2>4, NumBandsType DEF IInv, PositionInv, CountersAgree
  <2> QED
    BY <2>2, <2>3, <2>5 DEF IInv
<1> QED
  BY <1>4, <1>5

LEMMA ChunkFailsIInv == ASSUME IInv, WriteChunk, ChunkFails PROVE IInv'
<1>1. /\ pc = "write" /\ pending = "none" /\ TypeOK
      /\ printer = [cmd |-> cmd, offset |-> offset, intact |-> TRUE]
      /\ cmd \in 1..StopCommand /\ profile.chunkSize > 0
      /\ AfterChunk \in [cmd : 1..(StopCommand + 1), offset : Nat, intact : BOOLEAN]
      /\ UNCHANGED <<environment, discovered, notifyIndex, started, slept, result, connected>>
  BY WriteFacts
<1>2. /\ pending' = "error" /\ pc' = "unsubscribe" /\ UNCHANGED <<cmd, offset, counters>>
      /\ printer' \in {printer, AfterChunk}
  BY WriteFacts DEF ChunkFails, Fail
<1>3. TypeOK'
  BY <1>1, <1>2 DEF TypeOK, environment
<1>4. PhaseInv' /\ ResultInv' /\ OkMeansComplete' /\ ErrorReleasesPrinter'
  BY <1>1, <1>2
     DEF IInv, PhaseInv, ResultInv, OkMeansComplete, ErrorReleasesPrinter, Searching
<1>5. AfterChunk' = AfterChunk
  BY <1>1, <1>2 DEF AfterChunk, ChunkBytes, environment
<1>6. PositionInv' /\ CountersAgree'
  BY <1>1, <1>2, <1>5, NumBandsType DEF IInv, PositionInv, CountersAgree, environment
<1> QED
  BY <1>3, <1>4, <1>6 DEF IInv

LEMMA NextIInv == IInv /\ [Next]_vars => IInv'
<1> SUFFICES ASSUME IInv, [Next]_vars PROVE IInv'
  OBVIOUS
<1>1. CASE CheckProfile \/ Scan \/ Rescan \/ DeviceMissing \/ Connect
  BY <1>1, SearchIInv
<1>2. CASE CheckServices \/ Subscribe \/ Subscribed \/ BadChunkSize \/ Cooldown \/ Unsubscribe
  BY <1>2, BodyIInv
<1>3. CASE WriteChunk
  BY <1>3, ChunkWrittenIInv, ChunkFailsIInv DEF WriteChunk
<1>4. CASE Disconnect
  BY <1>4, DisconnectIInv
<1>5. CASE UNCHANGED vars
  BY <1>5 DEF vars, environment, IInv, TypeOK, PhaseInv, PositionInv, AfterChunk, ChunkBytes,
              CountersAgree, ResultInv, OkMeansComplete, ErrorReleasesPrinter
<1> QED
  BY <1>1, <1>2, <1>3, <1>4, <1>5 DEF Next

-----------------------------------------------------------------------------
(* How far into the raster a position of the script is.                     *)
LEMMA RasterSeam ==
    ASSUME NEW k \in 1..StopCommand
    PROVE  RasterBytesBefore(k + 1, 0) = RasterBytesBefore(k, CommandBytes(k))
<1>1. CASE k <= 3
  BY <1>1, NumBandsType DEF RasterBytesBefore
<1>2. CASE k = 4
  <2>1. IsBand(5) /\ BandOf(5) = Bands[1] /\ Bands[1].byteOffset = 0
    BY NumBandsType, PlanFacts DEF IsBand, BandOf
  <2> QED
    BY <1>2, <2>1 DEF RasterBytesBefore, HeaderBytes
<1>3. CASE IsBand(k)
  <2>1. k - 4 \in 1..NumBands /\ ~(k <= 4) /\ ~(k + 1 <= 4)
    BY <1>3, NumBandsType DEF IsBand
  <2>2. RasterBytesBefore(k, CommandBytes(k)) = Bands[k - 4].byteOffset + Bands[k - 4].byteLength
    BY <1>3, <2>1, BandFacts DEF RasterBytesBefore, CommandBytes, HeaderBytes, BandOf
  <2>3. CASE k - 4 < NumBands
    <3>1. IsBand(k + 1) /\ BandOf(k + 1) = Bands[(k - 4) + 1]
      BY <1>3, <2>1, <2>3, NumBandsType DEF IsBand, BandOf
    <3>2. Bands[(k - 4) + 1].byteOffset = Bands[k - 4].byteOffset + Bands[k - 4].byteLength
      BY <2>1, <2>3, PlanFacts
    <3>3. Bands[(k - 4) + 1].byteOffset \in Nat
      BY <2>1, <2>3, BandFacts, NumBandsType
    <3> QED
      BY <2>1, <2>2, <3>1, <3>2, <3>3 DEF RasterBytesBefore, HeaderBytes
  <2>4. CASE k - 4 = NumBands
    <3>1. ~IsBand(k + 1)
      BY <1>3, <2>4, NumBandsType DEF IsBand
    <3>2. Bands[k - 4].byteOffset + Bands[k - 4].byteLength = TotalBytes
      BY <2>4, PlanFacts
    <3> QED
      BY <2>1, <2>2, <3>1, <3>2 DEF RasterBytesBefore
  <2> QED
    BY <2>1, <2>3, <2>4, NumBandsType
<1>4. CASE ~(k <= 4) /\ ~IsBand(k)
  <2>1. ~IsBand(k + 1) /\ ~(k + 1 <= 4)
    BY <1>4, NumBandsType DEF IsBand
  <2> QED
    BY <1>4, <2>1 DEF RasterBytesBefore
<1> QED
  BY <1>1, <1>2, <1>3, <1>4, NumBandsType

LEMMA RasterGrows ==
    ASSUME NEW k \in 1..(StopCommand + 1), NEW a \in Nat, NEW b \in Nat, a <= b,
           k # StopCommand + 1 => b <= CommandBytes(k)
    PROVE  /\ RasterBytesBefore(k, a) \in Nat /\ RasterBytesBefore(k, b) \in Nat
           /\ RasterBytesBefore(k, a) <= RasterBytesBefore(k, b)
           /\ RasterBytesBefore(k, b) <= TotalBytes
<1>0. TotalBytes \in Nat
  BY PlanFacts
<1>1. CASE k <= 4
  BY <1>0, <1>1 DEF RasterBytesBefore
<1>2. CASE IsBand(k)
  <2>1. k - 4 \in 1..NumBands /\ ~(k <= 4) /\ k # StopCommand + 1
    BY <1>2, NumBandsType DEF IsBand
  <2>2. CommandBytes(k) = HeaderBytes + Bands[k - 4].byteLength
    BY <1>2, <2>1 DEF CommandBytes, BandOf
  <2> QED
    BY <1>0, <1>2, <2>1, <2>2, BandFacts DEF RasterBytesBefore, HeaderBytes, BandOf
<1>3. CASE ~(k <= 4) /\ ~IsBand(k)
  BY <1>0, <1>3 DEF RasterBytesBefore
<1> QED
  BY <1>1, <1>2, <1>3

(* The raster bytes before a position lie within the band being written.    *)
LEMMA RasterInBand ==
    ASSUME NEW k \in 1..(StopCommand + 1), NEW off \in Nat,
           k # StopCommand + 1 => off <= CommandBytes(k)
    PROVE  LET b == BandsBefore(k) IN
           IF b < NumBands
             THEN /\ Bands[b + 1].byteOffset <= RasterBytesBefore(k, off)
                  /\ RasterBytesBefore(k, off) <= Bands[b + 1].byteOffset + Bands[b + 1].byteLength
             ELSE RasterBytesBefore(k, off) = TotalBytes
<1>1. CASE k <= 4
  <2>1. BandsBefore(k) = 0 /\ Bands[1].byteOffset = 0 /\ Bands[1].byteLength \in Nat
    BY <1>1, PlanFacts, BandFacts, NumBandsType DEF BandsBefore
  <2> QED
    BY <1>1, <2>1, NumBandsType DEF RasterBytesBefore
<1>2. CASE IsBand(k)
  <2>1. k - 4 \in 1..NumBands /\ ~(k <= 4) /\ k # StopCommand + 1
    BY <1>2, NumBandsType DEF IsBand
  <2>2. BandsBefore(k) = k - 5 /\ BandsBefore(k) + 1 = k - 4 /\ BandsBefore(k) < NumBands
    BY <1>2, <2>1, NumBandsType DEF BandsBefore
  <2>3. CommandBytes(k) = HeaderBytes + Bands[k - 4].byteLength
    BY <1>2, <2>1 DEF CommandBytes, BandOf
  <2> QED
    BY <1>2, <2>1, <2>2, <2>3, BandFacts DEF RasterBytesBefore, HeaderBytes, BandOf
<1>3. CASE ~(k <= 4) /\ ~IsBand(k)
  <2>1. BandsBefore(k) = NumBands
    BY <1>3, NumBandsType DEF BandsBefore, IsBand
  <2> QED
    BY <1>3, <2>1, NumBandsType DEF RasterBytesBefore
<1> QED
  BY <1>1, <1>2, <1>3

(* What the printer has is what stands before some byte of the command that *)
(* is being written.                                                        *)
LEMMA ReceivedWithin ==
    ASSUME IInv
    PROVE  /\ cmd \in 1..(StopCommand + 1)
           /\ \E off \in Nat : /\ cmd # StopCommand + 1 => off <= CommandBytes(cmd)
                              /\ RasterReceived = RasterBytesBefore(cmd, off)
<1>1. TypeOK /\ PositionInv
  BY DEF IInv
<1>2. CASE printer = [cmd |-> cmd, offset |-> offset, intact |-> TRUE]
  <2>1. RasterReceived = RasterBytesBefore(cmd, offset)
    BY <1>2 DEF RasterReceived
  <2>2. cmd # StopCommand + 1 => offset <= CommandBytes(cmd)
    BY <1>1, CommandBytesType, NumBandsType DEF PositionInv, TypeOK
  <2> QED
    BY <1>1, <2>1, <2>2 DEF TypeOK
<1>3. CASE pending = "error" /\ profile.chunkSize > 0 /\ printer = AfterChunk
  <2>1. cmd \in 1..StopCommand /\ offset \in Nat /\ offset < CommandBytes(cmd)
    BY <1>1, <1>3, NumBandsType DEF PositionInv, TypeOK
  <2>2. /\ ChunkBytes(cmd, offset) \in Nat \ {0}
        /\ offset + ChunkBytes(cmd, offset) <= CommandBytes(cmd)
    BY <1>1, <1>3, <2>1, ChunkBytesType, ProfileType
  <2>3. RasterReceived = RasterBytesBefore(cmd, offset + ChunkBytes(cmd, offset))
    BY <1>3, <2>1, RasterSeam DEF RasterReceived, AfterChunk
  <2> QED
    BY <1>1, <2>1, <2>2, <2>3 DEF TypeOK
<1> QED
  BY <1>1, <1>2, <1>3 DEF PositionInv

LEMMA IInvBracket == IInv => CountersBracketOutput /\ RasterReceived \in 0..TotalBytes
<1> SUFFICES ASSUME IInv PROVE CountersBracketOutput /\ RasterReceived \in 0..TotalBytes
  OBVIOUS
<1>1. PICK off \in Nat : /\ cmd # StopCommand + 1 => off <= CommandBytes(cmd)
                         /\ RasterReceived = RasterBytesBefore(cmd, off)
  BY ReceivedWithin
<1>2. cmd \in 1..(StopCommand + 1)
  BY ReceivedWithin
<1>3. RasterReceived \in 0..TotalBytes
  BY <1>1, <1>2, RasterGrows, PlanFacts
<1>4. counters.bands = BandsBefore(cmd) /\ CountersAgree
  BY DEF IInv, PositionInv
<1>5. CASE counters.bands < NumBands
  <2>1. /\ Bands[counters.bands + 1].byteOffset <= RasterReceived
        /\ RasterReceived <= Bands[counters.bands + 1].byteOffset
                               + Bands[counters.bands + 1].byteLength
    BY <1>1, <1>2, <1>4, <1>5, RasterInBand
  <2> QED
    BY <1>3, <1>4, <1>5, <2>1 DEF CountersBracketOutput, CountersAgree
<1>6. CASE ~(counters.bands < NumBands)
  <2>1. RasterReceived = TotalBytes
    BY <1>1, <1>2, <1>4, <1>6, RasterInBand
  <2> QED
    BY <1>3, <1>4, <1>6, <2>1, PlanFacts DEF CountersBracketOutput, CountersAgree
<1> QED
  BY <1>5, <1>6, <1>3

-----------------------------------------------------------------------------
(* Every variable of the transport keeps its type, so no command after stop *)
(* and no band beyond the plan is ever reached (_print_plan).               *)
THEOREM TransportTypeCorrect == Spec => []TypeOK
<1>1. IInv => TypeOK
  BY DEF IInv
<1> QED
  BY InitIInv, NextIInv, <1>1, PTL DEF Spec

(* The printer receives a prefix of the script, whatever the chunk size and *)
(* whichever await fails (_write_chunked).                                  *)
THEOREM TransportKeepsOrder == Spec => []ScriptArrivesInOrder
<1>1. IInv => ScriptArrivesInOrder
  BY DEF IInv, PositionInv, AfterChunk, ScriptArrivesInOrder
<1> QED
  BY InitIInv, NextIInv, <1>1, PTL DEF Spec

(* The counters never claim more than the printer received, and leave out   *)
(* at most the band being written (_TransferCounters).                      *)
THEOREM TransportCountsSafely == Spec => []CountersBracketOutput
<1>1. IInv => CountersBracketOutput
  BY IInvBracket
<1> QED
  BY InitIInv, NextIInv, <1>1, PTL DEF Spec

(* Bands, rows and bytes sent stand at the same band boundary               *)
(* (_TransferCounters).                                                     *)
THEOREM TransportCountersAgree == Spec => []CountersAgree
<1>1. IInv => CountersAgree
  BY DEF IInv
<1> QED
  BY InitIInv, NextIInv, <1>1, PTL DEF Spec

(* A normal return means the whole script arrived and everything is         *)
(* released.  A PrintTransportError also releases everything, and no        *)
(* failing stop_notify takes its place (the finally block and the           *)
(* async-with of _print_plan).                                              *)
THEOREM TransportReleases == Spec => [](OkMeansComplete /\ ErrorReleasesPrinter)
<1>1. IInv => OkMeansComplete /\ ErrorReleasesPrinter
  BY DEF IInv
<1> QED
  BY InitIInv, NextIInv, <1>1, PTL DEF Spec

-----------------------------------------------------------------------------
(* The step from one count of raster bytes to the next while the call runs. *)
LEMMA WriteGrows ==
    ASSUME IInv, WriteChunk
    PROVE  /\ RasterReceived \in Nat /\ RasterReceived <= RasterReceived'
           /\ RasterReceived' \in 0..TotalBytes
           /\ UNCHANGED result
<1> DEFINE n == ChunkBytes(cmd, offset)
<1>1. /\ cmd \in 1..StopCommand /\ offset \in Nat
      /\ printer = [cmd |-> cmd, offset |-> offset, intact |-> TRUE]
      /\ n \in Nat \ {0} /\ offset + n <= CommandBytes(cmd)
      /\ UNCHANGED result
  BY WriteFacts
<1>2. RasterReceived = RasterBytesBefore(cmd, offset)
  BY <1>1 DEF RasterReceived
<1>3. printer' \in {printer, AfterChunk}
  BY WriteFacts DEF WriteChunk, ChunkWritten, ChunkFails
<1>4. cmd \in 1..(StopCommand + 1) /\ cmd # StopCommand + 1
  BY <1>1, NumBandsType
<1>5. /\ RasterBytesBefore(cmd, offset) \in Nat
      /\ RasterBytesBefore(cmd, offset + n) \in Nat
      /\ RasterBytesBefore(cmd, offset) <= RasterBytesBefore(cmd, offset + n)
      /\ RasterBytesBefore(cmd, offset + n) <= TotalBytes
  BY <1>1, <1>4, RasterGrows
<1>6. CASE printer' = printer
  BY <1>1, <1>2, <1>5, <1>6, PlanFacts DEF RasterReceived
<1>7. CASE printer' = AfterChunk
  <2>1. RasterReceived' = RasterBytesBefore(cmd, offset + n)
    BY <1>1, <1>7, RasterSeam DEF RasterReceived, AfterChunk
  <2> QED
    BY <1>1, <1>2, <1>5, <2>1, PlanFacts
<1> QED
  BY <1>3, <1>6, <1>7

(* The steps that end the call: the contract's Return.                      *)
LEMMA FinishReturns ==
    ASSUME IInv, result.kind = "none", NEW k \in {"ok", "error", "raised"}, Finish(k),
           k = "ok" => pending = "ok", UNCHANGED printer
    PROVE  Contract!Return
<1>1. /\ result'.kind = k
      /\ k # "raised" => result'.count = counters
      /\ k = "raised" => result'.count = NoCount
  BY FinishFacts DEF IInv
<1>2. RasterReceived' = RasterReceived
  BY DEF RasterReceived
<1>3. RasterReceived \in 0..TotalBytes /\ counters.raster <= RasterReceived /\ counters.raster \in Nat
  BY IInvBracket DEF CountersBracketOutput, IInv, TypeOK, CountType
<1>4. CASE k = "ok"
  <2>1. cmd = StopCommand + 1 /\ pending = "ok"
    BY <1>4 DEF IInv, PositionInv
  <2>2. counters.bands = NumBands
    BY <2>1, NumBandsType DEF IInv, PositionInv, BandsBefore, IsBand
  <2>3. counters.raster = TotalBytes
    BY <2>2, NumBandsType DEF IInv, CountersAgree
  <2>4. RasterReceived = TotalBytes
    BY <1>3, <2>3, PlanFacts
  <2> QED
    BY <1>1, <1>2, <1>4, <2>3, <2>4 DEF Contract!Return
<1>5. CASE k = "error"
  BY <1>1, <1>2, <1>3, <1>5 DEF Contract!Return
<1>6. CASE k = "raised"
  BY <1>1, <1>2, <1>6 DEF Contract!Return, NoCount
<1> QED
  BY <1>4, <1>5, <1>6

LEMMA ContractInit == Init => Contract!Init
<1>1. RasterBytesBefore(1, 0) = 0
  BY DEF RasterBytesBefore
<1> QED
  BY <1>1 DEF Init, Contract!Init, RasterReceived, NoCount

LEMMA ContractStep == IInv /\ [Next]_vars => [Contract!Next]_Contract!contractVars
<1> SUFFICES ASSUME IInv, [Next]_vars
             PROVE  Contract!Next \/ UNCHANGED Contract!contractVars
  OBVIOUS
<1>1. ASSUME UNCHANGED <<printer, result>> PROVE UNCHANGED Contract!contractVars
  BY <1>1 DEF Contract!contractVars, RasterReceived
<1>2. ASSUME NEW k \in {"ok", "error", "raised"}, Finish(k), UNCHANGED printer,
             pc # "done", k = "ok" => pending = "ok"
      PROVE  Contract!Next
  <2>1. result.kind = "none"
    BY <1>2 DEF IInv, PhaseInv
  <2> QED
    BY <1>2, <2>1, FinishReturns DEF Contract!Next
<1>3. CASE WriteChunk
  <2>1. /\ RasterReceived \in Nat /\ RasterReceived <= RasterReceived'
        /\ RasterReceived' \in 0..TotalBytes /\ UNCHANGED result
    BY <1>3, WriteGrows
  <2>2. result.kind = "none"
    BY <1>3 DEF IInv, PhaseInv, WriteChunk
  <2>3. CASE RasterReceived' = RasterReceived
    BY <2>1, <2>3 DEF Contract!contractVars
  <2>4. CASE RasterReceived' # RasterReceived
    <3>1. RasterReceived' \in (RasterReceived + 1)..TotalBytes
      BY <2>1, <2>4
    <3>2. Contract!Transfer
      BY <2>1, <2>2, <3>1 DEF Contract!Transfer
    <3> QED
      BY <3>2 DEF Contract!Next
  <2> QED
    BY <2>3, <2>4
<1>4. CASE CheckProfile
  BY <1>1, <1>2, <1>4 DEF CheckProfile, sending
<1>5. CASE Scan \/ Rescan
  BY <1>1, <1>2, <1>5 DEF Scan, Rescan, ScanReturns, ScanFails, sending
<1>6. CASE DeviceMissing
  BY <1>2, <1>6 DEF DeviceMissing, sending
<1>7. CASE Connect
  BY <1>1, <1>2, <1>7 DEF Connect, sending
<1>8. CASE CheckServices \/ Subscribe \/ Subscribed \/ BadChunkSize \/ Cooldown \/ Unsubscribe
  BY <1>1, <1>8 DEF CheckServices, Subscribe, Subscribed, BadChunkSize, Cooldown, Unsubscribe, sending
<1>9. CASE Disconnect
  <2>1. pending \in {"ok", "error"}
    BY <1>9 DEF Disconnect, IInv, PhaseInv, TypeOK
  <2> QED
    BY <1>2, <1>9, <2>1 DEF Disconnect, sending
<1>10. CASE UNCHANGED vars
  BY <1>1, <1>10 DEF vars
<1> QED
  BY <1>3, <1>4, <1>5, <1>6, <1>7, <1>8, <1>9, <1>10 DEF Next

(* The transport implements the contract of the queue's model: raster bytes *)
(* arrive while the call runs, and its result never claims too much         *)
(* (print_plan against its caller in printing/queue.py).                    *)
THEOREM TransportImplementsContract == Spec => ImplementsContract
<1>1. Init => IInv /\ Contract!Init
  BY InitIInv, ContractInit
<1> QED
  BY <1>1, NextIInv, ContractStep, PTL DEF Spec, ImplementsContract, Contract!Spec

(* Once the body has failed, or the call is over, nothing more is written   *)
(* and no count changes: the transport neither retries nor resumes.         *)
THEOREM TransportStopsAfterFailure == Spec => NothingWrittenAfterFailure
<1> DEFINE Quiet == pending = "error" \/ pc = "done" => UNCHANGED <<printer, counters>>
<1>1. IInv /\ [Next]_vars => [Quiet]_vars
  <2> SUFFICES ASSUME IInv, Next, pending = "error" \/ pc = "done"
               PROVE  UNCHANGED <<printer, counters>>
    BY DEF vars
  <2>1. ~WriteChunk
    BY DEF IInv, PhaseInv, WriteChunk
  <2> QED
    BY <2>1 DEF Next, CheckProfile, Scan, Rescan, DeviceMissing, Connect, CheckServices, Subscribe,
                Subscribed, BadChunkSize, Cooldown, Unsubscribe, Disconnect, sending
<1> QED
  BY <1>1, InitIInv, NextIInv, PTL DEF Spec, NothingWrittenAfterFailure

-----------------------------------------------------------------------------
(* Thermal pacing: the coroutine has slept once for each band behind it     *)
(* that cools, but for the cooldown it is in.                               *)
PaceInv ==
    /\ pc \in Searching \cup {"services", "notify", "write"} => slept = CooldownsBefore(cmd)
    /\ pc = "cooldown" => slept + 1 = CooldownsBefore(cmd)

LEMMA CooldownsStep ==
    ASSUME NEW k \in 1..StopCommand
    PROVE  CooldownsBefore(k + 1) =
             IF IsBand(k) /\ BandOf(k).cools THEN CooldownsBefore(k) + 1 ELSE CooldownsBefore(k)
<1> DEFINE Cooling(n) == {i \in 1..NumBands : i + 4 < n /\ Bands[i].cools}
<1>1. IsFiniteSet(Cooling(k)) /\ Cardinality(Cooling(k)) \in Nat
  <2>1. IsFiniteSet(1..NumBands)
    BY NumBandsType, FS_Interval
  <2> QED
    BY <2>1, FS_Subset, FS_CardinalityType
<1>2. CASE IsBand(k) /\ BandOf(k).cools
  <2>1. k - 4 \in 1..NumBands /\ Bands[k - 4].cools
    BY <1>2, NumBandsType DEF IsBand, BandOf
  <2>2. Cooling(k + 1) = Cooling(k) \cup {k - 4}
    BY <2>1, NumBandsType
  <2>3. k - 4 \notin Cooling(k)
    BY <2>1, NumBandsType
  <2> QED
    BY <1>1, <1>2, <2>2, <2>3, FS_AddElement DEF CooldownsBefore
<1>3. CASE ~(IsBand(k) /\ BandOf(k).cools)
  <2>1. Cooling(k + 1) = Cooling(k)
    <3> SUFFICES ASSUME NEW i \in 1..NumBands, Bands[i].cools, i + 4 < k + 1
                 PROVE  i + 4 < k
      BY NumBandsType
    <3>1. i + 4 # k
      BY <1>3, NumBandsType DEF IsBand, BandOf
    <3> QED
      BY <3>1, NumBandsType
  <2> QED
    BY <1>3, <2>1 DEF CooldownsBefore
<1> QED
  BY <1>2, <1>3

LEMMA InitPaceInv == Init => PaceInv
<1> SUFFICES ASSUME Init PROVE PaceInv
  OBVIOUS
<1>1. {i \in 1..NumBands : i + 4 < 1 /\ Bands[i].cools} = {}
  BY NumBandsType
<1>2. CooldownsBefore(1) = 0
  BY <1>1, FS_EmptySet DEF CooldownsBefore
<1> QED
  BY <1>2 DEF Init, PaceInv

LEMMA NextPaceInv == IInv /\ PaceInv /\ [Next]_vars => PaceInv'
<1> SUFFICES ASSUME IInv, PaceInv, [Next]_vars PROVE PaceInv'
  OBVIOUS
<1>1. CASE CheckProfile \/ Scan \/ Rescan \/ DeviceMissing \/ Connect
  <2>1. pc \in Searching /\ UNCHANGED <<slept, cmd>>
    BY <1>1 DEF CheckProfile, Scan, Rescan, DeviceMissing, Connect, Searching, sending
  <2>2. pc' # "cooldown"
    BY <1>1 DEF CheckProfile, Scan, Rescan, DeviceMissing, Connect, ScanReturns, ScanFails, Finish
  <2> QED
    BY <2>1, <2>2 DEF PaceInv, CooldownsBefore
<1>2. CASE CheckServices \/ Subscribe \/ Subscribed \/ BadChunkSize
  <2>1. pc \in {"services", "notify", "write"} /\ UNCHANGED <<slept, cmd>> /\ pc' # "cooldown"
    BY <1>2 DEF CheckServices, Subscribe, Subscribed, BadChunkSize, Fail, sending
  <2> QED
    BY <2>1 DEF PaceInv, CooldownsBefore
<1>3. CASE Unsubscribe \/ Disconnect
  <2>1. pc' \in {"unsubscribe", "done"}
    BY <1>3 DEF Unsubscribe, Disconnect, Finish
  <2> QED
    BY <2>1 DEF PaceInv, Searching
<1>4. CASE Cooldown
  <2>1. pc = "cooldown" /\ pc' = "write" /\ slept' = slept + 1 /\ cmd' = cmd
    BY <1>4 DEF Cooldown
  <2> QED
    BY <2>1 DEF PaceInv, CooldownsBefore
<1>5. CASE WriteChunk
  <2>1. /\ pc = "write" /\ cmd \in 1..StopCommand /\ slept \in Nat /\ slept' = slept
        /\ slept = CooldownsBefore(cmd)
    BY <1>5, WriteFacts DEF PaceInv, TypeOK
  <2>2. CASE ChunkFails
    BY <2>2 DEF ChunkFails, Fail, PaceInv, Searching
  <2>3. CASE ChunkWritten /\ CommandWritten(cmd)
    <3>1. /\ cmd' = cmd + 1
          /\ pc' = IF cmd = StopCommand THEN "unsubscribe"
                   ELSE IF IsBand(cmd) /\ BandOf(cmd).cools THEN "cooldown" ELSE "write"
      BY <2>3 DEF CommandWritten
    <3>2. CooldownsBefore(cmd)' = CooldownsBefore(cmd + 1)
      BY <3>1 DEF CooldownsBefore
    <3> QED
      BY <2>1, <3>1, <3>2, CooldownsStep DEF PaceInv, Searching
  <2>4. CASE UNCHANGED <<cmd, pc>>
    BY <2>1, <2>4 DEF PaceInv, CooldownsBefore
  <2> QED
    BY <1>5, <2>2, <2>3, <2>4 DEF WriteChunk, ChunkWritten
<1>6. CASE UNCHANGED vars
  BY <1>6 DEF vars, PaceInv, CooldownsBefore
<1> QED
  BY <1>1, <1>2, <1>3, <1>4, <1>5, <1>6 DEF Next

(* Nothing is written before the cooldown of every band that the printer    *)
(* has was slept (docs/safety.md; _print_plan sleeps between two bands).    *)
THEOREM TransportHonoursCooldowns == Spec => CooldownHonoured
<1> DEFINE Paced == printer' # printer => slept = CooldownsBefore(printer.cmd)
<1>1. IInv /\ PaceInv /\ [Next]_vars => [Paced]_vars
  <2> SUFFICES ASSUME IInv, PaceInv, Next, printer' # printer
               PROVE  slept = CooldownsBefore(printer.cmd)
    OBVIOUS
  <2>1. WriteChunk
    BY DEF Next, CheckProfile, Scan, Rescan, DeviceMissing, Connect, CheckServices, Subscribe,
           Subscribed, BadChunkSize, Cooldown, Unsubscribe, Disconnect, sending
  <2>2. pc = "write" /\ printer.cmd = cmd
    BY <2>1, WriteFacts
  <2> QED
    BY <2>2 DEF PaceInv
<1>2. Init => IInv /\ PaceInv
  BY InitIInv, InitPaceInv
<1>3. IInv /\ PaceInv /\ [Next]_vars => (IInv /\ PaceInv)'
  BY NextIInv, NextPaceInv
<1> QED
  BY <1>1, <1>2, <1>3, PTL DEF Spec, CooldownHonoured

=============================================================================
