------------------------- MODULE SizeBucketProofs -------------------------
(***************************************************************************)
(* What size_bucket guarantees for every length a usize can hold, and that *)
(* the properties of the walk hold for every set of such lengths.          *)
(***************************************************************************)
EXTENDS SizeBucketWalk, SharedFacts

(* A length above the limit lies in the upper half of an octave that eight *)
(* steps fill.                                                             *)
LEMMA StepIsAnEighth ==
  ASSUME NEW n \in Nat, n <= MaxLength, n > SMALL_LIMIT
  PROVE  /\ next_power_of_two(n) = 8 * large_step(n)
         /\ 4 * large_step(n) < n
         /\ n <= 8 * large_step(n)
  <1> DEFINE P == next_power_of_two(n)
  <1>1. P \in PowersOfTwo /\ P >= n /\ \A q \in PowersOfTwo : q >= n => P <= q
    BY NextPowerExists
  <1>2. PICK k \in 0..MaxLog2 : P = Power[k]
    BY <1>1 DEF PowersOfTwo
  <1>3. Power[0] = 1 /\ Power[1] = 2 /\ Power[2] = 4
    <2>1. Power[0 + 1] = 2 * Power[0] /\ Power[1 + 1] = 2 * Power[1]
      BY PowerDoubles
    <2> QED BY <2>1, PowerDoubles
  <1>4. k \in Nat /\ k > 2
    <2>1. k \in Nat
      BY <1>2, WordAssumption
    <2>2. k # 0 /\ k # 1 /\ k # 2
      BY <1>1, <1>2, <1>3 DEF SMALL_LIMIT
    <2> QED BY <2>1, <2>2
  <1> DEFINE s == Power[k - 3]
  <1>5. s \in Nat /\ Power[k - 2] = 2 * s /\ Power[k - 1] = 4 * s /\ P = 8 * s
    <2>1. /\ k - 3 \in Nat /\ k - 2 \in Nat /\ k - 1 \in Nat
          /\ (k - 3) + 1 = k - 2 /\ (k - 2) + 1 = k - 1 /\ (k - 1) + 1 = k
      BY <1>4
    <2>2. \A j \in Nat : Power[j] \in Nat /\ Power[j + 1] = 2 * Power[j]
      BY PowerDoubles
    <2>3. s \in Nat /\ Power[k - 2] = 2 * s
      BY <2>1, <2>2
    <2>4. Power[k - 1] = 2 * Power[k - 2]
      BY <2>1, <2>2
    <2>5. Power[k] = 2 * Power[k - 1]
      BY <2>1, <2>2
    <2> QED BY <1>2, <2>3, <2>4, <2>5
  <1>6. large_step(n) = s
    <2>1. P \div 8 = s
      <3>1. P = 8 * s /\ s \in Nat
        BY <1>5
      <3> HIDE DEF s, P
      <3> QED BY <3>1
    <2>2. s >= MIN_BLOCK
      <3>1. 8 * s > SMALL_LIMIT
        BY <1>1, <1>5 DEF SMALL_LIMIT
      <3>2. s \in Nat
        BY <1>5
      <3> HIDE DEF s
      <3> QED BY <3>1, <3>2 DEF SMALL_LIMIT, MIN_BLOCK
    <2>3. large_step(n) = Larger(s, MIN_BLOCK)
      BY <2>1 DEF large_step
    <2> QED BY <2>2, <2>3 DEF Larger
  <1>7. 4 * s < n
    <2>1. Power[k - 1] \in PowersOfTwo
      <3>1. k - 1 \in 0..MaxLog2
        BY <1>2, <1>4, WordAssumption
      <3> QED BY <3>1 DEF PowersOfTwo
    <2>2. SUFFICES ASSUME 4 * s >= n PROVE FALSE
      BY <1>5
    <2>3. P <= 4 * s
      BY <1>1, <1>5, <2>1, <2>2
    <2>4. 8 * s <= 4 * s /\ 8 * s > 0 /\ s \in Nat
      BY <1>1, <1>5, <2>3 DEF SMALL_LIMIT
    <2> HIDE DEF s
    <2> QED BY <2>4
  <1> QED BY <1>1, <1>5, <1>6, <1>7

(* Rounding up is exact on multiples, order-preserving, and never passes a *)
(* multiple that bounds its argument.                                      *)
LEMMA RoundUpToMultiples ==
  ASSUME NEW s \in Nat, s > 0
  PROVE  /\ \A m \in Nat : div_ceil(m * s, s) = m
         /\ \A a, b \in Nat : a <= b => div_ceil(a, s) * s <= div_ceil(b, s) * s
         /\ \A a, m \in Nat : a <= m * s => div_ceil(a, s) * s <= m * s
  <1>1. \A x \in Nat : x \div s \in Nat /\ (x \div s) * s <= x /\ x < (x \div s) * s + s
    OBVIOUS
  <1>2. \A x, y \in Nat : x * s < y * s + s => x <= y
    <2> SUFFICES ASSUME NEW x \in Nat, NEW y \in Nat, x >= y + 1
                 PROVE  x * s >= y * s + s
      OBVIOUS
    <2>1. x * s >= (y + 1) * s
      OBVIOUS
    <2>2. (y + 1) * s = y * s + s
      OBVIOUS
    <2> QED BY <2>1, <2>2
  <1>3. \A x, y \in Nat : x <= y => x * s <= y * s
    OBVIOUS
  <1>4. ASSUME NEW m \in Nat PROVE div_ceil(m * s, s) = m
    <2> DEFINE d == (m * s + s - 1) \div s
    <2>1. m * s \in Nat /\ m * s + s - 1 \in Nat
      OBVIOUS
    <2>2. d \in Nat /\ d * s <= m * s + s - 1 /\ m * s + s - 1 < d * s + s
      BY <1>1, <2>1
    <2> HIDE DEF d
    <2>3. d * s \in Nat
      BY <2>2
    <2>4. d * s < m * s + s /\ m * s < d * s + s
      BY <2>1, <2>2, <2>3
    <2>5. d <= m /\ m <= d
      BY <1>2, <2>2, <2>4
    <2> QED BY <2>2, <2>5 DEF d, div_ceil
  <1>5. ASSUME NEW a \in Nat, NEW b \in Nat, a <= b
        PROVE  div_ceil(a, s) <= div_ceil(b, s) /\ div_ceil(a, s) \in Nat /\ div_ceil(b, s) \in Nat
    <2> DEFINE c == (a + s - 1) \div s
               d == (b + s - 1) \div s
    <2>1. a + s - 1 \in Nat /\ b + s - 1 \in Nat
      OBVIOUS
    <2>2. /\ c \in Nat /\ c * s <= a + s - 1
          /\ d \in Nat /\ b + s - 1 < d * s + s
      BY <1>1, <2>1
    <2> HIDE DEF c, d
    <2>3. c * s \in Nat /\ d * s \in Nat
      BY <2>2
    <2>4. c * s < d * s + s
      BY <1>5, <2>1, <2>2, <2>3
    <2>5. c <= d
      BY <1>2, <2>2, <2>4
    <2> QED BY <2>2, <2>5 DEF c, d, div_ceil
  <1>6. \A a, b \in Nat : a <= b => div_ceil(a, s) * s <= div_ceil(b, s) * s
    BY <1>3, <1>5
  <1>7. ASSUME NEW a \in Nat, NEW m \in Nat, a <= m * s
        PROVE  div_ceil(a, s) * s <= m * s
    <2>1. m * s \in Nat
      OBVIOUS
    <2>2. div_ceil(a, s) * s <= div_ceil(m * s, s) * s
      BY <1>6, <1>7, <2>1
    <2> QED BY <1>4, <2>2
  <1> QED BY <1>4, <1>6, <1>7

(* Up to the limit a bucket is a whole number of blocks within the limit.  *)
LEMMA SmallBuckets ==
  ASSUME NEW n \in Nat, n <= SMALL_LIMIT
  PROVE  /\ size_bucket(n) = div_ceil(n, MIN_BLOCK) * MIN_BLOCK
         /\ div_ceil(n, MIN_BLOCK) \in Nat
         /\ size_bucket(n) \in Nat
         /\ n <= size_bucket(n) /\ size_bucket(n) < n + MIN_BLOCK
         /\ size_bucket(n) <= SMALL_LIMIT
  <1>1. MIN_BLOCK \in Nat /\ MIN_BLOCK > 0 /\ SMALL_LIMIT = 2048 * MIN_BLOCK
    BY DEF MIN_BLOCK, SMALL_LIMIT
  <1>2. div_ceil(n, MIN_BLOCK) * MIN_BLOCK <= 2048 * MIN_BLOCK
    BY <1>1, RoundUpToMultiples
  <1>3. div_ceil(n, MIN_BLOCK) \in Nat
    BY DEF div_ceil, MIN_BLOCK
  <1>4. size_bucket(n) = div_ceil(n, MIN_BLOCK) * MIN_BLOCK
    BY DEF size_bucket
  <1>5. /\ size_bucket(n) \in Nat
        /\ n <= size_bucket(n) /\ size_bucket(n) < n + MIN_BLOCK
    BY <1>1, <1>4, RoundUp
  <1> QED BY <1>1, <1>2, <1>3, <1>4, <1>5

(* Above the limit a bucket is a whole number of the steps of its octave,  *)
(* and its own next power of two is that of the request.                   *)
LEMMA LargeBuckets ==
  ASSUME NEW n \in Nat, n <= MaxLength, n > SMALL_LIMIT
  PROVE  /\ size_bucket(n) = div_ceil(n, large_step(n)) * large_step(n)
         /\ div_ceil(n, large_step(n)) \in Nat
         /\ large_step(n) \in Nat /\ large_step(n) > 0
         /\ size_bucket(n) \in Nat
         /\ n <= size_bucket(n) /\ size_bucket(n) < n + large_step(n)
         /\ size_bucket(n) <= next_power_of_two(n)
         /\ next_power_of_two(size_bucket(n)) = next_power_of_two(n)
  <1> DEFINE s == large_step(n)
             P == next_power_of_two(n)
  <1>1. s \in Nat /\ s > 0
    BY LargeStepPositive DEF MIN_BLOCK
  <1>2. size_bucket(n) = div_ceil(n, s) * s
    BY DEF size_bucket, SMALL_LIMIT
  <1>3. n + s - 1 \in Nat /\ div_ceil(n, s) \in Nat
    <2>1. n + s - 1 \in Nat
      BY <1>1
    <2> QED BY <1>1, <2>1 DEF div_ceil
  <1>4. size_bucket(n) \in Nat /\ n <= size_bucket(n) /\ size_bucket(n) < n + s
    BY <1>1, <1>2, RoundUp
  <1>5. P = 8 * s /\ n <= 8 * s
    BY StepIsAnEighth
  <1>6. size_bucket(n) <= P
    BY <1>1, <1>2, <1>5, RoundUpToMultiples
  <1>7. P \in PowersOfTwo /\ P \in Nat /\ P <= MaxLength /\ \A q \in PowersOfTwo : q >= n => P <= q
    <2>1. P \in PowersOfTwo /\ \A q \in PowersOfTwo : q >= n => P <= q
      BY NextPowerExists
    <2>2. MaxLength \in PowersOfTwo /\ PowersOfTwo \subseteq Nat
      BY PowersNat
    <2> QED BY <2>1, <2>2
  <1>8. next_power_of_two(size_bucket(n)) = P
    <2> DEFINE b == size_bucket(n)
               Q == next_power_of_two(b)
    <2>1. b \in Nat /\ b <= MaxLength /\ MaxLength \in Nat
      BY <1>4, <1>6, <1>7, PowersNat
    <2>2. Q \in PowersOfTwo /\ Q >= b /\ \A q \in PowersOfTwo : q >= b => Q <= q
      BY <2>1, NextPowerExists
    <2>3. Q \in Nat
      BY <2>2, PowersNat
    <2>4. Q <= P
      BY <1>6, <1>7, <2>2
    <2>5. Q >= n
      BY <1>4, <2>2, <2>3
    <2>6. P <= Q
      BY <1>7, <2>2, <2>5
    <2> QED BY <1>7, <2>3, <2>4, <2>6
  <1> QED BY <1>1, <1>2, <1>3, <1>4, <1>6, <1>8

(* A bucket's own size is served from that bucket: the free-list a buffer  *)
(* is returned to does not depend on which of the two lengths the caller   *)
(* remembers.                                                              *)
THEOREM EveryBucketIsFixed ==
  ASSUME NEW n \in Nat, n <= MaxLength
  PROVE  size_bucket(size_bucket(n)) = size_bucket(n)
  <1>1. CASE n <= SMALL_LIMIT
    <2>1. MIN_BLOCK \in Nat /\ MIN_BLOCK > 0
      BY DEF MIN_BLOCK
    <2>2. div_ceil(size_bucket(n), MIN_BLOCK) = div_ceil(n, MIN_BLOCK)
      BY <1>1, <2>1, SmallBuckets, RoundUpToMultiples
    <2>3. size_bucket(size_bucket(n)) = div_ceil(size_bucket(n), MIN_BLOCK) * MIN_BLOCK
      BY <1>1, SmallBuckets
    <2> QED BY <1>1, <2>2, <2>3, SmallBuckets
  <1>2. CASE ~(n <= SMALL_LIMIT)
    <2> DEFINE b == size_bucket(n)
    <2>1. n > SMALL_LIMIT /\ SMALL_LIMIT \in Nat
      BY <1>2 DEF SMALL_LIMIT
    <2>2. /\ b = div_ceil(n, large_step(n)) * large_step(n)
          /\ div_ceil(n, large_step(n)) \in Nat
          /\ large_step(n) \in Nat /\ large_step(n) > 0
          /\ b \in Nat /\ n <= b
          /\ next_power_of_two(b) = next_power_of_two(n)
      BY <2>1, LargeBuckets
    <2>3. large_step(b) = large_step(n)
      BY <2>2, Zenon DEF large_step
    <2>4. ~(b <= SMALL_LIMIT)
      BY <2>1, <2>2
    <2>5. size_bucket(b) = div_ceil(b, large_step(n)) * large_step(n)
      BY <2>3, <2>4, Zenon DEF size_bucket
    <2>6. div_ceil(b, large_step(n)) = div_ceil(n, large_step(n))
      BY <2>2, RoundUpToMultiples
    <2> QED BY <2>2, <2>5, <2>6
  <1> QED BY <1>1, <1>2

(* The slack is under one block up to 1 MiB, and under a quarter of the    *)
(* request above it.                                                       *)
THEOREM EverySlackIsSmall ==
  ASSUME NEW n \in Nat, n <= MaxLength
  PROVE  /\ n <= SMALL_LIMIT => size_bucket(n) - n < MIN_BLOCK
         /\ n > SMALL_LIMIT => 4 * (size_bucket(n) - n) < n
  <1>1. ASSUME n <= SMALL_LIMIT PROVE size_bucket(n) - n < MIN_BLOCK
    BY <1>1, SmallBuckets DEF MIN_BLOCK
  <1>2. ASSUME n > SMALL_LIMIT PROVE 4 * (size_bucket(n) - n) < n
    <2>1. /\ large_step(n) \in Nat /\ size_bucket(n) \in Nat
          /\ size_bucket(n) < n + large_step(n)
      BY <1>2, LargeBuckets
    <2>2. 4 * large_step(n) < n
      BY <1>2, StepIsAnEighth
    <2> QED BY <2>1, <2>2
  <1> QED BY <1>1, <1>2

(* A longer request never gets a smaller bucket, also across the switch of *)
(* regime and from one octave to the next.                                 *)
THEOREM BucketsGrow ==
  ASSUME NEW a \in Nat, NEW b \in Nat, a <= b, b <= MaxLength
  PROVE  size_bucket(a) <= size_bucket(b)
  <1>1. a <= MaxLength /\ MaxLength \in Nat /\ SMALL_LIMIT \in Nat
    BY PowersNat DEF SMALL_LIMIT
  <1>2. CASE b <= SMALL_LIMIT
    <2>1. MIN_BLOCK \in Nat /\ MIN_BLOCK > 0 /\ a <= SMALL_LIMIT
      BY <1>1, <1>2 DEF MIN_BLOCK
    <2>2. div_ceil(a, MIN_BLOCK) * MIN_BLOCK <= div_ceil(b, MIN_BLOCK) * MIN_BLOCK
      BY <2>1, RoundUpToMultiples
    <2> QED BY <1>2, <2>1, <2>2, SmallBuckets
  <1>3. CASE a <= SMALL_LIMIT /\ b > SMALL_LIMIT
    <2>1. size_bucket(a) \in Nat /\ size_bucket(a) <= SMALL_LIMIT
      BY <1>3, SmallBuckets
    <2>2. size_bucket(b) \in Nat /\ b <= size_bucket(b)
      BY <1>3, LargeBuckets
    <2> QED BY <1>1, <1>3, <2>1, <2>2
  <1>4. CASE a > SMALL_LIMIT
    <2> DEFINE A == next_power_of_two(a)
               B == next_power_of_two(b)
    <2>1. b > SMALL_LIMIT
      BY <1>1, <1>4
    <2>2. A \in PowersOfTwo /\ A >= a /\ \A q \in PowersOfTwo : q >= a => A <= q
      BY <1>1, NextPowerExists
    <2>3. B \in PowersOfTwo /\ B >= b /\ \A q \in PowersOfTwo : q >= b => B <= q
      BY NextPowerExists
    <2>4. A \in Nat /\ B \in Nat
      BY <2>2, <2>3, PowersNat
    <2>5. /\ size_bucket(a) = div_ceil(a, large_step(a)) * large_step(a)
          /\ size_bucket(a) \in Nat /\ size_bucket(a) <= A
      BY <1>1, <1>4, LargeBuckets
    <2>6. /\ size_bucket(b) = div_ceil(b, large_step(b)) * large_step(b)
          /\ size_bucket(b) \in Nat /\ b <= size_bucket(b)
          /\ large_step(b) \in Nat /\ large_step(b) > 0
      BY <2>1, LargeBuckets
    <2>7. CASE A = B
      <3>1. large_step(a) = large_step(b)
        BY <2>7, Zenon DEF large_step
      <3>2. div_ceil(a, large_step(b)) * large_step(b)
              <= div_ceil(b, large_step(b)) * large_step(b)
        BY <2>6, RoundUpToMultiples
      <3> QED BY <2>5, <2>6, <3>1, <3>2
    <2>8. CASE A # B
      <3>1. ~(A >= b)
        <4>1. B >= a
          BY <2>3, <2>4
        <4> QED BY <2>2, <2>3, <2>4, <2>8, <4>1
      <3> HIDE DEF A, B
      <3> QED BY <2>4, <2>5, <2>6, <3>1
    <2> QED BY <2>7, <2>8
  <1> QED BY <1>1, <1>2, <1>3, <1>4

-----------------------------------------------------------------------------
(* Every length asked for is within the largest power of two, the bound    *)
(* beyond which next_power_of_two itself overflows.                        *)
InRange == len \in Nat /\ len <= MaxLength

LEMMA AlwaysInRange == Spec => []InRange
  <1>1. Lengths \subseteq {n \in Nat : n <= MaxLength}
    BY LengthsAssumption, PowersNat
  <1>2. Init => InRange
    BY <1>1 DEF Init, InRange
  <1>3. InRange /\ [Next]_len => InRange'
    <2> SUFFICES ASSUME InRange, [Next]_len PROVE InRange'
      OBVIOUS
    <2>1. ASSUME NEW n \in Lengths, Request(n) PROVE InRange'
      BY <1>1, <2>1 DEF Request, InRange
    <2>2. CASE ExactFit
      BY <2>2, BucketHoldsEveryRequest DEF ExactFit, InRange
    <2>3. CASE UNCHANGED len
      BY <2>3 DEF InRange
    <2> QED BY <2>1, <2>2, <2>3 DEF Next
  <1> QED BY <1>2, <1>3, PTL DEF Spec

(* alloc_raw never hands out a buffer shorter than the length asked for.   *)
THEOREM HoldsRequest == Spec => []BucketHoldsRequest
  <1>1. InRange => BucketHoldsRequest
    BY BucketHoldsEveryRequest DEF InRange, BucketHoldsRequest
  <1> QED BY <1>1, AlwaysInRange, PTL

(* Asking for a bucket's own size gives the same bucket.                   *)
THEOREM FixedPoint == Spec => []BucketIsFixedPoint
  <1>1. InRange => BucketIsFixedPoint
    BY EveryBucketIsFixed DEF InRange, BucketIsFixedPoint
  <1> QED BY <1>1, AlwaysInRange, PTL

(* A bucket wastes less than a block, or less than a quarter of a request  *)
(* above 1 MiB.                                                            *)
THEOREM SmallSlack == Spec => []SlackUnderAQuarter
  <1>1. InRange => SlackUnderAQuarter
    BY EverySlackIsSmall DEF InRange, SlackUnderAQuarter, SMALL_LIMIT
  <1> QED BY <1>1, AlwaysInRange, PTL

(* Of two requests in a row, the longer never gets the smaller bucket.     *)
THEOREM Monotone == Spec => BucketsAreMonotone
  <1>1. InRange /\ InRange' => (len <= len' => size_bucket(len) <= size_bucket(len'))
    BY BucketsGrow DEF InRange
  <1> QED BY <1>1, AlwaysInRange, PTL DEF BucketsAreMonotone

===========================================================================
