--------------------------- MODULE LockFreeProofs ---------------------------
(***************************************************************************)
(* Theorems about the two structures that keep their state in one          *)
(* AtomicU64 and change it by compare-and-swap.                            *)
(*                                                                         *)
(* The token bucket, for any set of tasks, any burst, rate and cost, and   *)
(* any width of the clock.                                                 *)
(*                                                                         *)
(* The circuit breaker, for any set of tasks and any threshold, probe      *)
(* limit and timeout, and its manager, which hands out one breaker: what   *)
(* is shown of a breaker that is there from the start holds of one that    *)
(* the first of several racing requests makes.                             *)
(***************************************************************************)
EXTENDS TokenBucket, BreakerManager, TLAPS

\* A u32 time is in range.
LEMMA OffsetRange == \A n \in Int : n % ClockMod \in Offset
BY ClockModAssumption DEF Offset

\* wrapping_sub of two readings in order never exceeds the time between them.
LEMMA WrappingSub ==
  \A a, b \in Nat : b <= a => ((a % ClockMod) - (b % ClockMod)) % ClockMod <= a - b
BY ClockModAssumption

\* More time refills more tokens.
LEMMA RefillMono == \A x, y \in Nat : x <= y => x * Rate \in Nat /\ y * Rate \in Nat /\ x * Rate <= y * Rate
BY RateAssumption

\* The refill of a span is the difference of the refills of its ends.
LEMMA RefillDiff == \A x, y \in Nat : y <= x => (x - y) * Rate = Rate * x - Rate * y
BY RateAssumption

\* The refill of a word is never negative and never above the capacity.
LEMMA NewTokensType ==
  ASSUME NEW w \in BucketWord, NEW n \in Nat
  PROVE  NewTokens(n, w) \in 0 .. Capacity
<1>1. ElapsedMs(n, w) \in Nat
  BY ClockModAssumption DEF ElapsedMs, BucketWord, Offset
<1>2. ElapsedMs(n, w) * Rate \in Nat
  BY <1>1, RateAssumption
<1>3. QED
  BY <1>2, CapacityAssumption DEF NewTokens, AtMost, BucketWord

\* A new bucket is full.
LEMMA NewBucketType == NewBucket \in BucketWord
BY OffsetRange, CapacityAssumption DEF NewBucket, pack_bucket, BucketWord

\* The bound on the admitted tokens is a natural number.
LEMMA MaxAdmittedType == MaxAdmitted \in Nat
BY CapacityAssumption, RateAssumption, MaxTimeAssumption, CostAssumption DEF MaxAdmitted

\* Every step of try_acquire_n keeps the types; in particular no word ever
\* holds more than the burst capacity or less than nothing.
LEMMA BucketTypeStep == BucketTypeOK /\ [BucketNext]_bucketVars => BucketTypeOK'
<1> SUFFICES ASSUME BucketTypeOK, [BucketNext]_bucketVars PROVE BucketTypeOK'
  OBVIOUS
<1> USE DEF BucketTypeOK
<1>a. NewBucket \in BucketWord
  BY NewBucketType
<1>b. ASSUME NEW n \in Nat, NEW k \in 0 .. Capacity PROVE pack_bucket(k, n) \in BucketWord
  BY OffsetRange DEF pack_bucket, BucketWord
<1>1. CASE Millisecond
  BY <1>1, CapacityAssumption, RateAssumption DEF Millisecond, AtMost
<1>2. ASSUME NEW t \in Callers, Call(t) PROVE BucketTypeOK'
  BY <1>2 DEF Call
<1>3. ASSUME NEW t \in Callers, Load(t) PROVE BucketTypeOK'
  BY <1>3 DEF Load
<1>4. ASSUME NEW t \in Callers, Grant(t) PROVE BucketTypeOK'
  <2>1. NewTokens(readAt[t], current[t]) \in 0 .. Capacity
    BY NewTokensType
  <2>2. NewTokens(readAt[t], current[t]) - Cost \in 0 .. Capacity
    BY <1>4, <2>1, CostAssumption, CapacityAssumption DEF Grant, Enough
  <2>3. bucket' \in BucketWord
    BY <1>4, <1>b, <2>2 DEF Grant, CompareExchange
  <2>4. admitted' \in Nat /\ ideal' \in 0 .. Capacity
    BY <1>4, MaxAdmittedType, CostAssumption, CapacityAssumption DEF Grant, AtMost
  <2>5. QED
    BY <1>4, <1>a, <2>3, <2>4 DEF Grant, CompareExchange, Return
<1>5. ASSUME NEW t \in Callers, Retry(t) PROVE BucketTypeOK'
  BY <1>5, <1>a DEF Retry
<1>6. ASSUME NEW t \in Callers, Reject(t) PROVE BucketTypeOK'
  <2>1. NewTokens(readAt[t], current[t]) \in 0 .. Capacity
    BY NewTokensType
  <2>2. bucket' \in BucketWord
    BY <1>6, <1>b, <2>1 DEF Reject, CompareExchange
  <2>3. QED
    BY <1>6, <1>a, <2>2, Zenon DEF Reject, CompareExchange, Return
<1>7. CASE UNCHANGED bucketVars
  BY <1>7 DEF bucketVars
<1>8. QED
  BY <1>1, <1>2, <1>3, <1>4, <1>5, <1>6, <1>7 DEF BucketNext

\* The type invariant: the token field always fits its bits, so pack_bucket
\* never shifts a token out of the word.
THEOREM BucketTypeCorrect == BucketSpec => []BucketTypeOK
<1>1. BucketInit => BucketTypeOK
  <2> SUFFICES ASSUME BucketInit PROVE BucketTypeOK
    OBVIOUS
  <2>1. bucket \in BucketWord /\ clock \in Nat /\ admitted \in Nat /\ refillAt \in Nat
    BY NewBucketType DEF BucketInit
  <2>2. /\ at \in [Callers -> {"idle", "load", "cas"}]
        /\ readAt \in [Callers -> Nat]
        /\ current \in [Callers -> BucketWord]
    BY NewBucketType DEF BucketInit
  <2>3. stale \in BOOLEAN
    BY Zenon DEF BucketInit
  <2>4. ideal \in 0 .. Capacity
    BY CapacityAssumption DEF BucketInit
  <2>5. QED
    BY <2>1, <2>2, <2>3, <2>4 DEF BucketTypeOK
<1>2. QED
  BY <1>1, BucketTypeStep, PTL DEF BucketSpec

-----------------------------------------------------------------------------
(***************************************************************************)
(* The word carries the truncated time of its last write; no reading is    *)
(* ahead of the clock; and, while no write was stale, the tokens granted   *)
(* and the tokens left were all in the first burst or refilled since.      *)
(***************************************************************************)
TimesOK ==
  /\ bucket.refill = refillAt % ClockMod
  /\ refillAt <= clock
  /\ \A t \in Callers : readAt[t] <= clock

Conserved == ~ stale => bucket.tokens + admitted <= Capacity + Rate * refillAt

\* The clock only moves forward, and a write stamps the word with a reading.
LEMMA TimesStep == BucketTypeOK /\ TimesOK /\ [BucketNext]_bucketVars => TimesOK'
<1> SUFFICES ASSUME BucketTypeOK, TimesOK, [BucketNext]_bucketVars PROVE TimesOK'
  OBVIOUS
<1> USE DEF BucketTypeOK, TimesOK
<1>1. CASE Millisecond
  BY <1>1 DEF Millisecond
<1>2. ASSUME NEW t \in Callers, Call(t) PROVE TimesOK'
  BY <1>2 DEF Call
<1>3. ASSUME NEW t \in Callers, Load(t) \/ Retry(t) PROVE TimesOK'
  BY <1>3 DEF Load, Retry
<1>4. ASSUME NEW t \in Callers, Grant(t) PROVE TimesOK'
  BY <1>4 DEF Grant, CompareExchange, Return, pack_bucket
<1>5. ASSUME NEW t \in Callers, Reject(t) PROVE TimesOK'
  BY <1>5 DEF Reject, CompareExchange, Return, pack_bucket
<1>6. CASE UNCHANGED bucketVars
  BY <1>6 DEF bucketVars
<1>7. QED
  BY <1>1, <1>2, <1>3, <1>4, <1>5, <1>6 DEF BucketNext

\* A refill up to a reading that is not older than the word adds no more than
\* the rate allows for the time between the two.
LEMMA RefillBound ==
  ASSUME BucketTypeOK, TimesOK, NEW n \in Nat, refillAt <= n
  PROVE  NewTokens(n, bucket) <= bucket.tokens + Rate * n - Rate * refillAt
<1>1. ElapsedMs(n, bucket) \in Nat /\ ElapsedMs(n, bucket) <= n - refillAt
  <2>1. ElapsedMs(n, bucket) <= n - refillAt
    BY WrappingSub DEF ElapsedMs, TimesOK, BucketTypeOK
  <2>2. ElapsedMs(n, bucket) \in Nat
    BY ClockModAssumption DEF ElapsedMs, BucketTypeOK, BucketWord, Offset
  <2>3. QED
    BY <2>1, <2>2
<1>2. n - refillAt \in Nat
  BY DEF BucketTypeOK
<1>3. /\ ElapsedMs(n, bucket) * Rate \in Nat
      /\ (n - refillAt) * Rate \in Nat
      /\ ElapsedMs(n, bucket) * Rate <= (n - refillAt) * Rate
  BY <1>1, <1>2, RefillMono
<1>4. (n - refillAt) * Rate = Rate * n - Rate * refillAt
  BY RefillDiff DEF BucketTypeOK
<1>5. NewTokens(n, bucket) <= bucket.tokens + ElapsedMs(n, bucket) * Rate
  BY <1>3, CapacityAssumption DEF NewTokens, AtMost, BucketTypeOK, BucketWord
<1>6. Rate * n \in Nat /\ Rate * refillAt \in Nat
  BY RateAssumption DEF BucketTypeOK
<1>7. NewTokens(n, bucket) \in Int /\ bucket.tokens \in Int
  BY NewTokensType, CapacityAssumption DEF BucketTypeOK, BucketWord
<1>8. QED
  BY <1>3, <1>4, <1>5, <1>6, <1>7

\* Granting moves tokens from the word to the admitted ones; a refill that is
\* not stale adds what the clock has earned.
LEMMA ConservedStep == BucketTypeOK /\ TimesOK /\ Conserved /\ [BucketNext]_bucketVars => Conserved'
<1> SUFFICES ASSUME BucketTypeOK, TimesOK, Conserved, [BucketNext]_bucketVars, ~ stale'
             PROVE  bucket'.tokens + admitted' <= Capacity + Rate * refillAt'
  BY DEF Conserved
<1>a. bucket.tokens \in Int /\ admitted \in Nat /\ Rate * refillAt \in Nat /\ Capacity \in Nat
  BY CapacityAssumption, RateAssumption DEF BucketTypeOK, BucketWord
<1>1. CASE UNCHANGED <<bucket, admitted, refillAt, stale>>
  BY <1>1 DEF Conserved
<1>2. ASSUME NEW t \in Callers, NEW k \in Int, CompareExchange(t, k),
             admitted' + k <= admitted + NewTokens(readAt[t], current[t]), admitted' \in Nat
      PROVE  bucket'.tokens + admitted' <= Capacity + Rate * refillAt'
  <2>1. /\ bucket = current[t] /\ bucket'.tokens = k /\ refillAt' = readAt[t]
        /\ ~ stale /\ ~ (readAt[t] < refillAt)
    BY <1>2, Zenon DEF CompareExchange, pack_bucket
  <2>2. readAt[t] \in Nat /\ refillAt \in Nat /\ refillAt <= readAt[t] /\ Rate * readAt[t] \in Nat
    BY <2>1, RateAssumption DEF BucketTypeOK
  <2>3. NewTokens(readAt[t], bucket) <= bucket.tokens + Rate * readAt[t] - Rate * refillAt
    BY <2>2, RefillBound
  <2>4. bucket.tokens + admitted <= Capacity + Rate * refillAt
    BY <2>1 DEF Conserved
  <2>5. NewTokens(readAt[t], bucket) \in Int
    BY <2>2, NewTokensType, CapacityAssumption DEF BucketTypeOK
  <2>6. QED
    BY <1>2, <1>a, <2>1, <2>2, <2>3, <2>4, <2>5
<1>3. ASSUME NEW t \in Callers, Grant(t)
      PROVE  bucket'.tokens + admitted' <= Capacity + Rate * refillAt'
  <2>1. NewTokens(readAt[t], current[t]) \in Int /\ Cost \in Nat
    BY NewTokensType, CapacityAssumption, CostAssumption DEF BucketTypeOK
  <2>2. admitted' <= admitted + Cost /\ admitted' \in Nat
    BY <1>3, <1>a, <2>1, MaxAdmittedType DEF Grant, AtMost
  <2>3. CompareExchange(t, NewTokens(readAt[t], current[t]) - Cost)
    BY <1>3 DEF Grant
  <2>4. /\ NewTokens(readAt[t], current[t]) - Cost \in Int
        /\ admitted' + (NewTokens(readAt[t], current[t]) - Cost) <= admitted + NewTokens(readAt[t], current[t])
    BY <1>a, <2>1, <2>2
  <2>5. QED
    BY <1>2, <2>2, <2>3, <2>4
<1>4. ASSUME NEW t \in Callers, Reject(t)
      PROVE  bucket'.tokens + admitted' <= Capacity + Rate * refillAt'
  <2>1. NewTokens(readAt[t], current[t]) \in Int
    BY NewTokensType, CapacityAssumption DEF BucketTypeOK
  <2>2. CASE CompareExchange(t, NewTokens(readAt[t], current[t]))
    <3>1. admitted' = admitted
      BY <1>4 DEF Reject
    <3>2. QED
      BY <1>2, <1>a, <2>1, <2>2, <3>1
  <2>3. CASE UNCHANGED <<bucket, refillAt, stale>>
    BY <1>1, <1>4, <2>3 DEF Reject
  <2>4. QED
    BY <1>4, <2>2, <2>3 DEF Reject
<1>5. QED
  BY <1>1, <1>3, <1>4 DEF BucketNext, Millisecond, Call, Load, Retry, bucketVars

\* For any number of tasks and any interleaving: as long as no task writes
\* with a clock reading older than the word's, the granted tokens never exceed
\* the burst plus the refill of the elapsed time, even across wraps of the u32
\* clock.
THEOREM FreshBound == BucketSpec => []FreshAdmissionBound
<1>1. BucketInit => TimesOK /\ Conserved
  BY CapacityAssumption, RateAssumption, ClockModAssumption
  DEF BucketInit, TimesOK, Conserved, NewBucket, pack_bucket
<1>2. BucketTypeOK /\ TimesOK /\ Conserved => FreshAdmissionBound
  <2> SUFFICES ASSUME BucketTypeOK, TimesOK, Conserved, ~ stale
               PROVE  admitted <= Capacity + Rate * clock
    BY DEF FreshAdmissionBound, AdmissionBound
  <2>1. bucket.tokens + admitted <= Capacity + Rate * refillAt
    BY DEF Conserved
  <2>2. refillAt * Rate <= clock * Rate /\ refillAt * Rate = Rate * refillAt /\ clock * Rate = Rate * clock
    BY RefillMono, RateAssumption DEF BucketTypeOK, TimesOK
  <2>3. bucket.tokens \in Nat /\ Rate * refillAt \in Nat /\ Rate * clock \in Nat
    BY RateAssumption, CapacityAssumption DEF BucketTypeOK, BucketWord
  <2>4. QED
    BY <2>1, <2>2, <2>3, CapacityAssumption DEF BucketTypeOK
<1>3. QED
  BY <1>1, <1>2, BucketTypeCorrect, TimesStep, ConservedStep, PTL DEF BucketSpec

-----------------------------------------------------------------------------
(***************************************************************************)
(* Until the u32 clock wraps, a truncated reading is the reading itself.   *)
(* A refill with a reading older than the word's (the subtraction wraps)   *)
(* then adds too much, never too little, which is why no hypothesis on     *)
(* staleness is needed here.                                               *)
(***************************************************************************)

\* Two refills in a row, up to n and then up to the clock, span at least the
\* time since the word was written.
LEMMA SpanKept ==
  ASSUME BucketTypeOK, TimesOK, clock < ClockMod, NEW n \in Nat, n <= clock
  PROVE  /\ ElapsedMs(clock, bucket) = clock - refillAt
         /\ ElapsedMs(n, bucket) \in Nat
         /\ clock - refillAt <= ElapsedMs(n, bucket) + (clock - n)
<1>1. /\ clock \in Nat /\ refillAt \in Nat /\ refillAt <= clock
      /\ clock % ClockMod = clock /\ n % ClockMod = n /\ bucket.refill = refillAt
  <2>1. clock \in Nat /\ refillAt \in Nat /\ refillAt <= clock /\ bucket.refill = refillAt % ClockMod
    BY DEF BucketTypeOK, TimesOK
  <2>2. \A x \in Nat : x <= clock => x % ClockMod = x
    BY <2>1, ClockModAssumption
  <2>3. QED
    BY <2>1, <2>2
<1>2. ElapsedMs(clock, bucket) = clock - refillAt
  <2>1. ElapsedMs(clock, bucket) = (clock - refillAt) % ClockMod
    BY <1>1 DEF ElapsedMs
  <2>2. QED
    BY <1>1, <2>1, ClockModAssumption
<1>3. ElapsedMs(n, bucket) = (n - refillAt) % ClockMod
  BY <1>1 DEF ElapsedMs
<1>4. (n - refillAt) % ClockMod \in Nat /\ n - refillAt <= (n - refillAt) % ClockMod
  <2>1. (n - refillAt) % ClockMod \in Nat
    BY <1>1, ClockModAssumption
  <2>2. CASE n < refillAt
    BY <1>1, <2>1, <2>2
  <2>3. CASE refillAt <= n
    BY <1>1, <2>3, ClockModAssumption
  <2>4. QED
    BY <1>1, <2>2, <2>3, <2>1
<1>5. QED
  BY <1>1, <1>2, <1>3, <1>4

\* A span of time that covers another refills at least as much.
LEMMA SpansRefill ==
  \A x, y, z \in Nat : z <= x + y => /\ x * Rate \in Nat /\ y * Rate \in Nat /\ z * Rate \in Nat
                                     /\ z * Rate <= x * Rate + y * Rate
<1> TAKE x, y, z \in Nat
<1> HAVE z <= x + y
<1>1. z * Rate <= (x + y) * Rate
  BY RefillMono
<1>2. (x + y) * Rate = x * Rate + y * Rate
  BY RateAssumption
<1>3. QED
  BY <1>1, <1>2, RefillMono

\* A compare-and-swap that takes d of the refilled tokens leaves a word that,
\* refilled to the present, holds what the old one would have held less d.
LEMMA CasKeeps ==
  ASSUME BucketTypeOK, BucketTypeOK', TimesOK, clock < ClockMod, clock' = clock, NEW t \in Callers, NEW d \in Nat,
         CompareExchange(t, NewTokens(readAt[t], current[t]) - d),
         NEW goal \in Int, goal <= NewTokens(clock, bucket)
  PROVE  goal - d <= NewTokens(clock', bucket')
<1> DEFINE n == readAt[t]
           first == ElapsedMs(n, bucket) * Rate
           second == (clock - n) * Rate
           whole == (clock - refillAt) * Rate
<1>1. n \in Nat /\ n <= clock /\ clock \in Nat /\ refillAt \in Nat /\ refillAt <= clock
  BY DEF BucketTypeOK, TimesOK
<1>2. /\ ElapsedMs(clock, bucket) = clock - refillAt
      /\ ElapsedMs(n, bucket) \in Nat
      /\ clock - refillAt <= ElapsedMs(n, bucket) + (clock - n)
  BY <1>1, SpanKept
<1>3. first \in Nat /\ second \in Nat /\ whole \in Nat /\ whole <= first + second
  <2>1. clock - refillAt \in Nat /\ clock - n \in Nat
    BY <1>1
  <2>2. QED
    BY <1>2, <2>1, SpansRefill, Zenon
<1>4. bucket = current[t] /\ bucket' = [tokens |-> NewTokens(n, bucket) - d, refill |-> n % ClockMod]
  BY DEF CompareExchange, pack_bucket
<1>5. ElapsedMs(clock', bucket') = clock - n
  <2>1. clock % ClockMod = clock /\ n % ClockMod = n /\ (clock - n) % ClockMod = clock - n
    BY <1>1, ClockModAssumption
  <2>2. bucket'.refill = n
    BY <1>4, <2>1
  <2>3. ElapsedMs(clock', bucket') = ((clock % ClockMod) - n) % ClockMod
    BY <2>2 DEF ElapsedMs
  <2>4. QED
    BY <2>1, <2>3
<1>6. NewTokens(clock', bucket') = AtMost((NewTokens(n, bucket) - d) + second, Capacity)
  <2>1. bucket'.tokens = NewTokens(n, bucket) - d
    BY <1>4
  <2>2. QED
    BY <1>5, <2>1 DEF NewTokens
<1>7. NewTokens(n, bucket) = AtMost(bucket.tokens + first, Capacity)
  BY DEF NewTokens
<1>8. NewTokens(clock, bucket) = AtMost(bucket.tokens + whole, Capacity)
  BY <1>2 DEF NewTokens
<1>9. bucket.tokens \in Int /\ Capacity \in Nat
  BY CapacityAssumption DEF BucketTypeOK, BucketWord
<1> HIDE DEF n, first, second, whole
<1>10. QED
  BY <1>3, <1>6, <1>7, <1>8, <1>9 DEF AtMost

\* Every step keeps the bucket at least as full as the ideal one.
LEMMA UnderfillStep ==
  BucketTypeOK /\ BucketTypeOK' /\ TimesOK /\ NeverUnderfilled /\ [BucketNext]_bucketVars => NeverUnderfilled'
<1> SUFFICES ASSUME BucketTypeOK, BucketTypeOK', TimesOK, NeverUnderfilled, [BucketNext]_bucketVars, clock' < ClockMod
             PROVE  ideal' <= NewTokens(clock', bucket')
  BY DEF NeverUnderfilled
<1>a. NewTokens(clock', bucket') \in 0 .. Capacity /\ NewTokens(clock, bucket) \in 0 .. Capacity
  <2>1. clock' \in Nat /\ bucket' \in BucketWord /\ clock \in Nat /\ bucket \in BucketWord
    BY DEF BucketTypeOK
  <2>2. QED
    BY <2>1, NewTokensType
<1>b. /\ ideal \in 0 .. Capacity /\ clock \in Nat /\ clock' \in Nat /\ refillAt \in Nat
      /\ refillAt <= clock /\ bucket.tokens \in Int /\ Cost \in Nat /\ Capacity \in Nat
  BY CapacityAssumption, CostAssumption DEF BucketTypeOK, TimesOK, BucketWord
<1>1. CASE Millisecond
  <2>1. /\ clock' = clock + 1 /\ bucket' = bucket /\ refillAt' = refillAt
        /\ ideal' = AtMost(ideal + Rate, Capacity) /\ clock < ClockMod
    BY <1>1, <1>b, ClockModAssumption DEF Millisecond
  <2>2. TimesOK'
    BY <1>1, TimesStep DEF BucketNext
  <2>3. ideal <= NewTokens(clock, bucket)
    BY <2>1 DEF NeverUnderfilled
  <2>4. ElapsedMs(clock, bucket) = clock - refillAt
    BY <1>b, <2>1, SpanKept
  <2>5. ElapsedMs(clock', bucket') = (clock - refillAt) + 1
    <3>1. refillAt % ClockMod = refillAt /\ clock' % ClockMod = clock'
      BY <1>b, <2>1, ClockModAssumption
    <3>2. bucket'.refill = refillAt
      BY <2>1, <3>1 DEF TimesOK
    <3>3. ElapsedMs(clock', bucket') = (clock' - refillAt) % ClockMod
      BY <3>1, <3>2 DEF ElapsedMs
    <3>4. QED
      BY <1>b, <2>1, <3>3, ClockModAssumption
  <2>6. ((clock - refillAt) + 1) * Rate = (clock - refillAt) * Rate + Rate /\ (clock - refillAt) * Rate \in Nat
    BY <1>b, RateAssumption
  <2>7. NewTokens(clock', bucket') = AtMost(bucket.tokens + ((clock - refillAt) * Rate + Rate), Capacity)
    BY <2>1, <2>5, <2>6 DEF NewTokens
  <2>8. NewTokens(clock, bucket) = AtMost(bucket.tokens + (clock - refillAt) * Rate, Capacity)
    BY <2>4 DEF NewTokens
  <2>9. QED
    BY <1>b, <2>1, <2>3, <2>6, <2>7, <2>8, RateAssumption DEF AtMost
<1>2. CASE UNCHANGED <<bucket, clock, ideal>>
  BY <1>2 DEF NeverUnderfilled
<1>3. ASSUME NEW t \in Callers, Grant(t) PROVE ideal' <= NewTokens(clock', bucket')
  <2>1. clock' = clock /\ clock < ClockMod /\ ideal' = (IF ideal < Cost THEN 0 ELSE ideal - Cost)
    BY <1>3 DEF Grant, Return
  <2>2. ideal <= NewTokens(clock, bucket)
    BY <2>1 DEF NeverUnderfilled
  <2>3. CompareExchange(t, NewTokens(readAt[t], current[t]) - Cost)
    BY <1>3, Zenon DEF Grant
  <2>4. ideal - Cost <= NewTokens(clock', bucket')
    BY <1>b, <2>1, <2>2, <2>3, CasKeeps
  <2>5. QED
    BY <1>a, <1>b, <2>1, <2>4
<1>4. ASSUME NEW t \in Callers, Reject(t) PROVE ideal' <= NewTokens(clock', bucket')
  <2>1. clock' = clock /\ clock < ClockMod /\ ideal' = ideal
    BY <1>4 DEF Reject, Return
  <2>2. CASE UNCHANGED <<bucket, refillAt, stale>>
    BY <1>2, <2>1, <2>2
  <2>3. CASE CompareExchange(t, NewTokens(readAt[t], current[t]))
    <3>1. NewTokens(readAt[t], current[t]) - 0 = NewTokens(readAt[t], current[t])
      BY NewTokensType, CapacityAssumption DEF BucketTypeOK
    <3>2. CompareExchange(t, NewTokens(readAt[t], current[t]) - 0)
      BY <2>3, <3>1
    <3>3. ideal <= NewTokens(clock, bucket)
      BY <2>1 DEF NeverUnderfilled
    <3>4. ideal - 0 <= NewTokens(clock', bucket')
      BY <1>b, <2>1, <3>2, <3>3, CasKeeps
    <3>5. QED
      BY <1>b, <2>1, <3>4
  <2>4. QED
    BY <1>4, <2>2, <2>3 DEF Reject
<1>5. QED
  BY <1>1, <1>2, <1>3, <1>4 DEF BucketNext, Call, Load, Retry, bucketVars

\* For any number of tasks, burst, rate and cost: refilling only when a call
\* reads the word, and storing the refill of a refused call with one attempt
\* that may be lost, never leaves the bucket below one that is refilled on
\* every tick, until the u32 clock wraps.
THEOREM LazyRefillLosesNothing == BucketSpec => []NeverUnderfilled
<1>1. BucketInit => TimesOK /\ NeverUnderfilled
  <2> SUFFICES ASSUME BucketInit PROVE TimesOK /\ NeverUnderfilled
    OBVIOUS
  <2>1. TimesOK
    BY ClockModAssumption DEF BucketInit, TimesOK, NewBucket, pack_bucket
  <2>2. ElapsedMs(clock, bucket) = 0
    BY ClockModAssumption DEF BucketInit, ElapsedMs, NewBucket, pack_bucket
  <2>3. ideal = Capacity /\ bucket.tokens = Capacity
    BY DEF BucketInit, NewBucket, pack_bucket
  <2>4. NewTokens(clock, bucket) = Capacity
    BY <2>2, <2>3, CapacityAssumption, RateAssumption DEF NewTokens, AtMost
  <2>5. QED
    BY <2>1, <2>3, <2>4, CapacityAssumption DEF NeverUnderfilled
<1>2. QED
  BY <1>1, BucketTypeCorrect, TimesStep, UnderfillStep, PTL DEF BucketSpec

-----------------------------------------------------------------------------
\* The mask of pack_state keeps a counter in 16 bits.
LEMMA MaskRange == \A n \in Nat : n % CounterMod \in Counter
BY CounterModAssumption, HalfOpenMaxAssumption DEF Counter

\* The mask of pack_state leaves a counter that fits alone.
LEMMA MaskId == \A n \in Counter : n % CounterMod = n
BY CounterModAssumption, HalfOpenMaxAssumption DEF Counter

\* Counters that fit are packed as they are.
LEMMA PackType ==
  ASSUME NEW s \in States, NEW f \in Nat, NEW su \in Nat, NEW r \in Nat
  PROVE  pack_state(s, f, su, r) \in Word
BY MaskRange DEF pack_state, Word

\* Zero, and the first probe, fit.
LEMMA SmallCounters == 0 \in Counter /\ 1 \in Counter
BY CounterModAssumption, HalfOpenMaxAssumption DEF Counter

\* The words the operations write are well formed.
LEMMA WordTypes ==
  /\ ClosedWord \in Word
  /\ ProbeWord \in Word
  /\ \A w \in Word : AdmitWord(w) \in Word /\ SuccessWord(w) \in Word /\ FailureWord(w) \in Word
<1>1. ClosedWord \in Word /\ ProbeWord \in Word
  BY PackType DEF ClosedWord, ProbeWord, States
<1>2. ASSUME NEW w \in Word
      PROVE  AdmitWord(w) \in Word /\ SuccessWord(w) \in Word /\ FailureWord(w) \in Word
  <2>1. /\ w.failures \in Nat /\ w.successes \in Nat /\ w.reqs \in Nat
        /\ w.failures + 1 \in Nat /\ w.successes + 1 \in Nat /\ w.reqs + 1 \in Nat
    BY CounterModAssumption DEF Word, Counter
  <2>2. AdmitWord(w) \in Word
    BY <2>1, PackType DEF AdmitWord, States
  <2>3. SuccessWord(w) \in Word
    BY <2>1, <1>1, PackType DEF SuccessWord, States
  <2>4. FailureWord(w) \in Word
    BY <2>1, PackType DEF FailureWord, States
  <2>5. QED
    BY <2>2, <2>3, <2>4
<1>3. QED
  BY <1>1, <1>2

\* Every load, compare-and-swap and store of the three operations keeps the
\* types.
LEMMA TypeStep == TypeOK /\ [Next]_vars => TypeOK'
<1> SUFFICES ASSUME TypeOK, [Next]_vars PROVE TypeOK'
  OBVIOUS
<1> USE DEF TypeOK
<1>a. ClosedWord \in Word /\ NeverFailed \in Stamp /\ 0 \in Stamp
  BY WordTypes, TimeoutAssumption DEF Stamp, NeverFailed
<1>1. CASE Tick
  <2>1. \A a \in Stamp : Age(a) \in Stamp
    BY TimeoutAssumption DEF Age, Stamp, NeverFailed
  <2>2. QED
    BY <1>1, <2>1 DEF Tick
<1>2. ASSUME NEW t \in Threads, Begin(t) PROVE TypeOK'
  BY <1>2 DEF Begin, Goto, PC
<1>3. ASSUME NEW t \in Threads, Local(t) PROVE TypeOK'
  <2>1. CASE AllowLoad(t)
    BY <2>1, <1>a DEF AllowLoad, Goto, Finish, PC
  <2>2. CASE LoadStamp(t)
    BY <2>2, <1>a DEF LoadStamp, Goto, Finish, PC
  <2>3. CASE ResetRefused(t)
    BY <2>3, <1>a DEF ResetRefused, Goto, Finish, PC
  <2>4. CASE SuccessLoad(t)
    BY <2>4, <1>a DEF SuccessLoad, Goto, Finish, PC
  <2>5. CASE ClearStamp(t)
    BY <2>5, <1>a DEF ClearStamp, Goto, Finish, PC
  <2>6. CASE FailureStore(t)
    BY <2>6, <1>a DEF FailureStore, Goto, Finish, PC
  <2>7. CASE FailureLoad(t)
    BY <2>7, <1>a DEF FailureLoad, Goto, Finish, PC
  <2>8. QED
    BY <1>3, <2>1, <2>2, <2>3, <2>4, <2>5, <2>6, <2>7, Zenon DEF Local
<1>4. ASSUME NEW t \in Threads, CasOk(t) PROVE TypeOK'
  <2>1. CASE ResetCas(t)
    BY <2>1, <1>a, WordTypes DEF ResetCas, Cas, Goto, Finish, PC
  <2>2. CASE AdmitCas(t)
    BY <2>2, <1>a, WordTypes DEF AdmitCas, Cas, Goto, Finish, PC
  <2>3. CASE SuccessCas(t)
    BY <2>3, <1>a, WordTypes, ThresholdAssumption DEF SuccessCas, Cas, Goto, Finish, PC
  <2>4. CASE FailureCas(t)
    BY <2>4, <1>a, WordTypes, ThresholdAssumption DEF FailureCas, Cas, Goto, Finish, PC
  <2>5. QED
    BY <1>4, <2>1, <2>2, <2>3, <2>4 DEF CasOk
<1>5. ASSUME NEW t \in Threads, CasFails(t) PROVE TypeOK'
  BY <1>5, <1>a DEF CasFails, Goto, Finish, PC
<1>6. ASSUME NEW t \in Threads, End(t) PROVE TypeOK'
  BY <1>6, <1>a DEF End, EndSuccess, EndFailure, Abandon, Goto, PC
<1>7. CASE UNCHANGED vars
  BY <1>7 DEF vars
<1>8. QED
  BY <1>1, <1>2, <1>3, <1>4, <1>5, <1>6, <1>7 DEF Next

\* The type invariant, for any set of tasks: the packed word never leaves the
\* range of its bit fields.
THEOREM TypeCorrect == Spec => []TypeOK
<1>1. Init => TypeOK
  BY WordTypes, TimeoutAssumption, ThresholdAssumption
  DEF Init, TypeOK, Stamp, NeverFailed, PC
<1>2. QED
  BY <1>1, TypeStep, PTL DEF Spec

-----------------------------------------------------------------------------
(***************************************************************************)
(* What a task knows of the word it loaded, at the compare-and-swap that   *)
(* will use it.                                                            *)
(***************************************************************************)
LoadedOK ==
  \A t \in Threads :
    /\ pc[t] \in {"stamp", "reset"} => cur[t].state = OPEN
    /\ pc[t] = "admit" => cur[t].state = HALFOPEN /\ cur[t].reqs < HalfOpenMax
    /\ pc[t] \in {"successCas", "failureCas"} => cur[t].state # OPEN

\* The states have different names.
LEMMA StatesDiffer == CLOSED # OPEN /\ CLOSED # HALFOPEN /\ OPEN # HALFOPEN
BY SMTT(30) DEF CLOSED, OPEN, HALFOPEN

\* Where a task needs nothing of its loaded word.
Resting == {"idle", "allow", "inflight", "success", "clear", "store", "failure"}

\* A step of one task that leaves it with a word fit for its place.
LEMMA OneLoaded ==
  ASSUME TypeOK, LoadedOK, NEW t \in Threads, NEW l, NEW w,
         pc' = [pc EXCEPT ![t] = l], cur' = [cur EXCEPT ![t] = w],
         l \in {"stamp", "reset"} => w.state = OPEN,
         l = "admit" => w.state = HALFOPEN /\ w.reqs < HalfOpenMax,
         l \in {"successCas", "failureCas"} => w.state # OPEN
  PROVE  LoadedOK'
<1>1. DOMAIN pc = Threads /\ DOMAIN cur = Threads
  BY Zenon DEF TypeOK
<1>2. pc'[t] = l /\ cur'[t] = w /\ \A u \in Threads \ {t} : pc'[u] = pc[u] /\ cur'[u] = cur[u]
  BY <1>1, Zenon
<1> SUFFICES ASSUME NEW u \in Threads
             PROVE  /\ pc'[u] \in {"stamp", "reset"} => cur'[u].state = OPEN
                    /\ pc'[u] = "admit" => cur'[u].state = HALFOPEN /\ cur'[u].reqs < HalfOpenMax
                    /\ pc'[u] \in {"successCas", "failureCas"} => cur'[u].state # OPEN
  BY Zenon DEF LoadedOK, OPEN, HALFOPEN
<1>3. CASE u = t
  BY <1>2, <1>3, Zenon
<1>4. CASE u # t
  BY <1>2, <1>4, Zenon DEF LoadedOK
<1> QED
  BY <1>3, <1>4

\* A step that leaves the task where it needs no word.
LEMMA TaskRests ==
  ASSUME TypeOK, LoadedOK, NEW t \in Threads, NEW l \in Resting, Goto(t, l),
         cur' = cur \/ \E w : cur' = [cur EXCEPT ![t] = w]
  PROVE  LoadedOK'
<1>1. PICK w : cur' = [cur EXCEPT ![t] = w]
  <2>1. cur = [cur EXCEPT ![t] = cur[t]]
    BY Zenon DEF TypeOK
  <2> QED
    BY <2>1, Zenon
<1>2. l \notin {"stamp", "reset"} /\ l # "admit" /\ l \notin {"successCas", "failureCas"}
  BY Zenon DEF Resting
<1>3. pc' = [pc EXCEPT ![t] = l]
  BY Zenon DEF Goto
<1> QED
  BY <1>1, <1>2, <1>3, OneLoaded, Zenon

\* So does a step that ends in Finish.
LEMMA FinishRests ==
  ASSUME TypeOK, LoadedOK, NEW t \in Threads, NEW l \in Resting
  PROVE  Finish(t, l) => LoadedOK'
BY TaskRests, Zenon DEF Finish

\* The loads of allow_request keep an open word, or a half-open one with a slot.
LEMMA AllowLoaded ==
  ASSUME TypeOK, LoadedOK, NEW t \in Threads
  PROVE  AllowLoad(t) => LoadedOK'
<1>1. ASSUME Finish(t, "inflight") \/ Finish(t, "idle") PROVE LoadedOK'
  <2>1. "inflight" \in Resting /\ "idle" \in Resting
    BY Zenon DEF Resting
  <2> QED
    BY <1>1, <2>1, FinishRests, Zenon
<1>2. ASSUME packed.state = OPEN, Goto(t, "stamp"), cur' = [cur EXCEPT ![t] = packed] PROVE LoadedOK'
  <2>1. "stamp" # "admit" /\ "stamp" \notin {"successCas", "failureCas"} /\ pc' = [pc EXCEPT ![t] = "stamp"]
    BY <1>2, Zenon DEF Goto
  <2> QED
    BY <1>2, <2>1, OneLoaded, Zenon
<1>3. ASSUME packed.state = HALFOPEN, packed.reqs < HalfOpenMax, Goto(t, "admit"), cur' = [cur EXCEPT ![t] = packed]
      PROVE  LoadedOK'
  <2>1. /\ "admit" \notin {"stamp", "reset"} /\ "admit" \notin {"successCas", "failureCas"}
        /\ pc' = [pc EXCEPT ![t] = "admit"]
    BY <1>3, Zenon DEF Goto
  <2> QED
    BY <1>3, <2>1, OneLoaded, Zenon
<1> QED
  BY <1>1, <1>2, <1>3, Zenon DEF AllowLoad

\* The loads of record_success and record_failure keep a word that is not open.
LEMMA OutcomeLoaded ==
  ASSUME TypeOK, LoadedOK, NEW t \in Threads
  PROVE  SuccessLoad(t) \/ FailureLoad(t) => LoadedOK'
<1>1. ASSUME Finish(t, "idle") PROVE LoadedOK'
  <2>1. "idle" \in Resting
    BY Zenon DEF Resting
  <2> QED
    BY <1>1, <2>1, FinishRests, Zenon
<1>2. ASSUME packed.state # OPEN, NEW l \in {"successCas", "failureCas"}, Goto(t, l), cur' = [cur EXCEPT ![t] = packed]
      PROVE  LoadedOK'
  <2>1. l \notin {"stamp", "reset"} /\ l # "admit" /\ pc' = [pc EXCEPT ![t] = l]
    BY <1>2, Zenon DEF Goto
  <2> QED
    BY <1>2, <2>1, OneLoaded, Zenon
<1> QED
  BY <1>1, <1>2, Zenon DEF SuccessLoad, FailureLoad

\* should_attempt_reset goes on with the open word that was loaded.
LEMMA StampLoaded ==
  ASSUME TypeOK, LoadedOK, NEW t \in Threads
  PROVE  LoadStamp(t) => LoadedOK'
<1>1. ASSUME Finish(t, "idle") PROVE LoadedOK'
  <2>1. "idle" \in Resting
    BY Zenon DEF Resting
  <2> QED
    BY <1>1, <2>1, FinishRests, Zenon
<1>2. ASSUME pc[t] = "stamp", Goto(t, "reset"), UNCHANGED cur PROVE LoadedOK'
  <2>1. "reset" # "admit" /\ "reset" \notin {"successCas", "failureCas"} /\ pc' = [pc EXCEPT ![t] = "reset"]
    BY <1>2, Zenon DEF Goto
  <2>2. cur' = [cur EXCEPT ![t] = cur[t]]
    BY <1>2, Zenon DEF TypeOK
  <2>3. cur[t].state = OPEN
    BY <1>2, Zenon DEF LoadedOK
  <2> QED
    BY <2>1, <2>2, <2>3, OneLoaded, Zenon
<1> QED
  BY <1>1, <1>2, Zenon DEF LoadStamp

\* A task that reaches a compare-and-swap holds a word its loop has checked.
LEMMA LoadedStep == TypeOK /\ LoadedOK /\ [Next]_vars => LoadedOK'
<1> SUFFICES ASSUME TypeOK, LoadedOK PROVE [Next]_vars => LoadedOK'
  BY Zenon
<1>1. ASSUME UNCHANGED <<pc, cur>> PROVE LoadedOK'
  BY <1>1, Zenon DEF LoadedOK, OPEN, HALFOPEN
<1>2. ASSUME NEW t \in Threads, NEW l \in Resting, Goto(t, l), UNCHANGED cur PROVE LoadedOK'
  BY <1>2, TaskRests, Zenon
<1>3. ASSUME NEW t \in Threads, Begin(t) \/ End(t) PROVE LoadedOK'
  BY <1>2, <1>3, Zenon DEF Begin, End, EndSuccess, EndFailure, Abandon, Resting
<1>4. ASSUME NEW t \in Threads, Local(t) PROVE LoadedOK'
  <2>1. CASE AllowLoad(t) \/ LoadStamp(t) \/ SuccessLoad(t) \/ FailureLoad(t)
    BY <2>1, AllowLoaded, StampLoaded, OutcomeLoaded, Zenon
  <2>2. CASE ResetRefused(t) \/ ClearStamp(t) \/ FailureStore(t)
    BY <2>2, FinishRests, Zenon DEF ResetRefused, ClearStamp, FailureStore, Resting
  <2> QED
    BY <1>4, <2>1, <2>2, Zenon DEF Local
<1>5. ASSUME NEW t \in Threads, CasOk(t) \/ CasFails(t) PROVE LoadedOK'
  <2>1. PICK l \in Resting : Finish(t, l)
    BY <1>5, Zenon DEF CasOk, ResetCas, AdmitCas, SuccessCas, FailureCas, CasFails, Resting
  <2> QED
    BY <2>1, FinishRests, Zenon
<1>6. Tick \/ UNCHANGED vars => LoadedOK'
  BY <1>1, Zenon DEF Tick, vars
<1> QED
  BY <1>3, <1>4, <1>5, <1>6, Zenon DEF Next

\* The local facts hold in every reachable state.
LEMMA LoadedCorrect == Spec => [](TypeOK /\ LoadedOK)
<1>1. Init => LoadedOK
  BY SMTT(30) DEF Init, LoadedOK
<1>2. QED
  BY <1>1, LoadedStep, TypeCorrect, PTL DEF Spec

\* Only a successful compare-and-swap changes the word or the histories.
LEMMA OnlyCas ==
  [Next]_vars => \/ \E t \in Threads : CasOk(t)
                 \/ UNCHANGED <<packed, probes, streak>>
BY Zenon DEF Next, vars, Tick, Begin, Local, AllowLoad, LoadStamp, ResetRefused, SuccessLoad,
       ClearStamp, FailureStore, FailureLoad, CasFails, End, EndSuccess, EndFailure, Abandon

\* The instance Machine packs words as this module does.
LEMMA SameWords ==
  /\ Machine!OPEN = OPEN /\ Machine!HALFOPEN = HALFOPEN
  /\ Machine!ClosedWord = ClosedWord
  /\ Machine!ProbeWord = ProbeWord
  /\ \A w : /\ Machine!AdmitWord(w) = AdmitWord(w)
            /\ Machine!SuccessWord(w) = SuccessWord(w)
            /\ Machine!FailureWord(w) = FailureWord(w)
BY Zenon DEF OPEN, HALFOPEN, CLOSED, ClosedWord, ProbeWord, AdmitWord, SuccessWord, FailureWord,
       pack_state, Machine!OPEN, Machine!HALFOPEN, Machine!CLOSED, Machine!ClosedWord,
       Machine!ProbeWord, Machine!AdmitWord, Machine!SuccessWord, Machine!FailureWord,
       Machine!pack_state

\* Refinement: for any number of tasks, the loops of loads and weak
\* compare-and-swaps implement atomic transitions of the circuit.
THEOREM Atomicity == Spec => AtomicTransitions
<1>1. Init => Machine!Init
  BY SameWords DEF Init, Machine!Init
<1>2. TypeOK /\ LoadedOK /\ [Next]_vars => [Machine!Next]_packed
  <2> SUFFICES ASSUME TypeOK, LoadedOK, [Next]_vars PROVE [Machine!Next]_packed
    OBVIOUS
  <2>1. ASSUME NEW t \in Threads, CasOk(t) PROVE Machine!Next
    <3>1. CASE ResetCas(t)
      BY <3>1, SameWords, Zenon DEF ResetCas, Cas, LoadedOK, Machine!Next, Machine!StartProbing
    <3>2. CASE AdmitCas(t)
      BY <3>2, SameWords, Zenon DEF AdmitCas, Cas, LoadedOK, Machine!Next, Machine!AdmitProbe
    <3>3. CASE SuccessCas(t)
      BY <3>3, SameWords, Zenon DEF SuccessCas, Cas, LoadedOK, Machine!Next, Machine!RecordSuccess
    <3>4. CASE FailureCas(t)
      BY <3>4, SameWords, Zenon DEF FailureCas, Cas, LoadedOK, Machine!Next, Machine!RecordFailure
    <3>5. QED
      BY <2>1, <3>1, <3>2, <3>3, <3>4 DEF CasOk
  <2>2. QED
    BY <2>1, OnlyCas
<1>3. QED
  BY <1>1, <1>2, LoadedCorrect, PTL DEF Spec, AtomicTransitions, Machine!Spec

-----------------------------------------------------------------------------
(***************************************************************************)
(* The packed counters are exact: in a Half-Open word reqs is the number   *)
(* of probes let through, in a Closed word failures is the length of the   *)
(* failure streak.  The second needs failure_threshold to fit in the 16    *)
(* bits of its counter.                                                    *)
(***************************************************************************)
ProbesExact ==
  packed.state = HALFOPEN => packed.reqs = probes /\ probes <= HalfOpenMax

StreakExact ==
  packed.state = CLOSED => packed.failures = streak /\ streak < Threshold

\* Every admission is counted, and only while slots are left.
LEMMA ProbesStep == TypeOK /\ LoadedOK /\ ProbesExact /\ [Next]_vars => ProbesExact'
<1> SUFFICES ASSUME TypeOK, LoadedOK, ProbesExact, [Next]_vars PROVE ProbesExact'
  OBVIOUS
<1> USE DEF ProbesExact
<1>1. ASSUME NEW t \in Threads, CasOk(t) PROVE ProbesExact'
  <2>1. CASE ResetCas(t)
    <3>1. ProbeWord.reqs = 1
      BY SmallCounters, MaskId DEF ProbeWord, pack_state
    <3>2. packed' = ProbeWord /\ probes' = 1
      BY <2>1 DEF ResetCas, Cas
    <3>3. QED
      BY <3>1, <3>2, HalfOpenMaxAssumption
  <2>2. CASE AdmitCas(t)
    <3>1. /\ packed = cur[t] /\ packed' = AdmitWord(packed) /\ probes' = probes + 1
          /\ packed.state = HALFOPEN /\ packed.reqs < HalfOpenMax
      BY <2>2, Zenon DEF AdmitCas, Cas, LoadedOK
    <3>2. packed.reqs \in Nat /\ packed.reqs + 1 \in Counter
      BY <3>1, CounterModAssumption, HalfOpenMaxAssumption DEF TypeOK, Word, Counter
    <3>3. packed'.reqs = packed.reqs + 1
      BY <3>1, <3>2, MaskId, Zenon DEF AdmitWord, pack_state
    <3>4. QED
      BY <3>1, <3>2, <3>3, HalfOpenMaxAssumption
  <2>3. CASE SuccessCas(t)
    <3>1. packed = cur[t] /\ packed' = SuccessWord(packed) /\ probes' = probes
      BY <2>3, Zenon DEF SuccessCas, Cas
    <3>2. packed.reqs \in Counter
      BY SMTT(30) DEF TypeOK, Word
    <3>3. packed'.state = HALFOPEN => packed.state = HALFOPEN /\ packed'.reqs = packed.reqs
      BY <3>1, <3>2, MaskId, StatesDiffer, Zenon DEF SuccessWord, ClosedWord, pack_state
    <3>4. QED
      BY <3>1, <3>3
  <2>4. CASE FailureCas(t)
    BY <2>4, StatesDiffer, Zenon DEF FailureCas, Cas, FailureWord, pack_state
  <2>5. QED
    BY <1>1, <2>1, <2>2, <2>3, <2>4, Zenon DEF CasOk
<1>2. QED
  BY <1>1, OnlyCas

\* For any number of tasks racing in allow_request, a Half-Open circuit lets
\* no more than half_open_max_requests probes through.
THEOREM ProbesBounded == Spec => []ProbeLimit
<1>1. Init => ProbesExact
  BY StatesDiffer DEF Init, ProbesExact, ClosedWord, pack_state
<1>2. ProbesExact => ProbeLimit
  BY DEF ProbesExact, ProbeLimit
<1>3. QED
  BY <1>1, <1>2, ProbesStep, LoadedCorrect, PTL DEF Spec

\* A failure that leaves a circuit closed was counted in a closed one.
LEMMA FailureCounts ==
  ASSUME NEW w \in Word, w.state # OPEN, FailureWord(w).state = CLOSED
  PROVE  w.state = CLOSED /\ w.failures + 1 < Threshold
<1>1. w.state \in {CLOSED, HALFOPEN} /\ w.failures \in Nat
  BY CounterModAssumption DEF Word, States, Counter
<1>2. w.state = CLOSED /\ ~ (w.failures + 1 >= Threshold)
  BY <1>1, StatesDiffer, Zenon DEF FailureWord, pack_state
<1> QED
  BY <1>1, <1>2, ThresholdAssumption

\* No recorded failure is lost to a race, and a success ends the streak.
LEMMA StreakStep ==
  ASSUME Threshold <= CounterMod
  PROVE  TypeOK /\ LoadedOK /\ StreakExact /\ [Next]_vars => StreakExact'
<1> SUFFICES ASSUME TypeOK, LoadedOK, StreakExact, [Next]_vars PROVE StreakExact'
  OBVIOUS
<1> USE DEF StreakExact
<1>1. ASSUME NEW t \in Threads, CasOk(t) PROVE StreakExact'
  <2>1. CASE ResetCas(t)
    BY <2>1, StatesDiffer, Zenon DEF ResetCas, Cas, ProbeWord, pack_state
  <2>2. CASE AdmitCas(t)
    BY <2>2, StatesDiffer, Zenon DEF AdmitCas, Cas, AdmitWord, pack_state
  <2>3. CASE SuccessCas(t)
    <3>1. packed' = SuccessWord(cur[t]) /\ streak' = 0
      BY <2>3 DEF SuccessCas, Cas
    <3>2. packed'.state = CLOSED => packed'.failures = 0
      BY <3>1, SmallCounters, MaskId, StatesDiffer, Zenon DEF SuccessWord, ClosedWord, pack_state
    <3>3. QED
      BY <3>1, <3>2, ThresholdAssumption
  <2>4. CASE FailureCas(t)
    <3>1. /\ packed = cur[t] /\ packed' = FailureWord(packed) /\ packed.state # OPEN
          /\ streak' = IF streak < Threshold THEN streak + 1 ELSE streak
      BY <2>4, Zenon DEF FailureCas, Cas, LoadedOK
    <3>2. packed \in Word /\ packed.failures \in Nat /\ streak \in Nat
      BY CounterModAssumption DEF TypeOK, Word, Counter
    <3>3. SUFFICES ASSUME packed'.state = CLOSED
                   PROVE  packed'.failures = streak' /\ streak' < Threshold
      OBVIOUS
    <3>4. packed.state = CLOSED /\ packed.failures + 1 < Threshold
      BY <3>1, <3>2, <3>3, FailureCounts, Zenon
    <3>5. packed.failures + 1 \in Counter
      BY <3>2, <3>4, CounterModAssumption, HalfOpenMaxAssumption, ThresholdAssumption DEF Counter
    <3>6. packed'.failures = packed.failures + 1
      BY <3>1, <3>4, <3>5, MaskId, StatesDiffer, Zenon DEF FailureWord, pack_state
    <3>7. QED
      BY <3>1, <3>2, <3>4, <3>6, ThresholdAssumption, SMTT(30)
  <2>5. QED
    BY <1>1, <2>1, <2>2, <2>3, <2>4, ZenonT(30) DEF CasOk
<1>2. QED
  BY <1>1, OnlyCas

\* The streak counter of a Closed circuit is exact in every reachable state.
LEMMA StreakCorrect ==
  ASSUME Threshold <= CounterMod
  PROVE  Spec => []StreakExact
<1>1. Init => StreakExact
  BY SmallCounters, MaskId, ThresholdAssumption DEF Init, StreakExact, ClosedWord, pack_state
<1>2. QED
  BY <1>1, StreakStep, LoadedCorrect, PTL DEF Spec

\* When the threshold fits in 16 bits, a Closed circuit has seen fewer than
\* failure_threshold failures in a row, whatever the interleaving of
\* record_failure and record_success.
THEOREM Trips ==
  ASSUME Threshold <= CounterMod
  PROVE  Spec => []TripsAtThreshold
<1>1. StreakExact => TripsAtThreshold
  BY DEF StreakExact, TripsAtThreshold
<1>2. QED
  BY <1>1, StreakCorrect, PTL

\* When the threshold fits in 16 bits, a Closed circuit opens only on its
\* failure_threshold-th failure in a row.
THEOREM OpensOnlyOnStreak ==
  ASSUME Threshold <= CounterMod
  PROVE  Spec => OpensOnStreak
<1>1. TypeOK /\ LoadedOK /\ StreakExact /\ [Next]_vars
        => [packed.state = CLOSED /\ packed'.state = OPEN => streak' = Threshold]_vars
  <2> SUFFICES ASSUME TypeOK, LoadedOK, StreakExact, [Next]_vars,
                      packed.state = CLOSED, packed'.state = OPEN
               PROVE  streak' = Threshold
    OBVIOUS
  <2>1. PICK t \in Threads : CasOk(t)
    BY OnlyCas, StatesDiffer
  <2>2. CASE ResetCas(t)
    BY <2>2, StatesDiffer, Zenon DEF ResetCas, Cas, ProbeWord, pack_state
  <2>3. CASE AdmitCas(t)
    BY <2>3, StatesDiffer, Zenon DEF AdmitCas, Cas, AdmitWord, pack_state
  <2>4. CASE SuccessCas(t)
    BY <2>4, StatesDiffer, Zenon DEF SuccessCas, Cas, SuccessWord, ClosedWord, pack_state
  <2>5. CASE FailureCas(t)
    <3>1. /\ packed' = FailureWord(packed)
          /\ streak' = IF streak < Threshold THEN streak + 1 ELSE streak
      BY <2>5 DEF FailureCas, Cas
    <3>2. packed.failures = streak /\ streak < Threshold /\ streak \in Nat
      BY DEF StreakExact, TypeOK
    <3>3. packed.failures + 1 >= Threshold
      BY <3>1, StatesDiffer DEF FailureWord, pack_state
    <3>4. QED
      BY <3>1, <3>2, <3>3, ThresholdAssumption
  <2>6. QED
    BY <2>1, <2>2, <2>3, <2>4, <2>5 DEF CasOk
<1>2. QED
  BY <1>1, StreakCorrect, LoadedCorrect, PTL DEF Spec, OpensOnStreak

-----------------------------------------------------------------------------
\* Who waits for the lock has not begun, and as long as the map has no entry the
\* breaker is as new and nobody uses it.
ManagerOK ==
  /\ write_lock \subseteq missed
  /\ missed \subseteq Threads
  /\ \A t \in missed : pc[t] = "idle"
  /\ ~ breakers => /\ packed = ClosedWord /\ lastFailure = NeverFailed
                   /\ \A t \in Threads : pc[t] = "idle"

\* A step of the manager is a step of the breaker or leaves it alone.
LEMMA ManagerStep == ManagerOK /\ TypeOK /\ [MNext]_mvars => [Next]_vars
<1> SUFFICES ASSUME ManagerOK, TypeOK, [MNext]_mvars PROVE [Next]_vars
  OBVIOUS
<1>1. ASSUME NEW t \in Threads, Arrive(t) PROVE [Next]_vars
  <2>1. CASE Miss(t) \/ Lock(t)
    BY <2>1 DEF Miss, Lock
  <2>2. CASE get_breaker(t)
    <3>1. pc[t] = "idle" /\ UNCHANGED <<packed, lastFailure>>
      BY <2>2 DEF get_breaker, ManagerOK
    <3>2. Begin(t)
      BY <2>2, <3>1 DEF get_breaker, Begin
    <3>3. QED
      BY <3>2 DEF Next
  <2>3. CASE allow_request(t)
    BY <2>3 DEF allow_request, Next
  <2>4. QED
    BY <1>1, <2>1, <2>2, <2>3 DEF Arrive
<1>2. ASSUME NEW t \in Threads, Leave(t) PROVE [Next]_vars
  BY <1>2 DEF Leave, record_success, record_failure, Kept, End, Next
<1>3. ASSUME NEW t \in Threads, Kept(Local(t)) \/ Kept(CasOk(t)) \/ Kept(CasFails(t)) PROVE [Next]_vars
  BY <1>3 DEF Kept, Next
<1>4. CASE Kept(Tick)
  BY <1>4 DEF Kept, Next
<1>5. CASE UNCHANGED mvars
  BY <1>5 DEF mvars
<1>6. QED
  BY <1>1, <1>2, <1>3, <1>4, <1>5 DEF MNext

\* Only a task that has left its place "idle" writes the word or the stamp, or
\* moves; without an entry there is none.
LEMMA IdleBreaker ==
  ASSUME ManagerOK, TypeOK, NEW t \in Threads, Local(t) \/ CasOk(t) \/ CasFails(t) \/ End(t)
  PROVE  breakers /\ \A u \in missed : pc'[u] = "idle"
<1>1. pc[t] # "idle" /\ \E l \in PC : pc' = [pc EXCEPT ![t] = l]
  BY Zenon DEF TypeOK, PC, Local, AllowLoad, LoadStamp, ResetRefused, SuccessLoad, ClearStamp, FailureStore, FailureLoad,
         CasOk, ResetCas, AdmitCas, SuccessCas, FailureCas, CasFails, End, EndSuccess, EndFailure, Abandon, Goto, Finish
<1>2. breakers
  BY <1>1 DEF ManagerOK
<1>3. ASSUME NEW u \in missed PROVE pc'[u] = "idle"
  BY <1>1 DEF ManagerOK, TypeOK
<1>4. QED
  BY <1>2, <1>3, SMTT(30)

\* Every step of the manager keeps its invariant.
LEMMA ManagerInvStep == ManagerOK /\ TypeOK /\ [MNext]_mvars => ManagerOK'
<1> SUFFICES ASSUME ManagerOK, TypeOK, [MNext]_mvars PROVE ManagerOK'
  OBVIOUS
<1>1. ASSUME NEW t \in Threads, Arrive(t) PROVE ManagerOK'
  <2>1. CASE Miss(t)
    BY <2>1 DEF Miss, ManagerOK, vars
  <2>2. CASE Lock(t)
    BY <2>2 DEF Lock, ManagerOK, vars
  <2>3. CASE get_breaker(t)
    <3>1. pc' = [pc EXCEPT ![t] = "allow"] /\ write_lock' = {} /\ missed' = missed \ {t} /\ breakers'
      BY <2>3 DEF get_breaker, Goto
    <3>2. QED
      BY <3>1 DEF ManagerOK, TypeOK
  <2>4. CASE allow_request(t)
    <3>1. /\ pc' = [pc EXCEPT ![t] = "allow"] /\ t \notin missed /\ breakers
          /\ UNCHANGED <<breakers, write_lock, missed>>
      BY <2>4, SMTT(30) DEF allow_request, Begin, Goto
    <3>2. QED
      BY <3>1 DEF ManagerOK, TypeOK
  <2>5. QED
    BY <1>1, <2>1, <2>2, <2>3, <2>4 DEF Arrive
<1>2. ASSUME NEW t \in Threads,
             Leave(t) \/ Kept(Local(t)) \/ Kept(CasOk(t)) \/ Kept(CasFails(t))
      PROVE  ManagerOK'
  <2>1. /\ Local(t) \/ CasOk(t) \/ CasFails(t) \/ End(t)
        /\ UNCHANGED <<breakers, write_lock, missed>>
    BY <1>2 DEF Leave, record_success, record_failure, Kept, End
  <2>2. breakers /\ \A u \in missed : pc'[u] = "idle"
    BY <2>1, IdleBreaker, SMTT(30)
  <2>3. QED
    BY <2>1, <2>2, Zenon DEF ManagerOK
<1>3. CASE Kept(Tick)
  BY <1>3, Zenon DEF Kept, Tick, Age, ManagerOK
<1>4. CASE UNCHANGED mvars
  BY <1>4 DEF mvars, vars, ManagerOK
<1>5. QED
  BY <1>1, <1>2, <1>3, <1>4 DEF MNext

\* The breaker that get_breaker makes and hands out behaves as one breaker that
\* is there from the start: no request uses another one, and none is replaced.
THEOREM ManagerImplements == MSafety => Spec
<1>1. MInit => Init /\ ManagerOK /\ TypeOK
  BY WordTypes, TimeoutAssumption, ThresholdAssumption
     DEF MInit, Init, ManagerOK, TypeOK, Stamp, NeverFailed, PC
<1>2. ManagerOK /\ TypeOK /\ [MNext]_mvars => [Next]_vars /\ (ManagerOK /\ TypeOK)'
  BY ManagerStep, ManagerInvStep, TypeStep
<1>3. QED
  BY <1>1, <1>2, PTL DEF MSafety, Spec

\* What is shown of the breaker holds with the manager in front of it.
THEOREM ManagedBreaker == MSafety => AtomicTransitions /\ []ProbeLimit
BY ManagerImplements, Atomicity, ProbesBounded, PTL
=============================================================================
