----------------------------- MODULE TokenBucket ----------------------------
(***************************************************************************)
(* The lock-free token bucket of control/src/proxy/rate_limiter.rs, called *)
(* by concurrent request tasks of one route.  Token amounts are in the     *)
(* 16.16 fixed-point units of the code, time is in milliseconds.  A call   *)
(* of try_acquire reads the clock ONCE, then loops: load the word, refill  *)
(* it up to its reading of the clock, take a token, compare and swap.      *)
(***************************************************************************)
EXTENDS Integers

CONSTANTS
  Callers,    \* request tasks that call try_acquire
  Capacity,   \* capacity_fixed
  Rate,       \* refill_rate_per_ms_fixed
  Cost,       \* n_fixed of one call: 1.0 in fixed point
  ClockMod,   \* 2^32: the clock reading is truncated to u32
  MaxTime     \* bound: the clock stops here

ASSUME CapacityAssumption == Capacity \in Nat
ASSUME RateAssumption == Rate \in Nat
ASSUME CostAssumption == Cost \in Nat \ {0}
ASSUME ClockModAssumption == ClockMod \in Nat \ {0}
ASSUME MaxTimeAssumption == MaxTime \in Nat

VARIABLES
  bucket,     \* the AtomicU64: tokens and the u32 time of the last refill
  clock,      \* milliseconds since the bucket was created
  at,         \* where each task is in try_acquire_n
  readAt,     \* the clock when each task read it
  current,        \* the word each task loaded
  admitted,   \* history: the tokens of all granted calls
  refillAt,   \* history: the clock reading of the last write
  stale,      \* history: some write used a reading older than the word's
  ideal       \* history: the tokens of a bucket refilled on every tick

bucketVars == <<bucket, clock, at, readAt, current, admitted, refillAt, stale, ideal>>

Offset == 0 .. ClockMod - 1

pack_bucket(tokens, ms) == [tokens |-> tokens, refill |-> ms % ClockMod]

NewBucket == pack_bucket(Capacity, 0)

\* now_ms.wrapping_sub(old_refill_ms), as u32.
ElapsedMs(nowMs, w) == ((nowMs % ClockMod) - w.refill) % ClockMod

AtMost(x, bound) == IF x < bound THEN x ELSE bound

\* The tokens of word w, refilled up to the reading nowMs of the clock.
NewTokens(nowMs, w) == AtMost(w.tokens + ElapsedMs(nowMs, w) * Rate, Capacity)

MaxAdmitted == Capacity + Rate * MaxTime + Cost

BucketInit ==
  /\ bucket = NewBucket
  /\ clock = 0
  /\ at = [t \in Callers |-> "idle"]
  /\ readAt = [t \in Callers |-> 0]
  /\ current = [t \in Callers |-> NewBucket]
  /\ admitted = 0
  /\ refillAt = 0
  /\ stale = FALSE
  /\ ideal = Capacity

Millisecond ==
  /\ clock < MaxTime
  /\ clock' = clock + 1
  /\ ideal' = AtMost(ideal + Rate, Capacity)
  /\ UNCHANGED <<bucket, at, readAt, current, admitted, refillAt, stale>>

\* try_acquire: the clock is read before the loop.
Call(t) ==
  /\ at[t] = "idle"
  /\ at' = [at EXCEPT ![t] = "load"]
  /\ readAt' = [readAt EXCEPT ![t] = clock]
  /\ UNCHANGED <<bucket, clock, current, admitted, refillAt, stale, ideal>>

Load(t) ==
  /\ at[t] = "load"
  /\ at' = [at EXCEPT ![t] = "cas"]
  /\ current' = [current EXCEPT ![t] = bucket]
  /\ UNCHANGED <<bucket, clock, readAt, admitted, refillAt, stale, ideal>>

\* The call returns; its locals are gone.
Return(t) ==
  /\ at' = [at EXCEPT ![t] = "idle"]
  /\ readAt' = [readAt EXCEPT ![t] = 0]
  /\ current' = [current EXCEPT ![t] = NewBucket]
  /\ UNCHANGED clock

\* Faulty variant of CompareExchange: a plain store that does not compare.
BlindStore(t, tokens) ==
  /\ bucket' = pack_bucket(tokens, readAt[t])
  /\ refillAt' = readAt[t]
  /\ stale' = (stale \/ readAt[t] < refillAt)

\* A compare-and-swap that succeeds and leaves the given tokens.
CompareExchange(t, tokens) ==
  /\ bucket = current[t]
  /\ bucket' = pack_bucket(tokens, readAt[t])
  /\ refillAt' = readAt[t]
  /\ stale' = (stale \/ readAt[t] < refillAt)

Enough(t) == NewTokens(readAt[t], current[t]) >= Cost

Grant(t) ==
  /\ at[t] = "cas"
  /\ Enough(t)
  /\ CompareExchange(t, NewTokens(readAt[t], current[t]) - Cost)
  /\ admitted' = AtMost(admitted + Cost, MaxAdmitted)
  /\ ideal' = IF ideal < Cost THEN 0 ELSE ideal - Cost
  /\ Return(t)

\* The weak compare-and-swap of a grant fails: load again, with the same
\* reading of the clock.
Retry(t) ==
  /\ at[t] = "cas"
  /\ Enough(t)
  /\ at' = [at EXCEPT ![t] = "load"]
  /\ current' = [current EXCEPT ![t] = NewBucket]
  /\ UNCHANGED <<bucket, clock, readAt, admitted, refillAt, stale, ideal>>

\* Faulty variant of Reject: the refill time is stored without the refill.
ForgetfulReject(t) ==
  /\ at[t] = "cas"
  /\ ~ Enough(t)
  /\ \/ CompareExchange(t, current[t].tokens)
     \/ UNCHANGED <<bucket, refillAt, stale>>
  /\ Return(t)
  /\ UNCHANGED <<admitted, ideal>>

\* Too few tokens: one attempt to store the refill, then false.
Reject(t) ==
  /\ at[t] = "cas"
  /\ ~ Enough(t)
  /\ \/ CompareExchange(t, NewTokens(readAt[t], current[t]))
     \/ UNCHANGED <<bucket, refillAt, stale>>
  /\ Return(t)
  /\ UNCHANGED <<admitted, ideal>>

BucketNext ==
  \/ Millisecond
  \/ \E t \in Callers : Call(t) \/ Load(t) \/ Grant(t) \/ Retry(t) \/ Reject(t)

BucketSpec == BucketInit /\ [][BucketNext]_bucketVars

-----------------------------------------------------------------------------
BucketWord == [tokens : 0 .. Capacity, refill : Offset]

\* The word never holds more than the burst capacity, so that the shift of
\* pack_bucket loses no bits, and never less than nothing.
BucketTypeOK ==
  /\ bucket \in BucketWord
  /\ clock \in Nat
  /\ at \in [Callers -> {"idle", "load", "cas"}]
  /\ readAt \in [Callers -> Nat]
  /\ current \in [Callers -> BucketWord]
  /\ admitted \in Nat
  /\ refillAt \in Nat
  /\ stale \in BOOLEAN
  /\ ideal \in 0 .. Capacity

\* The tokens granted so far never exceed the burst plus what the rate refills
\* in the time that has passed.
AdmissionBound == admitted <= Capacity + Rate * clock

\* The bound holds until a task writes with a clock reading older than the one
\* in the word: only then does wrapping_sub mistake a negative difference for
\* an immense one.
FreshAdmissionBound == ~ stale => AdmissionBound

\* Refilling lazily and storing the refill of a refused call loses nothing:
\* until the u32 clock wraps, the bucket holds at least what a bucket that is
\* refilled on every tick would hold.
NeverUnderfilled == clock < ClockMod => ideal <= NewTokens(clock, bucket)
=============================================================================
