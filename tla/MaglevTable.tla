---------------------------- MODULE MaglevTable ----------------------------
(***************************************************************************)
(* From the services of a route to the backend of a request: the slots     *)
(* that the weights give to the pods (http_route.rs), the compact Maglev   *)
(* table (common/src/lib.rs) and the probing of the table for a healthy    *)
(* backend (router.rs).                                                    *)
(*                                                                         *)
(* The hash is any of the functions in Hashes; the shares of the slots are *)
(* exact fractions where the code uses f64.  All backends that the         *)
(* controllers make have the same weight, hence as many repetitions.       *)
(***************************************************************************)
EXTENDS Integers, FiniteSets, Sequences

CONSTANTS
  Size,          \* COMPACT_MAGLEV_SIZE, a prime
  MaxSlots,      \* MAX_MAGLEV_BACKENDS
  Repetitions,   \* backend.weight / 10, at least 1
  SeedStride,    \* the distance of the seeds of two backends: 100
  Probes,        \* select_backend looks at Probes slots per backend: 10
  MaskBits,      \* the width of tried_mask
  FlowMod,       \* 2^64
  NoBackend,     \* select_backend's None
  Pods,          \* the addresses of the endpoints
  ServiceLists,  \* the resolved services of a rule: sequences of [pods, weight]
  Hashes         \* functions from <<pod, seed>> to Nat, for hash_backend

ASSUME SizeAssumption == Size \in Nat /\ Size > 1 /\ \A d \in 2 .. Size - 1 : Size % d # 0
ASSUME BoundsAssumption ==
  /\ {MaxSlots, Repetitions, SeedStride, Probes, MaskBits, FlowMod} \subseteq Nat \ {0}
  /\ MaxSlots <= MaskBits
  /\ NoBackend \notin Nat

\* A service that has no endpoint is not among the resolved ones.
ASSUME ServicesAssumption == ServiceLists \subseteq Seq([pods : Seq(Pods) \ {<<>>}, weight : Nat])

\* hash_backend is defined for the seeds of every backend that a table has.
ASSUME HashesAssumption ==
  \A h \in Hashes : \A pod \in Pods : \A x \in 0 .. MaxSlots * SeedStride + Repetitions : h[<<pod, x>>] \in Nat

VARIABLES
  hash,          \* hash_backend
  services,      \* resolved_services
  backends,      \* the route's backends
  round,         \* replica_round, from 1
  turn,          \* the position, from 1, in the inner loop
  maglev_table,  \* the route's table
  filled,        \* the claimed slots
  lap,           \* n: the position in the permutations
  flow,          \* flow_hash of the request
  snapshot,      \* the pods that the health snapshot of the request lets through
  attempt,
  tried,         \* the bits of tried_mask
  refused,       \* history: the indices whose backend a health check has refused
  chosen,        \* the index of the backend the request gets
  phase          \* the part of reconcile or of select_backend that is next

rule == <<services, backends, round>>
building == <<maglev_table, filled, lap>>
selection == <<flow, snapshot, attempt, tried, refused, chosen>>
mvars == <<hash, rule, turn, building, selection, phase>>

Slots == 0 .. Size - 1
-----------------------------------------------------------------------------
\* The slots of the services

\* The sum of f[1], ..., f[m].
SumTo(f, m) == LET s[i \in 0 .. m] == IF i = 0 THEN 0 ELSE s[i - 1] + f[i] IN s[m]

TotalWeight(ss) == SumTo([i \in 1 .. Len(ss) |-> ss[i].weight], Len(ss))

Floor(ss, i) == (ss[i].weight * MaxSlots) \div TotalWeight(ss)

Remainder(ss, i) == (ss[i].weight * MaxSlots) % TotalWeight(ss)

\* The services that the stable descending sort by remainder puts before i.
Ahead(ss, i) ==
  {j \in 1 .. Len(ss) : \/ Remainder(ss, j) > Remainder(ss, i)
                        \/ (Remainder(ss, j) = Remainder(ss, i) /\ j < i)}

RemainingSlots(ss) == MaxSlots - SumTo([i \in 1 .. Len(ss) |-> Floor(ss, i)], Len(ss))

ServiceSlots(ss, i) ==
  Floor(ss, i) + IF Cardinality(Ahead(ss, i)) < RemainingSlots(ss) THEN 1 ELSE 0

CeilDiv(a, b) == (a + b - 1) \div b

\* Faulty variant of Replicas: a service without slots gets no replica.
ReplicasOrNone(ss, i) == CeilDiv(ServiceSlots(ss, i), Len(ss[i].pods))

Replicas(ss, i) ==
  LET r == CeilDiv(ServiceSlots(ss, i), Len(ss[i].pods)) IN IF r = 0 THEN 1 ELSE r
-----------------------------------------------------------------------------
\* The table

\* The index, from 0, of the backend that the p-th permutation belongs to.
Index(p) == (p - 1) \div Repetitions

\* unique_idx of the p-th permutation
Seed(p) == Index(p) * SeedStride + ((p - 1) % Repetitions)

PermIndices == 1 .. Len(backends) * Repetitions

\* The j-th slot of the p-th permutation.
Perm(p, j) ==
  LET pod == backends[Index(p) + 1]
      offset == hash[<<pod, Seed(p)>>] % Size
      skip == (hash[<<pod, Seed(p) + 1>>] % (Size - 1)) + 1
  IN  (offset + j * skip) % Size

\* Faulty variant of Claims: a slot that is taken is claimed again.
ClaimsAlways(c) == TRUE

Claims(c) == c \notin filled

\* A rule with resolved services; its route has no table yet.
MInit ==
  /\ hash \in Hashes
  /\ services \in ServiceLists /\ backends = <<>> /\ round = 1 /\ turn = 1
  /\ maglev_table = [c \in Slots |-> 0] /\ filled = {} /\ lap = 0
  /\ flow = 0 /\ snapshot = {} /\ attempt = 0 /\ tried = {} /\ refused = {} /\ chosen = NoBackend
  /\ phase = "resolved"

\* The shares of the services; without weight there are no backends, and
\* without backends there is no add_route.
Allocate ==
  /\ phase = "resolved"
  /\ phase' = IF TotalWeight(services) > 0 THEN "interleave" ELSE "none"
  /\ UNCHANGED <<hash, rule, turn, building, selection>>

\* One turn of the loop that interleaves the replicas of the services.
InterleaveTurn ==
  /\ phase = "interleave"
  /\ backends' = IF round <= Replicas(services, turn) THEN backends \o services[turn].pods ELSE backends
  /\ IF turn < Len(services)
     THEN turn' = turn + 1 /\ UNCHANGED <<round, phase>>
     ELSE /\ turn' = 1 /\ round' = round + 1
          /\ phase' = IF \A i \in 1 .. Len(services) : Replicas(services, i) <= round THEN "trim" ELSE phase
  /\ UNCHANGED <<hash, services, building, selection>>

Trim ==
  /\ phase = "trim"
  /\ backends' = IF Len(backends) > MaxSlots THEN SubSeq(backends, 1, MaxSlots) ELSE backends
  /\ phase' = "fill"
  /\ UNCHANGED <<hash, services, round, turn, building, selection>>

\* One turn of the inner loop of maglev_build_compact_table.
Fill ==
  LET c == Perm(turn, lap % Size) IN
  /\ phase = "fill"
  /\ maglev_table' = [maglev_table EXCEPT ![c] = IF Claims(c) THEN Index(turn) ELSE @]
  /\ filled' = filled \union {c}
  /\ IF filled' = Slots
     THEN phase' = "ready" /\ UNCHANGED <<lap, turn>>
     ELSE /\ UNCHANGED phase
          /\ \/ turn < Len(backends) * Repetitions /\ turn' = turn + 1 /\ UNCHANGED lap
             \/ turn = Len(backends) * Repetitions /\ turn' = 1 /\ lap' = lap + 1
  /\ UNCHANGED <<hash, rule, selection>>

\* The next reconciliation finds other services.
Reconcile(ss) ==
  /\ phase \in {"ready", "none"}
  /\ services' = ss /\ backends' = <<>> /\ round' = 1 /\ turn' = 1
  /\ maglev_table' = [c \in Slots |-> 0] /\ filled' = {} /\ lap' = 0
  /\ flow' = 0 /\ snapshot' = {} /\ attempt' = 0 /\ tried' = {} /\ refused' = {} /\ chosen' = NoBackend
  /\ phase' = "resolved"
  /\ UNCHANGED hash
-----------------------------------------------------------------------------
\* The selection

maglev_lookup_compact(f) == maglev_table[f % Size]

\* Faulty variant of Attempts: as many attempts as backends.
AttemptsFew == Len(backends)

Attempts == Len(backends) * Probes

\* A request starts to probe; the snapshot holds passive health and draining.
Select(f, healthy) ==
  /\ phase = "ready"
  /\ flow' = f /\ snapshot' = healthy
  /\ attempt' = 0 /\ tried' = {} /\ refused' = {} /\ chosen' = NoBackend
  /\ phase' = "probe"
  /\ UNCHANGED <<hash, rule, turn, building>>

\* backend_idx
Probed == maglev_lookup_compact((flow + attempt) % FlowMod)

Bit == Probed % MaskBits

\* The end of the attempts
Exhausted ==
  /\ attempt >= Attempts
  /\ phase' = "chosen"
  /\ UNCHANGED <<attempt, tried, refused, chosen>>

AlreadyTried ==
  /\ attempt < Attempts /\ Bit \in tried
  /\ attempt' = attempt + 1
  /\ UNCHANGED <<tried, refused, chosen, phase>>

\* By the snapshot, or by the active health checker, which is read live.
Refused ==
  /\ attempt < Attempts /\ Bit \notin tried
  /\ tried' = tried \union {Bit} /\ refused' = refused \union {Probed}
  /\ attempt' = attempt + 1
  /\ phase' = IF Cardinality(tried') = Len(backends) THEN "chosen" ELSE phase
  /\ UNCHANGED chosen

Healthy ==
  /\ attempt < Attempts /\ Bit \notin tried
  /\ backends[Probed + 1] \in snapshot
  /\ tried' = tried \union {Bit} /\ chosen' = Probed /\ phase' = "chosen"
  /\ UNCHANGED <<attempt, refused>>

\* One attempt of select_backend.
Probe ==
  /\ phase = "probe"
  /\ Exhausted \/ AlreadyTried \/ Refused \/ Healthy
  /\ UNCHANGED <<hash, rule, turn, building, flow, snapshot>>

\* The request goes on with what it got.
Answered ==
  /\ phase = "chosen"
  /\ flow' = 0 /\ snapshot' = {}
  /\ attempt' = 0 /\ tried' = {} /\ refused' = {} /\ chosen' = NoBackend
  /\ phase' = "ready"
  /\ UNCHANGED <<hash, rule, turn, building>>

MNext ==
  \/ Allocate \/ InterleaveTurn \/ Trim \/ Fill
  \/ \E ss \in ServiceLists : Reconcile(ss)
  \/ \E f \in 0 .. FlowMod - 1, healthy \in SUBSET {backends[b] : b \in 1 .. Len(backends)} : Select(f, healthy)
  \/ Probe \/ Answered

MSpec == MInit /\ [][MNext]_mvars
-----------------------------------------------------------------------------
\* The types of the variables.
MTypeOK ==
  /\ hash \in Hashes /\ services \in ServiceLists /\ backends \in Seq(Pods)
  /\ round \in Nat \ {0} /\ turn \in Nat \ {0}
  /\ maglev_table \in [Slots -> Nat] /\ filled \subseteq Slots /\ lap \in Nat
  /\ flow \in Nat /\ attempt \in Nat
  /\ phase \in {"resolved", "none", "interleave", "trim", "fill", "ready", "probe", "chosen"}

SlotsExact ==
  phase \in {"interleave", "ready"}
    => SumTo([i \in 1 .. Len(services) |-> ServiceSlots(services, i)], Len(services)) = MaxSlots

PodCount(ss) == SumTo([i \in 1 .. Len(ss) |-> Len(ss[i].pods)], Len(ss))

PodsServed ==
  (phase \in {"fill", "ready"} /\ PodCount(services) <= MaxSlots)
    => \A i \in 1 .. Len(services) : \A j \in 1 .. Len(services[i].pods) :
         \E b \in 1 .. Len(backends) : backends[b] = services[i].pods[j]

\* "This ensures slots sum to exactly MAX_MAGLEV_BACKENDS": the largest
\* remainders get what the floors leave (http_route.rs).  The first interleaving
\* round holds every pod once: as long as the pods of the rule fit the table,
\* each of them is a backend whatever the weights; truncation only drops
\* replicas.
WeightsHonoured == SlotsExact /\ PodsServed

\* Permutation p visits slot c in lap j, and no permutation has visited it in an
\* earlier lap, or before p in the same one.
FirstVisit(c, p, j) ==
  /\ Perm(p, j) = c
  /\ \A q \in PermIndices, i \in Slots : (i < j \/ (i = j /\ q < p)) => Perm(q, i) # c

\* What the loops of maglev_build_compact_table compute: a slot goes to the
\* permutation that visits it in the earliest lap.  The while loop ends after
\* at most as many laps as the table has slots: each permutation visits every
\* slot.
EarliestClaims ==
  /\ lap < Size
  /\ phase = "ready"
       => \A c \in Slots : \E p \in PermIndices, j \in Slots :
            FirstVisit(c, p, j) /\ maglev_table[c] = Index(p)

\* The backend index at the a-th slot from the flow's.
At(a) == maglev_table[((flow + a) % FlowMod) % Size]

\* The bookkeeping of tried indices in select_backend neither skips a backend
\* within its probes nor stops early, across the wrap of the flow hash: a
\* request gets the first backend that its health checks let through, and none
\* only if they have refused the backend of every slot probed.
SelectsFirstHealthy ==
  phase = "chosen" =>
    IF chosen = NoBackend
    THEN \A a \in 0 .. Len(backends) * Probes - 1 : At(a) \in refused
    ELSE /\ chosen \notin refused /\ backends[chosen + 1] \in snapshot
         /\ \E a \in 0 .. Len(backends) * Probes - 1 :
              At(a) = chosen /\ \A b \in 0 .. a - 1 : At(b) \in refused
=============================================================================
