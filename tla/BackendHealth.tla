--------------------------- MODULE BackendHealth ----------------------------
(***************************************************************************)
(* Passive health and draining of a route's backends: HealthData of        *)
(* control/src/proxy/route_snapshot.rs, held in an ArcSwap by the Router   *)
(* of control/src/proxy/router.rs.  Readers take the current snapshot with *)
(* one load.  A writer loads the snapshot, clones and modifies it, and     *)
(* stores the result: a load step and a store step, with nothing between   *)
(* the writers to serialise them.                                          *)
(***************************************************************************)
EXTENDS Integers, Sequences, FiniteSets

CONSTANTS
  Backends,       \* the backends of one route
  Drainable,      \* the backends drain_backend may be called for
  Tasks,          \* request tasks and administrative callers
  WindowSize,     \* WINDOW_SIZE (100): responses remembered per backend
  DrainTimeout,   \* drain_timeout, in clock ticks
  MaxTime         \* bound: the clock stops here

ASSUME WindowSizeAssumption == WindowSize \in Nat \ {0}
ASSUME DrainTimeoutAssumption == DrainTimeout \in Nat \ {0}
ASSUME MaxTimeAssumption == MaxTime \in Nat
ASSUME DrainableAssumption == Drainable \subseteq Backends

VARIABLES
  health,      \* the snapshot in the ArcSwap
  clock,
  pc,          \* where each task is
  target,      \* the backend each task works on
  copy,        \* the modified clone each writer is about to store
  responses,   \* history: responses recorded per backend, up to WindowSize
  errors,      \* history: those with a 5xx status, up to WindowSize
  raced,       \* history: some writer loaded while another was about to store
  excluded     \* history: backends seen unhealthy while no task was active

vars == <<health, clock, pc, target, copy, responses, errors, raced, excluded>>

NotDraining == 0

Statuses == {"2xx", "4xx", "5xx"}

EmptyHealth ==
  [window |-> [b \in Backends |-> << >>],
   deadline |-> [b \in Backends |-> NotDraining]]

-----------------------------------------------------------------------------
\* BackendHealth and BackendDraining

ErrorCount(w) == Cardinality({i \in DOMAIN w : w[i]})

\* error_rate <= 0.5; a backend without responses is healthy.
is_healthy(w) == Len(w) = 0 \/ 2 * ErrorCount(w) <= Len(w)

\* Faulty variant of is_error: client errors count against the backend.
AnyErrorStatus(status) == status # "2xx"

is_error(status) == status = "5xx"

\* Faulty variant of record_response: a full window is cleared.
ClearingRecord(w, status) == IF Len(w) = WindowSize THEN << >> ELSE Append(w, is_error(status))

record_response(w, status) ==
  Append(IF Len(w) = WindowSize THEN Tail(w) ELSE w, is_error(status))

is_expired(deadline) == clock >= deadline

\* Faulty variant of Eligible: passive health is not consulted.
AnyNotDraining(h, up) == {b \in up : h.deadline[b] = NotDraining}

\* The backends select_backend may return from snapshot h when the active
\* health checker reports the backends of up as healthy.
Eligible(h, up) ==
  {b \in up : is_healthy(h.window[b]) /\ h.deadline[b] = NotDraining}

Writing == {"ok", "error", "drain", "cleanup"}

Quiet == \A t \in Tasks : pc[t] = "idle"

-----------------------------------------------------------------------------
Init ==
  /\ health = EmptyHealth
  /\ clock = 0
  /\ pc = [t \in Tasks |-> "idle"]
  /\ target = [t \in Tasks |-> CHOOSE b \in Backends : TRUE]
  /\ copy = [t \in Tasks |-> EmptyHealth]
  /\ responses = [b \in Backends |-> 0]
  /\ errors = [b \in Backends |-> 0]
  /\ raced = FALSE
  /\ excluded = {}

\* select_backend: one load of the snapshot, then an eligible backend.
Select(t, up, b) ==
  /\ pc[t] = "idle"
  /\ b \in Eligible(health, up)
  /\ pc' = [pc EXCEPT ![t] = "inflight"]
  /\ target' = [target EXCEPT ![t] = b]
  /\ UNCHANGED <<health, clock, copy, responses, errors, raced, excluded>>

\* ... or None: the request ends without a backend.
SelectNone(t, up) ==
  /\ pc[t] = "idle"
  /\ Eligible(health, up) = {}
  /\ UNCHANGED vars

\* The load-and-modify half of a writer.
Prepare(t, from, b, label, new) ==
  /\ pc[t] = from
  /\ pc' = [pc EXCEPT ![t] = label]
  /\ target' = [target EXCEPT ![t] = b]
  /\ copy' = [copy EXCEPT ![t] = new]
  /\ raced' = (raced \/ \E u \in Tasks : pc[u] \in Writing)
  /\ UNCHANGED <<health, clock, responses, errors, excluded>>

\* record_backend_response, when the response of an in-flight request arrives.
RecordLoad(t, status) ==
  Prepare(t, "inflight", target[t], IF status = "5xx" THEN "error" ELSE "ok",
          [health EXCEPT !.window[target[t]] = record_response(@, status)])

\* drain_backend
DrainLoad(t, b) ==
  Prepare(t, "idle", b, "drain", [health EXCEPT !.deadline[b] = clock + DrainTimeout])

\* cleanup_expired_draining_backends
CleanupLoad(t) ==
  Prepare(t, "idle", target[t], "cleanup",
          [health EXCEPT !.deadline =
             [b \in Backends |-> IF @[b] # NotDraining /\ is_expired(@[b]) THEN NotDraining ELSE @[b]]])

\* History counters stop at WindowSize: a window holds no more.
Count(n) == IF n < WindowSize THEN n + 1 ELSE n

\* The store half of every writer.
Store(t) ==
  /\ pc[t] \in Writing
  /\ health' = copy[t]
  /\ pc' = [pc EXCEPT ![t] = "idle"]
  /\ target' = [target EXCEPT ![t] = CHOOSE b \in Backends : TRUE]
  /\ copy' = [copy EXCEPT ![t] = EmptyHealth]
  /\ responses' = [responses EXCEPT ![target[t]] = IF pc[t] \in {"ok", "error"} THEN Count(@) ELSE @]
  /\ errors' = [errors EXCEPT ![target[t]] = IF pc[t] = "error" THEN Count(@) ELSE @]
  /\ excluded' = IF Quiet' THEN excluded \cup {b \in Backends : ~ is_healthy(health'.window[b])}
                 ELSE excluded
  /\ UNCHANGED <<clock, raced>>

Tick ==
  /\ clock < MaxTime
  /\ clock' = clock + 1
  /\ UNCHANGED <<health, pc, target, copy, responses, errors, raced, excluded>>

Next ==
  \/ Tick
  \/ \E t \in Tasks :
       \/ \E up \in SUBSET Backends, b \in Backends : Select(t, up, b)
       \/ \E up \in SUBSET Backends : SelectNone(t, up)
       \/ \E b \in Drainable : DrainLoad(t, b)
       \/ \E status \in Statuses : RecordLoad(t, status)
       \/ Drainable # {} /\ CleanupLoad(t)
       \/ Store(t)

Spec == Init /\ [][Next]_vars

-----------------------------------------------------------------------------
Windows == UNION {[1 .. n -> BOOLEAN] : n \in 0 .. WindowSize}

Snapshots == [window : [Backends -> Windows], deadline : [Backends -> Nat]]

\* The window of a backend never outgrows WINDOW_SIZE.
TypeOK ==
  /\ health \in Snapshots
  /\ clock \in 0 .. MaxTime
  /\ pc \in [Tasks -> {"idle", "inflight"} \cup Writing]
  /\ target \in [Tasks -> Backends]
  /\ copy \in [Tasks -> Snapshots]
  /\ responses \in [Backends -> 0 .. WindowSize]
  /\ errors \in [Backends -> 0 .. WindowSize]
  /\ raced \in BOOLEAN
  /\ excluded \subseteq Backends

\* Losing updates may hide outcomes but never invents one: a backend is never
\* charged with more errors than its responses had 5xx statuses, so a backend
\* that answers without 5xx is never excluded.
ErrorsNotInvented ==
  \A b \in Backends : ErrorCount(health.window[b]) <= errors[b]

\* "Writers clone-modify-swap under a serializing Mutex".  The code has no such
\* mutex; as long as the writers happen not to overlap, every recorded response
\* is in its window, as far as the window reaches.
SerialWritesKept ==
  ~ raced /\ Quiet => \A b \in Backends : Len(health.window[b]) >= responses[b]

\* Passive exclusion has no way back: a backend that was above the error rate
\* when no task was active is never selected again, so it never records the
\* successes that would lower its error rate.
ExcludedForGood == \A b \in excluded : ~ is_healthy(health.window[b])
=============================================================================
