----------------------------- MODULE Http2Pool ------------------------------
(***************************************************************************)
(* Forwarding to one backend through the HTTP/2 pool of one worker:        *)
(* Http2Pool of control/src/proxy/backend_pool.rs, the worker's mutex      *)
(* around it (worker.rs) and the choice of protocol in forwarder.rs.       *)
(*                                                                         *)
(* The mutex is held across the connection attempts, so the pool has one   *)
(* user at a time; meanwhile connections die, time passes, and the request *)
(* timeout may drop the future of any task at any await.  No code ever     *)
(* moves a connection to ConnectionState::Failed: a connection is Active,  *)
(* and its sender is ready (TRUE) until the connection is closed (FALSE).  *)
(***************************************************************************)
EXTENDS Integers, Sequences, SequencesExt

CONSTANTS
  Tasks,          \* requests to the backend
  MaxConns,       \* max_connections of a new pool (8)
  DegradeAt,      \* consecutive failures that degrade the pool (5)
  OpenAt,         \* consecutive failures that open its circuit (10)
  RecoverAfter    \* ticks without success before an open circuit retries (30 s)

ASSUME MaxConnsAssumption == MaxConns \in Nat \ {0}
ASSUME ThresholdsAssumption == DegradeAt \in Nat \ {0} /\ OpenAt \in Nat /\ DegradeAt <= OpenAt
ASSUME RecoverAssumption == RecoverAfter \in Nat

VARIABLES
  created,     \* whether the backend has a pool
  conns,       \* connections: readiness of each sender
  next,        \* next_conn_index
  maxConns,    \* max_connections
  health,      \* health_state
  failures,    \* consecutive_failures, up to OpenAt
  age,         \* ticks since last_success, up to RecoverAfter + 1
  holder,      \* the task that holds the worker's mutex
  warmed,      \* connections created by the prewarm that is running
  protocol,    \* the protocol cache entry of the backend
  pc           \* where each task is

vars == <<created, conns, next, maxConns, health, failures, age, holder, warmed,
          protocol, pc>>

circuit == <<maxConns, health, failures, age>>
pool == <<created, conns, next, circuit>>

Nobody == "nobody"

ASSUME NobodyAssumption == Nobody \notin Tasks

Healthy == "Healthy"
Degraded == "Degraded"
Unhealthy == "Unhealthy"

-----------------------------------------------------------------------------
\* record_success and record_failure, called by create_connection

record_success ==
  /\ failures' = 0
  /\ age' = 0
  /\ health' = IF health = Degraded THEN Healthy ELSE health
  /\ UNCHANGED maxConns

AtLeastOne(n) == IF n = 0 THEN 1 ELSE n

record_failure ==
  LET n == IF failures < OpenAt THEN failures + 1 ELSE failures
      degrades == n >= DegradeAt /\ health = Healthy
  IN  /\ failures' = n
      /\ maxConns' = IF degrades THEN AtLeastOne(maxConns) \div 2 ELSE maxConns
      /\ health' = IF n >= OpenAt THEN Unhealthy ELSE IF degrades THEN Degraded ELSE health
      /\ UNCHANGED age

-----------------------------------------------------------------------------
Init ==
  /\ created = FALSE
  /\ conns = << >>
  /\ next = 0
  /\ maxConns = MaxConns
  /\ health = Healthy
  /\ failures = 0
  /\ age = 0
  /\ holder = Nobody
  /\ warmed = 0
  /\ protocol = "unknown"
  /\ pc = [t \in Tasks |-> "idle"]

Goto(t, l) == pc' = [pc EXCEPT ![t] = l]

\* Faulty variant of Finish: a request that ends early keeps the mutex.
FinishLocked(t) ==
  /\ Goto(t, "idle")
  /\ UNCHANGED <<holder, warmed>>

\* The request is over, or its future is dropped; a mutex it holds is released.
Finish(t) ==
  /\ Goto(t, "idle")
  /\ holder' = IF holder = t THEN Nobody ELSE holder
  /\ warmed' = IF holder = t THEN 0 ELSE warmed

\* A sender is returned: the mutex is released and the request is sent.
Send(t) ==
  /\ Goto(t, "send")
  /\ holder' = Nobody
  /\ warmed' = 0

\* forward_to_backend reads the protocol cache: only a cached HTTP/1.1 avoids
\* the pool.
Start(t) ==
  /\ pc[t] = "idle"
  /\ Goto(t, IF protocol = "http1" THEN "http1" ELSE "lock")
  /\ UNCHANGED <<pool, holder, warmed, protocol>>

\* get_backend_connection takes the mutex.  prewarm_pool does nothing when the
\* backend has no pool yet or has connections; get_or_create_pool follows.
Lock(t) ==
  /\ pc[t] = "lock"
  /\ holder = Nobody
  /\ holder' = t
  /\ Goto(t, IF created /\ conns = << >> /\ maxConns > 0 THEN "prewarm" ELSE "get")
  /\ created' = TRUE
  /\ UNCHANGED <<conns, next, circuit, warmed, protocol>>

\* prewarm: connections up to max_connections, until one attempt fails.
PrewarmOk(t) ==
  /\ pc[t] = "prewarm"
  /\ conns' = Append(conns, TRUE)
  /\ record_success
  /\ warmed' = warmed + 1
  /\ Goto(t, IF warmed' = maxConns THEN "get" ELSE "prewarm")
  /\ UNCHANGED <<created, next, holder, protocol>>

PrewarmFails(t) ==
  /\ pc[t] = "prewarm"
  /\ record_failure
  /\ Goto(t, "get")
  /\ UNCHANGED <<created, conns, next, holder, warmed, protocol>>

-----------------------------------------------------------------------------
\* get_connection

Recovering == health = Unhealthy /\ age > RecoverAfter

\* The ready connection that the round robin finds first, as an offset from
\* next_conn_index.
Ready == {i \in 0 .. Len(conns) - 1 : conns[((next + i) % Len(conns)) + 1]}

First(S) == CHOOSE i \in S : \A j \in S : i <= j

\* The circuit is open, and its last success is recent.
GetRefused(t) ==
  /\ pc[t] = "get"
  /\ health = Unhealthy
  /\ ~ Recovering
  /\ Finish(t)
  /\ UNCHANGED <<pool, protocol>>

Recover ==
  /\ health' = IF health = Unhealthy THEN Degraded ELSE health
  /\ failures' = IF health = Unhealthy THEN 0 ELSE failures
  /\ UNCHANGED <<maxConns, age>>

\* Faulty variant of Passes: an open circuit never times out.
StaysOpen == health # Unhealthy

Passes == health = Unhealthy => Recovering

GetReady(t) ==
  /\ pc[t] = "get"
  /\ Passes
  /\ Ready # {}
  /\ Recover
  /\ next' = (next + First(Ready) + 1) % Len(conns)
  /\ Send(t)
  /\ UNCHANGED <<created, conns, protocol>>

\* Faulty variant of GetCreate: the reduced capacity is ignored.
CreateIgnoresDegraded(t) ==
  /\ pc[t] = "get"
  /\ Passes
  /\ Ready = {}
  /\ Len(conns) < MaxConns
  /\ Recover
  /\ Goto(t, "create")
  /\ UNCHANGED <<created, conns, next, holder, warmed, protocol>>

GetCreate(t) ==
  /\ pc[t] = "get"
  /\ Passes
  /\ Ready = {}
  /\ Len(conns) < maxConns
  /\ Recover
  /\ Goto(t, "create")
  /\ UNCHANGED <<created, conns, next, holder, warmed, protocol>>

NoCapacity(t) ==
  /\ pc[t] = "get"
  /\ Passes
  /\ Ready = {}
  /\ Len(conns) >= maxConns
  /\ Recover
  /\ Finish(t)
  /\ UNCHANGED <<created, conns, next, protocol>>

CreateOk(t) ==
  /\ pc[t] = "create"
  /\ conns' = Append(conns, TRUE)
  /\ record_success
  /\ Send(t)
  /\ UNCHANGED <<created, next, protocol>>

CreateFails(t) ==
  /\ pc[t] = "create"
  /\ record_failure
  /\ Finish(t)
  /\ UNCHANGED <<created, conns, next, protocol>>

-----------------------------------------------------------------------------
\* The request itself

Response(t) ==
  /\ pc[t] \in {"send", "http1"}
  /\ Finish(t)
  /\ UNCHANGED <<pool, protocol>>

\* The HTTP/2 request fails: the backend is cached as HTTP/1.1 and the request
\* is sent again.
Fallback(t) ==
  /\ pc[t] = "send"
  /\ protocol' = "http1"
  /\ Goto(t, "http1")
  /\ UNCHANGED <<pool, holder, warmed>>

\* A timeout or a departing client drops the future at an await.
Cancel(t) ==
  /\ pc[t] \in {"lock", "prewarm", "create", "send", "http1"}
  /\ Finish(t)
  /\ UNCHANGED <<pool, protocol>>

-----------------------------------------------------------------------------
ConnDies(i) ==
  /\ conns[i]
  /\ conns' = [conns EXCEPT ![i] = FALSE]
  /\ UNCHANGED <<created, next, circuit, holder, warmed, protocol, pc>>

Tick ==
  /\ age <= RecoverAfter
  /\ age' = age + 1
  /\ UNCHANGED <<created, conns, next, maxConns, health, failures, holder, warmed, protocol, pc>>

Prewarm(t) == PrewarmOk(t) \/ PrewarmFails(t)
Get(t) == GetRefused(t) \/ GetReady(t) \/ GetCreate(t) \/ NoCapacity(t)
Create(t) == CreateOk(t) \/ CreateFails(t)
End(t) == Response(t) \/ Fallback(t)

Next ==
  \/ Tick
  \/ \E i \in DOMAIN conns : ConnDies(i)
  \/ \E t \in Tasks : Start(t) \/ Lock(t) \/ Prewarm(t) \/ Get(t) \/ Create(t) \/ End(t) \/ Cancel(t)

Spec == Init /\ [][Next]_vars

(***************************************************************************)
(* Time passes and requests keep coming and ending.  The mutex is fair     *)
(* (tokio's queue is first in, first out), a connection attempt has a      *)
(* timeout of 5 s, and not every prewarm is cut short by its request's     *)
(* timeout.                                                                *)
(***************************************************************************)
Fairness ==
  /\ WF_vars(Tick)
  /\ \A t \in Tasks :
       /\ WF_vars(Start(t))
       /\ SF_vars(Lock(t))
       /\ SF_vars(Prewarm(t))
       /\ WF_vars(Get(t))
       /\ WF_vars(Create(t))
       /\ WF_vars(End(t))

FairSpec == Spec /\ Fairness

-----------------------------------------------------------------------------
\* The values of the pool and of the tasks.
TypeOK ==
  /\ created \in BOOLEAN
  /\ conns \in Seq(BOOLEAN)
  /\ next \in Nat
  /\ maxConns \in 0 .. MaxConns
  /\ health \in {Healthy, Degraded, Unhealthy}
  /\ failures \in 0 .. OpenAt
  /\ age \in 0 .. RecoverAfter + 1
  /\ holder \in Tasks \cup {Nobody}
  /\ warmed \in 0 .. MaxConns
  /\ protocol \in {"unknown", "http1"}
  /\ pc \in [Tasks -> {"idle", "lock", "prewarm", "get", "create", "send", "http1"}]

Exhausted == created /\ Len(conns) >= maxConns /\ \A i \in DOMAIN conns : ~ conns[i]

\* Closed connections are not removed and the halved max_connections is not
\* restored, so that a pool whose connections are all closed and as many as
\* its limit answers NoCapacity for good.
ExhaustedForGood == [][Exhausted => Exhausted']_vars

\* "Try to recover after timeout": an open circuit lets a request try again,
\* if requests still go through the pool.
OpenCircuitRetries == health = Unhealthy ~> health # Unhealthy \/ protocol = "http1"

\* A request that waits for the worker's mutex gets it or is cancelled, even
\* when every connection attempt fails.
LockServed == \A t \in Tasks : pc[t] = "lock" ~> pc[t] # "lock"
=============================================================================
