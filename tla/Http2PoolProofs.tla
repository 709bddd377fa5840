-------------------------- MODULE Http2PoolProofs ---------------------------
(***************************************************************************)
(* The pool for any number of requests and any limits: once used up, it    *)
(* stays so.                                                               *)
(***************************************************************************)
EXTENDS Http2Pool, FiniteSetTheorems, WellFoundedInduction, TLAPS

\* Where a task has the pool to itself.
Using == {"prewarm", "get", "create"}

\* The worker's mutex: whoever uses the pool holds it, and a connection that is
\* being made has a place.
MutexOK ==
  /\ \A t \in Tasks : pc[t] \in Using => holder = t
  /\ \A t \in Tasks : pc[t] \in {"prewarm", "create"} => Len(conns) < maxConns
  /\ \A t \in Tasks : pc[t] = "prewarm" => Len(conns) = warmed
  /\ holder = Nobody => warmed = 0

PoolOK == TypeOK /\ MutexOK

\* record_success and record_failure keep the types; the limit never grows.
LEMMA Recorded ==
  ASSUME TypeOK, record_success \/ record_failure
  PROVE  /\ maxConns' \in 0 .. MaxConns /\ maxConns' <= maxConns
         /\ health' \in {Healthy, Degraded, Unhealthy}
         /\ failures' \in 0 .. OpenAt
         /\ age' \in 0 .. RecoverAfter + 1
         /\ record_success => maxConns' = maxConns
<1>1. /\ MaxConns \in Nat /\ OpenAt \in Nat /\ RecoverAfter \in Nat /\ maxConns \in Nat
  BY MaxConnsAssumption, ThresholdsAssumption, RecoverAssumption DEF TypeOK
<1>2. AtLeastOne(maxConns) \div 2 \in Nat /\ AtLeastOne(maxConns) \div 2 <= maxConns
  BY <1>1 DEF AtLeastOne
<1>3. CASE record_success
  BY <1>1, <1>3 DEF record_success, TypeOK
<1>4. CASE record_failure
  <2> DEFINE half == AtLeastOne(maxConns) \div 2
  <2>1. half \in Nat /\ half <= maxConns
    BY <1>2
  <2>2. maxConns' = half \/ maxConns' = maxConns
    BY <1>4 DEF record_failure
  <2> HIDE DEF half
  <2>3. maxConns' \in 0 .. MaxConns /\ maxConns' <= maxConns
    BY <1>1, <2>1, <2>2 DEF TypeOK
  <2>4. failures' \in 0 .. OpenAt /\ health' \in {Healthy, Degraded, Unhealthy} /\ age' = age
    BY <1>1, <1>4 DEF record_failure, TypeOK
  <2>5. record_success => maxConns' = maxConns
    BY DEF record_success
  <2> QED
    BY <2>3, <2>4, <2>5 DEF TypeOK
<1> QED
  BY <1>3, <1>4

\* The least offset exists: intervals are well-founded under inclusion.
LEMMA FirstIn == ASSUME NEW S \in SUBSET Nat, S # {} PROVE First(S) \in S
<1> DEFINE Below(i) == 1 .. i
           Intervals == {Below(i) : i \in S}
<1>1. Intervals \subseteq FiniteSubsetsOf(Nat)
  BY FS_Interval DEF FiniteSubsetsOf
<1>2. PICK R \in Intervals : \A T \in Intervals : <<T, R>> \notin StrictSubsetOrdering(Nat)
  <2>1. Intervals # {}
    BY Zenon
  <2>2. IsWellFoundedOn(StrictSubsetOrdering(Nat), FiniteSubsetsOf(Nat))
    BY FS_StrictSubsetOrderingWellFounded
  <2> HIDE DEF Intervals
  <2> QED
    BY <1>1, <2>1, <2>2, WFMin
<1>3. PICK i \in S : R = Below(i)
  OBVIOUS
<1>4. ASSUME NEW j \in S, j < i PROVE FALSE
  <2>1. i \in Below(i) /\ i \notin Below(j)
    BY <1>4
  <2>2. Below(j) \subseteq Below(i) /\ Below(j) # Below(i) /\ Below(i) \in SUBSET Nat
    BY <1>4, <2>1
  <2> HIDE DEF Below
  <2> QED
    BY <1>2, <1>3, <2>2, Zenon DEF StrictSubsetOrdering
<1>5. \A j \in S : i <= j
  BY <1>4
<1> QED
  BY <1>5, Zenon DEF First

\* The mutex is released: nobody uses the pool.
LEMMA Released ==
  ASSUME PoolOK, NEW t \in Tasks, Finish(t) \/ (Send(t) /\ holder = t)
  PROVE  /\ holder' \in Tasks \cup {Nobody} /\ warmed' \in 0 .. MaxConns
         /\ pc' \in [Tasks -> {"idle", "lock", "prewarm", "get", "create", "send", "http1"}]
         /\ \A u \in Tasks : pc'[u] \in Using => pc'[u] = pc[u] /\ holder' = u /\ warmed' = warmed
         /\ holder' = Nobody => warmed' = 0
<1>1. MaxConns \in Nat
  BY MaxConnsAssumption
<1> QED
  BY <1>1, NobodyAssumption DEF PoolOK, MutexOK, TypeOK, Finish, Send, Goto, Using

\* A step that neither adds a connection nor changes who uses the pool, other
\* than by releasing it.
LEMMA PoolReleased ==
  ASSUME PoolOK, NEW t \in Tasks, Finish(t) \/ (Send(t) /\ holder = t), pc[t] \in Using => holder = t,
         created' \in BOOLEAN, next' \in Nat, protocol' \in {"unknown", "http1"},
         conns' \in Seq(BOOLEAN), maxConns' \in 0 .. MaxConns, health' \in {Healthy, Degraded, Unhealthy},
         failures' \in 0 .. OpenAt, age' \in 0 .. RecoverAfter + 1,
         UNCHANGED <<conns, maxConns>> \/ holder = t
  PROVE  PoolOK'
<1>1. /\ holder' \in Tasks \cup {Nobody} /\ warmed' \in 0 .. MaxConns
      /\ pc' \in [Tasks -> {"idle", "lock", "prewarm", "get", "create", "send", "http1"}]
      /\ \A u \in Tasks : pc'[u] \in Using => pc'[u] = pc[u] /\ holder' = u /\ warmed' = warmed
      /\ holder' = Nobody => warmed' = 0
  BY Released
<1>2. TypeOK'
  BY <1>1 DEF TypeOK
<1>3. ASSUME NEW u \in Tasks, pc'[u] \in Using PROVE UNCHANGED <<conns, maxConns>> /\ pc[u] = pc'[u] /\ warmed' = warmed
  <2>1. holder' = u /\ holder' # Nobody
    BY <1>1, <1>3, NobodyAssumption
  <2>2. holder # t
    BY <2>1 DEF Finish, Send
  <2> QED
    BY <1>1, <1>3, <2>2
<1>4. MutexOK'
  BY <1>1, <1>3 DEF PoolOK, MutexOK, Using
<1> QED
  BY <1>2, <1>4 DEF PoolOK

\* Steps of a task before it has the pool to itself, and while it prewarms it.
LEMMA Enters ==
  ASSUME PoolOK, NEW t \in Tasks, Start(t) \/ Lock(t) \/ Fallback(t) \/ Prewarm(t)
  PROVE  PoolOK'
<1>1. /\ MaxConns \in Nat /\ Len(conns) \in Nat /\ maxConns \in Nat /\ conns \in Seq(BOOLEAN) /\ warmed \in Nat
  BY MaxConnsAssumption DEF PoolOK, TypeOK
<1>2. CASE Start(t) \/ Fallback(t)
  BY <1>2 DEF PoolOK, TypeOK, MutexOK, Using, Start, Fallback, Goto, pool, circuit
<1>3. CASE Lock(t)
  <2>1. \A u \in Tasks : pc[u] \notin Using
    BY <1>3, NobodyAssumption DEF Lock, PoolOK, MutexOK
  <2>2. conns = << >> => Len(conns) = 0
    OBVIOUS
  <2>3. TypeOK'
    BY <1>3 DEF PoolOK, TypeOK, Lock, Goto, circuit
  <2>4. MutexOK'
    BY <1>1, <1>3, <2>1, <2>2, NobodyAssumption DEF PoolOK, TypeOK, MutexOK, Using, Lock, Goto, circuit
  <2> QED
    BY <2>3, <2>4 DEF PoolOK
<1>4. CASE PrewarmOk(t)
  <2>1. /\ record_success /\ holder = t /\ Len(conns) < maxConns /\ Len(conns) = warmed
        /\ \A u \in Tasks \ {t} : pc[u] \notin Using
    BY <1>4 DEF PrewarmOk, PoolOK, MutexOK, Using
  <2>2. conns' \in Seq(BOOLEAN) /\ Len(conns') = Len(conns) + 1
    BY <1>1, <1>4 DEF PrewarmOk
  <2>3. warmed' = warmed + 1 /\ maxConns' = maxConns /\ warmed' \in 0 .. MaxConns
    BY <1>1, <1>4, <2>1 DEF PrewarmOk, record_success, PoolOK, TypeOK
  <2>4. TypeOK'
    <3>1. pc' \in [Tasks -> {"idle", "lock", "prewarm", "get", "create", "send", "http1"}]
      BY <1>4 DEF PrewarmOk, Goto, PoolOK, TypeOK
    <3>2. UNCHANGED <<created, next, holder, protocol>>
      BY <1>4 DEF PrewarmOk
    <3> QED
      BY <2>1, <2>2, <2>3, <3>1, <3>2, Recorded DEF PoolOK, TypeOK
  <2>5. MutexOK'
    <3>1. \A u \in Tasks : pc'[u] \in Using => u = t
      BY <1>4, <2>1 DEF PrewarmOk, Goto, PoolOK, TypeOK
    <3>2. pc'[t] \in {"prewarm", "get"} /\ (pc'[t] = "prewarm" => warmed' # maxConns)
      BY <1>4 DEF PrewarmOk, Goto, PoolOK, TypeOK
    <3>3. pc'[t] = "prewarm" => Len(conns') = warmed' /\ Len(conns') < maxConns'
      BY <1>1, <2>1, <2>2, <2>3, <3>2
    <3>4. holder' = t /\ t # Nobody
      BY <1>4, <2>1, NobodyAssumption DEF PrewarmOk
    <3> QED
      BY <3>1, <3>2, <3>3, <3>4 DEF MutexOK, Using
  <2> QED
    BY <2>4, <2>5 DEF PoolOK
<1>5. CASE PrewarmFails(t)
  <2>1. /\ record_failure /\ holder = t
        /\ \A u \in Tasks \ {t} : pc[u] \notin Using
    BY <1>5 DEF PrewarmFails, PoolOK, MutexOK, Using
  <2>2. /\ pc' = [pc EXCEPT ![t] = "get"]
        /\ UNCHANGED <<created, conns, next, holder, warmed, protocol>>
    BY <1>5 DEF PrewarmFails, Goto
  <2>3. TypeOK'
    BY <2>1, <2>2, Recorded DEF PoolOK, TypeOK
  <2>4. MutexOK'
    BY <2>1, <2>2, NobodyAssumption DEF PoolOK, TypeOK, MutexOK, Using
  <2> QED
    BY <2>3, <2>4 DEF PoolOK
<1> QED
  BY <1>2, <1>3, <1>4, <1>5 DEF Prewarm

\* get_connection, the attempt to connect, and the end of the request.
LEMMA Gets ==
  ASSUME PoolOK, NEW t \in Tasks, Get(t) \/ Create(t) \/ Response(t) \/ Cancel(t)
  PROVE  PoolOK'
<1>1. pc[t] \in Using => holder = t
  BY DEF PoolOK, MutexOK
<1>2. Recover => /\ maxConns' = maxConns /\ age' = age /\ health' \in {Healthy, Degraded, Unhealthy}
                 /\ failures' \in 0 .. OpenAt
  BY ThresholdsAssumption DEF PoolOK, TypeOK, Recover
<1>3. CASE GetRefused(t) \/ Response(t) \/ Cancel(t)
  BY <1>1, <1>3, PoolReleased, ZenonT(30) DEF GetRefused, Response, Cancel, pool, circuit, PoolOK, TypeOK
<1>4. CASE NoCapacity(t)
  BY <1>1, <1>2, <1>4, PoolReleased, SMTT(30) DEF NoCapacity, Using, PoolOK, TypeOK
<1>5. CASE GetReady(t)
  <2>1. next' \in Nat
    <3>1. conns \in Seq(BOOLEAN) /\ Len(conns) \in Nat /\ next \in Nat
      BY DEF PoolOK, TypeOK
    <3>2. Ready \in SUBSET Nat /\ Ready # {} /\ Len(conns) > 0
      BY <1>5, <3>1 DEF GetReady, Ready
    <3>3. First(Ready) \in Nat
      BY <3>2, FirstIn, Zenon
    <3> QED
      BY <1>5, <3>1, <3>2, <3>3, SMTT(30) DEF GetReady
  <2> QED
    BY <1>1, <1>2, <1>5, <2>1, PoolReleased DEF GetReady, Using, PoolOK, TypeOK
<1>6. CASE GetCreate(t)
  <2>1. TypeOK'
    BY <1>2, <1>6 DEF GetCreate, Goto, PoolOK, TypeOK
  <2>2. MutexOK'
    BY <1>1, <1>2, <1>6 DEF GetCreate, Goto, PoolOK, TypeOK, MutexOK, Using
  <2> QED
    BY <2>1, <2>2 DEF PoolOK
<1>7. CASE CreateOk(t)
  <2>1. conns' \in Seq(BOOLEAN)
    BY <1>7 DEF CreateOk, PoolOK, TypeOK
  <2> QED
    BY <1>1, <1>7, <2>1, Recorded, PoolReleased, Zenon DEF CreateOk, Using, PoolOK, TypeOK
<1>8. CASE CreateFails(t)
  BY <1>1, <1>8, Recorded, PoolReleased DEF CreateFails, Using, PoolOK, TypeOK
<1> QED
  BY <1>3, <1>4, <1>5, <1>6, <1>7, <1>8 DEF Get, Create

\* Every step keeps the types and the mutex.
LEMMA PoolStep == PoolOK /\ [Next]_vars => PoolOK'
<1> SUFFICES ASSUME PoolOK, [Next]_vars PROVE PoolOK'
  OBVIOUS
<1>1. CASE Tick
  <2>1. age' \in 0 .. RecoverAfter + 1
    BY <1>1, RecoverAssumption DEF Tick, PoolOK, TypeOK
  <2> QED
    BY <1>1, <2>1 DEF Tick, PoolOK, TypeOK, MutexOK
<1>2. ASSUME NEW i \in DOMAIN conns, ConnDies(i) PROVE PoolOK'
  <2>1. conns' \in Seq(BOOLEAN) /\ Len(conns') = Len(conns)
    BY <1>2 DEF ConnDies, PoolOK, TypeOK
  <2> QED
    BY <1>2, <2>1 DEF ConnDies, circuit, PoolOK, TypeOK, MutexOK
<1>3. CASE UNCHANGED vars
  BY <1>3 DEF vars, PoolOK, TypeOK, MutexOK
<1> QED
  BY <1>1, <1>2, <1>3, Enters, Gets DEF Next, End

\* At first nobody uses the pool.
LEMMA PoolInit == Init => PoolOK
<1> SUFFICES ASSUME Init PROVE PoolOK
  OBVIOUS
<1>1. MaxConns \in 0 .. MaxConns /\ 0 \in 0 .. MaxConns /\ 0 \in 0 .. OpenAt /\ 0 \in 0 .. RecoverAfter + 1
  BY MaxConnsAssumption, ThresholdsAssumption, RecoverAssumption
<1>2. TypeOK
  <2>1. created \in BOOLEAN /\ protocol \in {"unknown", "http1"} /\ holder \in Tasks \cup {Nobody}
    BY Zenon DEF Init
  <2>2. pc \in [Tasks -> {"idle", "lock", "prewarm", "get", "create", "send", "http1"}] /\ conns \in Seq(BOOLEAN)
    BY DEF Init
  <2>3. /\ next \in Nat /\ maxConns \in 0 .. MaxConns /\ failures \in 0 .. OpenAt /\ age \in 0 .. RecoverAfter + 1
        /\ warmed \in 0 .. MaxConns /\ health \in {Healthy, Degraded, Unhealthy}
    BY <1>1 DEF Init
  <2> QED
    BY <2>1, <2>2, <2>3, Zenon DEF TypeOK
<1>3. MutexOK
  BY DEF Init, MutexOK, Using
<1> QED
  BY <1>2, <1>3 DEF PoolOK

(***************************************************************************)
(* The pool and the tasks have their types, for any limits and tasks.      *)
(***************************************************************************)
THEOREM PoolTypes == Spec => []TypeOK
<1>1. PoolOK => TypeOK
  BY DEF PoolOK
<1> QED
  BY <1>1, PoolInit, PoolStep, PTL DEF Spec

(***************************************************************************)
(* get_connection and record_failure: a pool whose connections are closed  *)
(* and as many as its limit stays without capacity, since no connection is *)
(* ever removed and the limit never grows; and no attempt that began       *)
(* before can still add one, since the worker's mutex is held from the     *)
(* check of the capacity to the end of the attempt.                        *)
(***************************************************************************)
THEOREM StaysExhausted == Spec => ExhaustedForGood
<1>1. PoolOK /\ [Next]_vars => [Exhausted => Exhausted']_vars
  <2> SUFFICES ASSUME PoolOK, [Next]_vars, Exhausted PROVE Exhausted'
    BY DEF vars
  <2>1. conns \in Seq(BOOLEAN) /\ Len(conns) \in Nat /\ maxConns \in Nat
    BY DEF PoolOK, TypeOK
  <2>2. ASSUME NEW t \in Tasks PROVE ~ PrewarmOk(t) /\ ~ CreateOk(t)
    <3>1. pc[t] \notin {"prewarm", "create"}
      BY <2>1 DEF PoolOK, MutexOK, Exhausted
    <3> QED
      BY <3>1, Zenon DEF PrewarmOk, CreateOk
  <2>3. conns' = conns
    BY <2>2, Zenon DEF Next, Exhausted, Tick, ConnDies, Start, Lock, Prewarm, PrewarmFails, Get, GetRefused, GetReady,
                GetCreate, NoCapacity, Create, CreateFails, End, Response, Fallback, Cancel, pool, vars
  <2>4. created' = created \/ created' = TRUE
    BY Zenon DEF Next, Tick, ConnDies, Start, Lock, Prewarm, PrewarmOk, PrewarmFails, Get, GetRefused, GetReady,
           GetCreate, NoCapacity, Create, CreateOk, CreateFails, End, Response, Fallback, Cancel, pool, vars
  <2>5. maxConns' = maxConns \/ record_failure
    BY <2>2, Zenon DEF Next, Tick, ConnDies, Start, Lock, Prewarm, PrewarmFails, Get, GetRefused, GetReady,
                GetCreate, NoCapacity, Create, CreateFails, End, Response, Fallback, Cancel, Recover, pool, circuit, vars
  <2>6. maxConns' \in Nat /\ maxConns' <= maxConns
    BY <2>1, <2>5, Recorded DEF PoolOK
  <2>7. created'
    BY <2>4, Zenon DEF Exhausted
  <2> QED
    BY <2>1, <2>3, <2>6, <2>7 DEF Exhausted
<1> QED
  BY <1>1, PoolInit, PoolStep, PTL DEF Spec, ExhaustedForGood
=============================================================================
