---------------------------- MODULE HealthProofs ----------------------------
(***************************************************************************)
(* Theorems about the two kinds of health that select_backend asks for:    *)
(* passive health (BackendHealth), for any backends, tasks and size of the *)
(* window, and active checking (HealthChecker), for any loops and any      *)
(* thresholds.  The writers of passive health race; what holds whatever    *)
(* they lose, and what holds when they happen not to overlap, is shown     *)
(* apart.  The two share no state.                                         *)
(***************************************************************************)
EXTENDS BackendHealth, HealthChecker, FiniteSetTheorems, TLAPS

Window == {w \in Seq(BOOLEAN) : Len(w) <= WindowSize}

Snap == [window : [Backends -> Window], deadline : [Backends -> Nat]]

Places == {"idle", "inflight"} \cup Writing

\* The types; a task that has a backend has one of the route.
HealthOK ==
  /\ health \in Snap
  /\ clock \in Nat
  /\ pc \in [Tasks -> Places]
  /\ DOMAIN target = Tasks
  /\ target = [t \in Tasks |-> target[t]]
  /\ \A t \in Tasks : pc[t] \in {"inflight", "ok", "error"} => target[t] \in Backends
  /\ copy \in [Tasks -> Snap]
  /\ responses \in [Backends -> 0 .. WindowSize]
  /\ errors \in [Backends -> 0 .. WindowSize]
  /\ raced \in BOOLEAN
  /\ excluded \subseteq Backends

-----------------------------------------------------------------------------
\* The errors of a window are at most its responses.
LEMMA ErrorsInWindow ==
  ASSUME NEW w \in Seq(BOOLEAN)
  PROVE  /\ {i \in DOMAIN w : w[i]} \subseteq 1 .. Len(w)
         /\ IsFiniteSet({i \in DOMAIN w : w[i]})
         /\ ErrorCount(w) \in Nat /\ ErrorCount(w) <= Len(w)
<1> DEFINE E == {i \in DOMAIN w : w[i]}
<1>1. E \subseteq 1 .. Len(w) /\ Len(w) \in Nat
  OBVIOUS
<1>2. IsFiniteSet(1 .. Len(w)) /\ Cardinality(1 .. Len(w)) = Len(w)
  <2>1. \A n \in Nat : IsFiniteSet(1 .. n) /\ Cardinality(1 .. n) = n
    BY FS_Interval
  <2>2. QED
    BY <1>1, <2>1
<1>3. IsFiniteSet(E) /\ Cardinality(E) <= Len(w)
  BY <1>1, <1>2, FS_Subset
<1>4. Cardinality(E) \in Nat
  BY <1>3, FS_CardinalityType
<1>5. QED
  BY <1>1, <1>3, <1>4 DEF ErrorCount

\* The oldest response takes at most its own error along.
LEMMA ErrorsOfTail ==
  ASSUME NEW w \in Seq(BOOLEAN), w # << >>
  PROVE  ErrorCount(Tail(w)) <= ErrorCount(w)
<1> DEFINE E == {i \in DOMAIN w : w[i]}
           F == {i \in DOMAIN Tail(w) : Tail(w)[i]}
           next == [i \in F |-> i + 1]
<1>1. Tail(w) \in Seq(BOOLEAN) /\ Len(Tail(w)) = Len(w) - 1 /\ Len(w) \in Nat
  OBVIOUS
<1>2. \A i \in 1 .. Len(w) - 1 : Tail(w)[i] = w[i + 1]
  OBVIOUS
<1>3. \A i \in F : i \in Nat /\ i + 1 \in E
  BY <1>1, <1>2
<1>4. next \in Injection(F, E)
  BY <1>3 DEF Injection, IsInjective
<1>5. IsFiniteSet(E)
  BY ErrorsInWindow
<1>6. Cardinality(F) <= Cardinality(E)
  BY <1>4, <1>5, FS_Injection, Zenon
<1>7. QED
  BY <1>6, Zenon DEF ErrorCount

\* A new response adds an error when it is one.
LEMMA ErrorsOfAppend ==
  ASSUME NEW w \in Seq(BOOLEAN), NEW e \in BOOLEAN
  PROVE  ErrorCount(Append(w, e)) = IF e THEN ErrorCount(w) + 1 ELSE ErrorCount(w)
<1> DEFINE E == {i \in DOMAIN w : w[i]}
           F == {i \in DOMAIN Append(w, e) : Append(w, e)[i]}
           n == Len(w) + 1
<1>1. /\ Append(w, e) \in Seq(BOOLEAN) /\ Len(Append(w, e)) = n /\ Len(w) \in Nat
      /\ DOMAIN w = 1 .. Len(w) /\ DOMAIN Append(w, e) = 1 .. n
      /\ Append(w, e)[n] = e /\ \A i \in 1 .. Len(w) : Append(w, e)[i] = w[i]
  OBVIOUS
<1>2. IsFiniteSet(E) /\ n \notin E
  BY <1>1, ErrorsInWindow
<1>3. CASE e
  <2>1. F = E \cup {n}
    BY <1>1, <1>3
  <2>2. QED
    BY <1>2, <1>3, <2>1, FS_AddElement, Zenon DEF ErrorCount
<1>4. CASE ~ e
  <2>1. F = E
    BY <1>1, <1>4
  <2>2. QED
    BY <1>4, <2>1, Zenon DEF ErrorCount
<1>5. QED
  BY <1>3, <1>4

\* What record_response does to a window: it counts the response, and the error,
\* as far as the window reaches.
LEMMA Recorded ==
  ASSUME NEW w \in Window, NEW code \in Statuses
  PROVE  /\ record_response(w, code) \in Window
         /\ Len(record_response(w, code)) = Count(Len(w))
         /\ code = "5xx" => ErrorCount(record_response(w, code)) <= ErrorCount(w) + 1
         /\ code # "5xx" => ErrorCount(record_response(w, code)) <= ErrorCount(w)
<1> DEFINE kept == IF Len(w) = WindowSize THEN Tail(w) ELSE w
<1>1. w \in Seq(BOOLEAN) /\ Len(w) \in Nat /\ Len(w) <= WindowSize /\ WindowSize \in Nat \ {0}
  BY WindowSizeAssumption DEF Window
<1>2. /\ kept \in Seq(BOOLEAN) /\ ErrorCount(kept) <= ErrorCount(w)
      /\ Len(kept) = IF Len(w) = WindowSize THEN WindowSize - 1 ELSE Len(w)
  <2>1. CASE Len(w) = WindowSize
    <3>1. w # << >>
      BY <1>1, <2>1
    <3>2. Tail(w) \in Seq(BOOLEAN) /\ Len(Tail(w)) = Len(w) - 1
      BY <1>1, <3>1
    <3>3. QED
      BY <1>1, <2>1, <3>1, <3>2, ErrorsOfTail
  <2>2. CASE Len(w) # WindowSize
    <3>1. kept = w
      BY <2>2
    <3>2. ErrorCount(w) <= ErrorCount(w)
      <4>1. ErrorCount(w) \in Nat
        BY <1>1, ErrorsInWindow, Zenon
      <4>2. QED
        BY <4>1
    <3>3. QED
      BY <1>1, <2>2, <3>1, <3>2
  <2>3. QED
    BY <2>1, <2>2
<1>3. is_error(code) \in BOOLEAN /\ (is_error(code) <=> code = "5xx")
  BY DEF is_error
<1>4. record_response(w, code) = Append(kept, is_error(code))
  BY DEF record_response
<1> HIDE DEF kept
<1>5. /\ Append(kept, is_error(code)) \in Seq(BOOLEAN)
      /\ Len(Append(kept, is_error(code))) = Len(kept) + 1
  BY <1>2, <1>3
<1>6. Len(kept) + 1 = Count(Len(w)) /\ Count(Len(w)) <= WindowSize
  BY <1>1, <1>2 DEF Count
<1>7. ErrorCount(kept) \in Nat /\ ErrorCount(w) \in Nat
  BY <1>1, <1>2, ErrorsInWindow, Zenon
<1>8. ErrorCount(Append(kept, is_error(code))) = IF is_error(code) THEN ErrorCount(kept) + 1 ELSE ErrorCount(kept)
  BY <1>2, <1>3, ErrorsOfAppend
<1>9. QED
  BY <1>2, <1>3, <1>4, <1>5, <1>6, <1>7, <1>8 DEF Window

-----------------------------------------------------------------------------
\* The load half of a writer: the clone differs from the snapshot in the window
\* of the backend whose response is recorded, or in no window.
Loaded(t, l, b, new, code) ==
  /\ pc[t] \in {"idle", "inflight"} /\ l \in Writing /\ new \in Snap
  /\ IF l \in {"ok", "error"}
     THEN /\ pc[t] = "inflight" /\ b = target[t] /\ code \in Statuses /\ (code = "5xx" <=> l = "error")
          /\ new.window = [health.window EXCEPT ![b] = record_response(health.window[b], code)]
     ELSE new.window = health.window
  /\ Prepare(t, pc[t], b, l, new)

\* Every load half is one.
LEMMA Loads ==
  ASSUME HealthOK, NEW t \in Tasks,
         \/ \E code \in Statuses : RecordLoad(t, code)
         \/ \E b \in Drainable : DrainLoad(t, b)
         \/ CleanupLoad(t)
  PROVE  \E l, b, new, code : Loaded(t, l, b, new, code)
<1>0. health \in Snap /\ health.window \in [Backends -> Window] /\ health.deadline \in [Backends -> Nat]
  BY DEF HealthOK, Snap
<1>1. ASSUME NEW code \in Statuses, RecordLoad(t, code) PROVE \E l, b, new, s : Loaded(t, l, b, new, s)
  <2> DEFINE b == target[t]
             l == IF code = "5xx" THEN "error" ELSE "ok"
             new == [health EXCEPT !.window[b] = record_response(@, code)]
  <2>1. pc[t] = "inflight" /\ Prepare(t, pc[t], b, l, new)
    BY <1>1 DEF RecordLoad, Prepare
  <2>2. b \in Backends
    BY <2>1 DEF HealthOK
  <2>3. record_response(health.window[b], code) \in Window
    BY <1>0, <2>2, Recorded
  <2>4. new.window = [health.window EXCEPT ![b] = record_response(health.window[b], code)] /\ new \in Snap
    BY <1>0, <2>2, <2>3 DEF Snap
  <2>5. l \in Writing /\ l \in {"ok", "error"} /\ (code = "5xx" <=> l = "error")
    BY DEF Writing
  <2>6. Loaded(t, l, b, new, code)
    BY <2>1, <2>4, <2>5 DEF Loaded
  <2>7. QED
    BY <2>6
<1>2. ASSUME NEW b \in Drainable, DrainLoad(t, b) PROVE \E l, c, new, code : Loaded(t, l, c, new, code)
  <2> DEFINE new == [health EXCEPT !.deadline[b] = clock + DrainTimeout]
  <2>1. pc[t] = "idle" /\ Prepare(t, pc[t], b, "drain", new)
    BY <1>2 DEF DrainLoad, Prepare
  <2>2. clock + DrainTimeout \in Nat
    BY DrainTimeoutAssumption DEF HealthOK
  <2>3. new.window = health.window /\ new \in Snap
    BY <1>0, <2>2 DEF Snap
  <2>4. Loaded(t, "drain", b, new, "2xx")
    BY <2>1, <2>3 DEF Loaded, Writing
  <2>5. QED
    BY <2>4
<1>3. CASE CleanupLoad(t)
  <2> DEFINE new == [health EXCEPT !.deadline =
                       [b \in Backends |-> IF @[b] # NotDraining /\ is_expired(@[b]) THEN NotDraining ELSE @[b]]]
  <2>1. pc[t] = "idle" /\ Prepare(t, pc[t], target[t], "cleanup", new)
    BY <1>3 DEF CleanupLoad, Prepare
  <2>2. new.window = health.window /\ new \in Snap
    BY <1>0 DEF Snap, NotDraining
  <2>3. Loaded(t, "cleanup", target[t], new, "2xx")
    BY <2>1, <2>2 DEF Loaded, Writing
  <2>4. QED
    BY <2>3
<1>4. QED
  BY <1>1, <1>2, <1>3

\* A step is a load or a store half, a selection, or leaves all but the clock
\* alone.
LEMMA Steps ==
  ASSUME HealthOK, [Next]_vars
  PROVE  \/ \E t \in Tasks : \E l, b, new, code : Loaded(t, l, b, new, code)
         \/ \E t \in Tasks : Store(t)
         \/ \E t \in Tasks, up \in SUBSET Backends, b \in Backends : Select(t, up, b)
         \/ UNCHANGED <<health, pc, target, copy, responses, errors, raced, excluded>>
<1>1. CASE Tick \/ UNCHANGED vars
  BY <1>1 DEF Tick, vars
<1>2. ASSUME NEW t \in Tasks, NEW up \in SUBSET Backends, SelectNone(t, up) PROVE UNCHANGED vars
  BY <1>2 DEF SelectNone
<1>3. QED
  BY <1>1, <1>2, Loads DEF Next

\* What a load changes.
LEMMA LoadedEffect ==
  ASSUME HealthOK, NEW t \in Tasks, NEW l, NEW b, NEW new, NEW code, Loaded(t, l, b, new, code)
  PROVE  /\ l \in Writing /\ new \in Snap /\ pc[t] \notin Writing
         /\ pc' = [pc EXCEPT ![t] = l] /\ target' = [target EXCEPT ![t] = b] /\ copy' = [copy EXCEPT ![t] = new]
         /\ raced' = (raced \/ \E u \in Tasks : pc[u] \in Writing)
         /\ UNCHANGED <<health, clock, responses, errors, excluded>>
BY DEF Loaded, Prepare, Writing

\* The empty snapshot is one.
LEMMA EmptySnap == EmptyHealth \in Snap /\ \A b \in Backends : EmptyHealth.window[b] = << >>
<1>1. << >> \in Window
  BY WindowSizeAssumption DEF Window
<1>2. QED
  BY <1>1 DEF EmptyHealth, Snap, NotDraining

\* The health map starts empty and no task has a backend.
LEMMA HealthInit == Init => HealthOK
<1> SUFFICES ASSUME Init PROVE HealthOK
  OBVIOUS
<1>1. 0 \in 0 .. WindowSize
  BY WindowSizeAssumption
<1>2. health \in Snap /\ copy \in [Tasks -> Snap]
  BY EmptySnap DEF Init
<1>3. pc \in [Tasks -> Places] /\ \A t \in Tasks : pc[t] \notin {"inflight", "ok", "error"}
  BY DEF Init, Places
<1>4. DOMAIN target = Tasks /\ target = [t \in Tasks |-> target[t]]
  BY DEF Init
<1>5. raced \in BOOLEAN
  BY Zenon DEF Init
<1>6. QED
  BY <1>1, <1>2, <1>3, <1>4, <1>5 DEF Init, HealthOK

\* Every load, store and selection keeps the types.
LEMMA HealthStep == HealthOK /\ [Next]_vars => HealthOK'
<1> SUFFICES ASSUME HealthOK, [Next]_vars PROVE HealthOK'
  OBVIOUS
<1>c. clock' \in Nat
  <2>1. Tick \/ clock' = clock
    BY ZenonT(30) DEF Next, Select, SelectNone, DrainLoad, RecordLoad, CleanupLoad, Prepare, Store, vars
  <2>2. clock \in Nat
    BY Zenon DEF HealthOK
  <2>3. CASE Tick
    BY <2>2, <2>3 DEF Tick
  <2> QED
    BY <2>1, <2>2, <2>3, Zenon
<1>1. ASSUME NEW t \in Tasks, NEW l, NEW b, NEW new, NEW code, Loaded(t, l, b, new, code) PROVE HealthOK'
  <2>1. l \in {"ok", "error"} => b \in Backends
    BY <1>1 DEF Loaded, HealthOK
  <2>2. raced' \in BOOLEAN
    BY <1>1, LoadedEffect, Zenon
  <2>3. pc' \in [Tasks -> Places] /\ copy' \in [Tasks -> Snap]
    BY <1>1, LoadedEffect DEF HealthOK, Places
  <2>4. DOMAIN target' = Tasks /\ target' = [u \in Tasks |-> target'[u]]
    BY <1>1, LoadedEffect DEF HealthOK
  <2>5. \A u \in Tasks : pc'[u] \in {"inflight", "ok", "error"} => target'[u] \in Backends
    BY <1>1, <2>1, LoadedEffect DEF HealthOK, Writing
  <2>6. QED
    BY <1>c, <1>1, <2>2, <2>3, <2>4, <2>5, LoadedEffect DEF HealthOK
<1>2. ASSUME NEW t \in Tasks, Store(t) PROVE HealthOK'
  <2>1. /\ pc' = [pc EXCEPT ![t] = "idle"] /\ health' = copy[t] /\ raced' = raced
        /\ target' = [target EXCEPT ![t] = CHOOSE b \in Backends : TRUE]
        /\ copy' = [copy EXCEPT ![t] = EmptyHealth]
    BY <1>2 DEF Store
  <2>2. responses' \in [Backends -> 0 .. WindowSize] /\ errors' \in [Backends -> 0 .. WindowSize]
    <3>1. \A n \in 0 .. WindowSize : Count(n) \in 0 .. WindowSize
      BY WindowSizeAssumption DEF Count
    <3>2. QED
      BY <1>2, <3>1, Zenon DEF Store, HealthOK
  <2>3. excluded' \subseteq Backends
    BY <1>2 DEF Store, HealthOK
  <2>4. health' \in Snap /\ copy' \in [Tasks -> Snap] /\ pc' \in [Tasks -> Places]
    BY <2>1, EmptySnap DEF HealthOK, Places
  <2>5. \A u \in Tasks : pc'[u] \in {"inflight", "ok", "error"} => target'[u] \in Backends
    BY <2>1 DEF HealthOK
  <2>6. DOMAIN target' = Tasks /\ target' = [u \in Tasks |-> target'[u]]
    BY <2>1, Zenon DEF HealthOK
  <2>7. raced' \in BOOLEAN
    BY <2>1 DEF HealthOK
  <2>8. QED
    BY <1>c, <2>2, <2>3, <2>4, <2>5, <2>6, <2>7 DEF HealthOK
<1>3. ASSUME NEW t \in Tasks, NEW up \in SUBSET Backends, NEW b \in Backends, Select(t, up, b) PROVE HealthOK'
  BY <1>c, <1>3 DEF Select, HealthOK, Places
<1>4. CASE UNCHANGED <<health, pc, target, copy, responses, errors, raced, excluded>>
  BY <1>c, <1>4 DEF HealthOK
<1>5. QED
  BY <1>1, <1>2, <1>3, <1>4, Steps

-----------------------------------------------------------------------------
\* A writer adds at most the error of the response that it records, to errors
\* that the snapshot had when it was loaded, and these do not grow fewer.
ErrorsOK ==
  \A b \in Backends :
    /\ ErrorCount(health.window[b]) <= errors[b]
    /\ \A t \in Tasks : pc[t] \in Writing =>
         ErrorCount(copy[t].window[b]) <= IF pc[t] = "error" /\ target[t] = b THEN Count(errors[b]) ELSE errors[b]

\* The types that the comparisons of counters need.
LEMMA WindowCounts ==
  ASSUME HealthOK, NEW b \in Backends
  PROVE  /\ health.window[b] \in Window
         /\ \A t \in Tasks : copy[t].window[b] \in Window
         /\ ErrorCount(health.window[b]) \in Nat /\ Len(health.window[b]) \in 0 .. WindowSize
         /\ \A t \in Tasks : ErrorCount(copy[t].window[b]) \in Nat
         /\ errors[b] \in 0 .. WindowSize /\ responses[b] \in 0 .. WindowSize
         /\ WindowSize \in Nat
<1>1. health.window[b] \in Window /\ \A t \in Tasks : copy[t].window[b] \in Window
  BY DEF HealthOK, Snap
<1>2. ASSUME NEW w \in Window PROVE ErrorCount(w) \in Nat /\ Len(w) \in 0 .. WindowSize
  <2>1. w \in Seq(BOOLEAN) /\ Len(w) \in Nat /\ Len(w) <= WindowSize
    BY DEF Window
  <2>2. ErrorCount(w) \in Nat
    BY <2>1, ErrorsInWindow, ZenonT(30)
  <2>3. QED
    BY <2>1, <2>2, WindowSizeAssumption
<1>3. QED
  BY <1>1, <1>2, WindowSizeAssumption DEF HealthOK

\* Every step keeps the recorded errors within those counted.
LEMMA ErrorsStep == HealthOK /\ ErrorsOK /\ [Next]_vars => ErrorsOK'
<1> SUFFICES ASSUME HealthOK, ErrorsOK, [Next]_vars, NEW b \in Backends
             PROVE  /\ ErrorCount(health'.window[b]) <= errors'[b]
                    /\ \A u \in Tasks : pc'[u] \in Writing =>
                         ErrorCount(copy'[u].window[b]) <=
                           IF pc'[u] = "error" /\ target'[u] = b THEN Count(errors'[b]) ELSE errors'[b]
  BY Zenon DEF ErrorsOK
<1>0. /\ ErrorCount(health.window[b]) \in Nat /\ errors[b] \in 0 .. WindowSize /\ WindowSize \in Nat
      /\ \A t \in Tasks : ErrorCount(copy[t].window[b]) \in Nat
  BY WindowCounts
<1>1. ASSUME NEW t \in Tasks, NEW l, NEW c, NEW new, NEW code, Loaded(t, l, c, new, code)
      PROVE  ErrorCount(new.window[b]) <= IF l = "error" /\ c = b THEN Count(errors[b]) ELSE errors[b]
  <2>1. CASE l \in {"ok", "error"} /\ c = b
    <3> DEFINE w == record_response(health.window[b], code)
    <3>1. new.window[b] = w /\ code \in Statuses /\ (code = "5xx" <=> l = "error")
      BY <1>1, <2>1 DEF Loaded, HealthOK, Snap
    <3>2. w \in Window /\ (code = "5xx" => ErrorCount(w) <= ErrorCount(health.window[b]) + 1)
          /\ (code # "5xx" => ErrorCount(w) <= ErrorCount(health.window[b]))
      BY <3>1, WindowCounts, Recorded
    <3>3. ErrorCount(w) \in Nat /\ ErrorCount(w) <= WindowSize
      <4>1. w \in Seq(BOOLEAN) /\ Len(w) <= WindowSize /\ Len(w) \in Nat
        BY <3>2 DEF Window
      <4>2. ErrorCount(w) \in Nat /\ ErrorCount(w) <= Len(w)
        BY <4>1, ErrorsInWindow, Zenon
      <4>3. QED
        BY <1>0, <4>1, <4>2
    <3>4. ErrorCount(health.window[b]) <= errors[b]
      BY DEF ErrorsOK
    <3> HIDE DEF w
    <3>5. QED
      BY <1>0, <2>1, <3>1, <3>2, <3>3, <3>4 DEF Count
  <2>2. CASE ~ (l \in {"ok", "error"} /\ c = b)
    <3>1. new.window[b] = health.window[b]
      BY <1>1, <2>2 DEF Loaded, HealthOK, Snap
    <3>2. QED
      BY <2>2, <3>1 DEF ErrorsOK
  <2>3. QED
    BY <2>1, <2>2
<1>2. ASSUME NEW t \in Tasks, NEW l, NEW c, NEW new, NEW code, Loaded(t, l, c, new, code)
      PROVE  /\ ErrorCount(health'.window[b]) <= errors'[b]
             /\ \A u \in Tasks : pc'[u] \in Writing =>
                  ErrorCount(copy'[u].window[b]) <=
                    IF pc'[u] = "error" /\ target'[u] = b THEN Count(errors'[b]) ELSE errors'[b]
  <2>1. /\ health' = health /\ errors' = errors /\ pc' = [pc EXCEPT ![t] = l]
        /\ target' = [target EXCEPT ![t] = c] /\ copy' = [copy EXCEPT ![t] = new]
    BY <1>2, LoadedEffect
  <2>2. ErrorCount(new.window[b]) <= IF l = "error" /\ c = b THEN Count(errors[b]) ELSE errors[b]
    BY <1>1, <1>2
  <2>3. QED
    BY <2>1, <2>2 DEF ErrorsOK, HealthOK
<1>3. ASSUME NEW t \in Tasks, Store(t)
      PROVE  /\ ErrorCount(health'.window[b]) <= errors'[b]
             /\ \A u \in Tasks : pc'[u] \in Writing =>
                  ErrorCount(copy'[u].window[b]) <=
                    IF pc'[u] = "error" /\ target'[u] = b THEN Count(errors'[b]) ELSE errors'[b]
  <2>1. /\ health' = copy[t] /\ pc[t] \in Writing /\ pc' = [pc EXCEPT ![t] = "idle"]
        /\ \A u \in Tasks \ {t} : target'[u] = target[u] /\ copy'[u] = copy[u]
        /\ errors'[b] = IF pc[t] = "error" /\ target[t] = b THEN Count(errors[b]) ELSE errors[b]
    BY <1>3 DEF Store, HealthOK
  <2>2. ErrorCount(health'.window[b]) <= errors'[b]
    BY <2>1 DEF ErrorsOK
  <2>3. /\ errors[b] <= errors'[b] /\ errors'[b] \in 0 .. WindowSize
        /\ Count(errors[b]) <= Count(errors'[b]) /\ Count(errors[b]) \in Nat /\ Count(errors'[b]) \in Nat
    BY <1>0, <2>1 DEF Count
  <2>4. ASSUME NEW u \in Tasks, pc'[u] \in Writing
        PROVE  ErrorCount(copy'[u].window[b]) <=
                 IF pc'[u] = "error" /\ target'[u] = b THEN Count(errors'[b]) ELSE errors'[b]
    <3>1. u # t /\ pc'[u] = pc[u] /\ target'[u] = target[u] /\ copy'[u] = copy[u]
      BY <2>1, <2>4 DEF HealthOK, Writing
    <3>2. ErrorCount(copy[u].window[b]) <= IF pc[u] = "error" /\ target[u] = b THEN Count(errors[b]) ELSE errors[b]
      BY <2>4, <3>1 DEF ErrorsOK
    <3>3. /\ ErrorCount(copy[u].window[b]) \in Nat /\ errors[b] \in Nat /\ errors'[b] \in Nat
      BY <1>0, <2>3
    <3>4. CASE pc[u] = "error" /\ target[u] = b
      <4>1. ErrorCount(copy[u].window[b]) <= Count(errors[b])
        BY <3>2, <3>4, Zenon
      <4>2. ErrorCount(copy[u].window[b]) <= Count(errors'[b])
        BY <2>3, <3>3, <4>1
      <4>3. QED
        BY <3>1, <3>4, <4>2, Zenon
    <3>5. CASE ~ (pc[u] = "error" /\ target[u] = b)
      <4>1. ErrorCount(copy[u].window[b]) <= errors[b]
        BY <3>2, <3>5, Zenon
      <4>2. ErrorCount(copy[u].window[b]) <= errors'[b]
        BY <2>3, <3>3, <4>1
      <4>3. QED
        BY <3>1, <3>5, <4>2, Zenon
    <3>6. QED
      BY <3>4, <3>5, Zenon
  <2>5. QED
    BY <2>2, <2>4
<1>4. ASSUME NEW t \in Tasks, NEW up \in SUBSET Backends, NEW c \in Backends, Select(t, up, c)
      PROVE  /\ ErrorCount(health'.window[b]) <= errors'[b]
             /\ \A u \in Tasks : pc'[u] \in Writing =>
                  ErrorCount(copy'[u].window[b]) <=
                    IF pc'[u] = "error" /\ target'[u] = b THEN Count(errors'[b]) ELSE errors'[b]
  BY <1>4 DEF Select, ErrorsOK, HealthOK, Writing
<1>5. CASE UNCHANGED <<health, pc, target, copy, responses, errors, raced, excluded>>
  BY <1>5, Zenon DEF ErrorsOK
<1>6. QED
  BY <1>2, <1>3, <1>4, <1>5, Steps, ZenonT(30)

\* Nothing is recorded or counted at the start.
LEMMA ErrorsInit == Init => ErrorsOK
<1> SUFFICES ASSUME Init, NEW b \in Backends
             PROVE  ErrorCount(health.window[b]) <= errors[b] /\ \A t \in Tasks : pc[t] \notin Writing
  BY DEF ErrorsOK
<1>1. health.window[b] = << >> /\ errors[b] = 0
  BY EmptySnap DEF Init
<1>2. ErrorCount(<< >>) = 0
  <2>1. {i \in DOMAIN << >> : << >>[i]} = {}
    OBVIOUS
  <2>2. QED
    BY <2>1, FS_EmptySet DEF ErrorCount
<1>3. QED
  BY <1>1, <1>2 DEF Init, Writing

\* However the writers race and whatever they lose, a backend is never charged
\* with more errors than its responses had, for any size of the window.
THEOREM NoErrorInvented == Spec => []ErrorsNotInvented
<1>1. ErrorsOK => ErrorsNotInvented
  BY DEF ErrorsOK, ErrorsNotInvented
<1>2. QED
  BY <1>1, HealthInit, HealthStep, ErrorsInit, ErrorsStep, PTL DEF Spec

-----------------------------------------------------------------------------
\* Does a task record a response of the backend?
Recording(t, b) == pc[t] \in {"ok", "error"} /\ target[t] = b

\* Without a race there is one writer, and it stores what it found and the
\* response that it records.
WritesOK ==
  ~ raced =>
    /\ \A t, u \in Tasks : pc[t] \in Writing /\ pc[u] \in Writing => t = u
    /\ \A b \in Backends :
         /\ Len(health.window[b]) >= responses[b]
         /\ \A t \in Tasks : pc[t] \in Writing =>
              Len(copy[t].window[b]) >= IF Recording(t, b) THEN Count(responses[b]) ELSE responses[b]

\* While nothing has raced, every step keeps the windows no shorter than the
\* responses counted.
LEMMA WritesStep == HealthOK /\ WritesOK /\ [Next]_vars => WritesOK'
<1> SUFFICES ASSUME HealthOK, WritesOK, [Next]_vars, ~ raced' PROVE WritesOK'
  BY DEF WritesOK
<1>1. ASSUME NEW t \in Tasks, NEW l, NEW c, NEW new, NEW code, Loaded(t, l, c, new, code) PROVE WritesOK'
  <2>1. /\ pc' = [pc EXCEPT ![t] = l] /\ target' = [target EXCEPT ![t] = c] /\ copy' = [copy EXCEPT ![t] = new]
        /\ raced' = (raced \/ \E u \in Tasks : pc[u] \in Writing)
        /\ health' = health /\ responses' = responses /\ l \in Writing
    BY <1>1, LoadedEffect
  <2>2. ~ raced /\ \A u \in Tasks : pc[u] \notin Writing
    BY <2>1, Zenon
  <2>3. \A u \in Tasks : pc'[u] \in Writing => u = t
    BY <2>1, <2>2 DEF HealthOK
  <2>4. /\ pc'[t] = l /\ target'[t] = c /\ copy'[t] = new
    BY <2>1 DEF HealthOK
  <2>5. ASSUME NEW b \in Backends
        PROVE  Len(new.window[b]) >= IF l \in {"ok", "error"} /\ c = b THEN Count(responses[b]) ELSE responses[b]
    <3>1. Len(health.window[b]) >= responses[b]
      BY <2>2 DEF WritesOK
    <3>2. Len(health.window[b]) \in 0 .. WindowSize /\ responses[b] \in 0 .. WindowSize /\ WindowSize \in Nat
      BY WindowCounts
    <3>3. CASE l \in {"ok", "error"} /\ c = b
      <4>1. new.window[b] = record_response(health.window[b], code) /\ code \in Statuses
        BY <1>1, <3>3 DEF Loaded, HealthOK, Snap
      <4>2. Len(new.window[b]) = Count(Len(health.window[b]))
        BY <4>1, WindowCounts, Recorded
      <4>3. QED
        BY <3>1, <3>2, <3>3, <4>2 DEF Count
    <3>4. CASE ~ (l \in {"ok", "error"} /\ c = b)
      <4>1. new.window[b] = health.window[b]
        BY <1>1, <3>4 DEF Loaded, HealthOK, Snap
      <4>2. QED
        BY <3>1, <3>4, <4>1
    <3>5. QED
      BY <3>3, <3>4
  <2>6. QED
    BY <2>1, <2>2, <2>3, <2>4, <2>5 DEF WritesOK, Recording
<1>2. ASSUME NEW t \in Tasks, Store(t) PROVE WritesOK'
  <2>1. /\ health' = copy[t] /\ pc[t] \in Writing /\ pc' = [pc EXCEPT ![t] = "idle"] /\ ~ raced
        /\ \A b \in Backends : responses'[b] = IF Recording(t, b) THEN Count(responses[b]) ELSE responses[b]
    BY <1>2 DEF Store, HealthOK, Recording
  <2>2. \A u \in Tasks : pc'[u] \notin Writing
    BY <2>1 DEF WritesOK, HealthOK, Writing
  <2>3. \A b \in Backends : Len(health'.window[b]) >= responses'[b]
    BY <2>1, Zenon DEF WritesOK
  <2>4. QED
    BY <2>2, <2>3 DEF WritesOK
<1>3. ASSUME NEW t \in Tasks, NEW up \in SUBSET Backends, NEW c \in Backends, Select(t, up, c) PROVE WritesOK'
  BY <1>3 DEF Select, WritesOK, HealthOK, Writing, Recording
<1>4. CASE UNCHANGED <<health, pc, target, copy, responses, errors, raced, excluded>>
  BY <1>4, ZenonT(30) DEF WritesOK, Recording
<1>5. QED
  BY <1>1, <1>2, <1>3, <1>4, Steps, SMTT(30)

\* The windows and the counters start empty.
LEMMA WritesInit == Init => WritesOK
<1> SUFFICES ASSUME Init PROVE WritesOK
  OBVIOUS
<1>1. \A b \in Backends : health.window[b] = << >> /\ responses[b] = 0
  BY EmptySnap DEF Init
<1>2. QED
  BY <1>1 DEF Init, WritesOK, Writing

\* As long as no two writers overlap no recorded response is lost, for any
\* number of tasks and any size of the window: what the documented mutex
\* would give, the code has only without a race.
THEOREM SerialWritesLoseNone == Spec => []SerialWritesKept
<1>1. WritesOK => SerialWritesKept
  BY DEF WritesOK, SerialWritesKept
<1>2. QED
  BY <1>1, HealthInit, HealthStep, WritesInit, WritesStep, PTL DEF Spec

-----------------------------------------------------------------------------
\* An excluded backend has no request in flight whose response could still be
\* recorded, and no writer holds a window of it from a better time.
ExcludedOK ==
  \A b \in excluded :
    /\ ~ is_healthy(health.window[b])
    /\ \A t \in Tasks :
         /\ pc[t] \in {"inflight", "ok", "error"} => target[t] # b
         /\ pc[t] \in Writing => ~ is_healthy(copy[t].window[b])

\* Every step keeps an excluded backend out: no task holds it, and no snapshot
\* being written shows it healthy.
LEMMA ExcludedStep == HealthOK /\ ExcludedOK /\ [Next]_vars => ExcludedOK'
<1> SUFFICES ASSUME HealthOK, ExcludedOK, [Next]_vars, NEW b \in excluded'
             PROVE  /\ ~ is_healthy(health'.window[b])
                    /\ \A u \in Tasks :
                         /\ pc'[u] \in {"inflight", "ok", "error"} => target'[u] # b
                         /\ pc'[u] \in Writing => ~ is_healthy(copy'[u].window[b])
  BY Zenon DEF ExcludedOK, is_healthy
<1>0. ASSUME b \in excluded
      PROVE  /\ ~ is_healthy(health.window[b])
             /\ \A u \in Tasks :
                  /\ pc[u] \in {"inflight", "ok", "error"} => target[u] # b
                  /\ pc[u] \in Writing => ~ is_healthy(copy[u].window[b])
  BY <1>0, Zenon DEF ExcludedOK
<1>1. ASSUME NEW t \in Tasks, NEW l, NEW c, NEW new, NEW code, Loaded(t, l, c, new, code)
      PROVE  /\ ~ is_healthy(health'.window[b])
             /\ \A u \in Tasks :
                  /\ pc'[u] \in {"inflight", "ok", "error"} => target'[u] # b
                  /\ pc'[u] \in Writing => ~ is_healthy(copy'[u].window[b])
  <2>1. /\ pc' = [pc EXCEPT ![t] = l] /\ target' = [target EXCEPT ![t] = c] /\ copy' = [copy EXCEPT ![t] = new]
        /\ health' = health /\ excluded' = excluded /\ l \in Writing
    BY <1>1, Zenon DEF Loaded, Prepare
  <2>2. /\ ~ is_healthy(health.window[b])
        /\ \A u \in Tasks : /\ pc[u] \in {"inflight", "ok", "error"} => target[u] # b
                            /\ pc[u] \in Writing => ~ is_healthy(copy[u].window[b])
    BY <1>0, <2>1, Zenon
  <2>3. l \in {"ok", "error"} => c # b
    BY <1>1, <2>2, ZenonT(30) DEF Loaded
  <2>4. new.window[b] = health.window[b]
    <3>1. CASE l \in {"ok", "error"}
      <4>1. new.window = [health.window EXCEPT ![c] = record_response(health.window[c], code)]
        BY <1>1, <3>1, Zenon DEF Loaded
      <4>2. DOMAIN health.window = Backends /\ b \in Backends
        BY <2>1 DEF HealthOK, Snap
      <4>3. QED
        BY <2>3, <3>1, <4>1, <4>2, Zenon
    <3>2. CASE l \notin {"ok", "error"}
      BY <1>1, <3>2, Zenon DEF Loaded
    <3>3. QED
      BY <3>1, <3>2, Zenon
  <2>5. /\ pc'[t] = l /\ target'[t] = c /\ copy'[t] = new
        /\ \A u \in Tasks \ {t} : pc'[u] = pc[u] /\ target'[u] = target[u] /\ copy'[u] = copy[u]
    BY <2>1, Zenon DEF HealthOK
  <2>6. ASSUME NEW u \in Tasks
        PROVE  /\ pc'[u] \in {"inflight", "ok", "error"} => target'[u] # b
               /\ pc'[u] \in Writing => ~ is_healthy(copy'[u].window[b])
    <3>1. CASE u = t
      <4>1. l # "inflight"
        BY <2>1, Zenon DEF Writing
      <4>2. ~ is_healthy(new.window[b])
        BY <2>2, <2>4, Zenon
      <4>3. QED
        BY <2>3, <2>5, <3>1, <4>1, <4>2, Zenon
    <3>2. CASE u # t
      BY <2>2, <2>5, <3>2, Zenon
    <3>3. QED
      BY <3>1, <3>2
  <2>7. ~ is_healthy(health'.window[b])
    BY <2>1, <2>2, Zenon
  <2>8. QED
    BY <2>6, <2>7, Zenon
<1>2. ASSUME NEW t \in Tasks, Store(t)
      PROVE  /\ ~ is_healthy(health'.window[b])
             /\ \A u \in Tasks :
                  /\ pc'[u] \in {"inflight", "ok", "error"} => target'[u] # b
                  /\ pc'[u] \in Writing => ~ is_healthy(copy'[u].window[b])
  <2>1. /\ health' = copy[t] /\ pc[t] \in Writing /\ pc' = [pc EXCEPT ![t] = "idle"]
        /\ \A u \in Tasks \ {t} : target'[u] = target[u] /\ copy'[u] = copy[u]
    BY <1>2 DEF Store, HealthOK
  <2>2. CASE b \in excluded
    <3>1. /\ ~ is_healthy(health.window[b])
          /\ \A u \in Tasks : /\ pc[u] \in {"inflight", "ok", "error"} => target[u] # b
                              /\ pc[u] \in Writing => ~ is_healthy(copy[u].window[b])
      BY <1>0, <2>2, Zenon
    <3>2. pc'[t] = "idle" /\ \A u \in Tasks \ {t} : pc'[u] = pc[u]
      BY <2>1, Zenon DEF HealthOK
    <3>3. ~ is_healthy(health'.window[b])
      BY <2>1, <3>1, Zenon
    <3>4. "idle" \notin {"inflight", "ok", "error"} /\ "idle" \notin Writing
      BY Zenon DEF Writing
    <3>5. QED
      BY <2>1, <3>1, <3>2, <3>3, <3>4, Zenon
  <2>3. CASE b \notin excluded
    <3>1. Quiet' /\ ~ is_healthy(health'.window[b])
      BY <1>2, <2>3 DEF Store
    <3>2. QED
      BY <3>1, Zenon DEF Quiet, Writing
  <2>4. QED
    BY <2>2, <2>3, ZenonT(30)
<1>3. ASSUME NEW t \in Tasks, NEW up \in SUBSET Backends, NEW c \in Backends, Select(t, up, c)
      PROVE  /\ ~ is_healthy(health'.window[b])
             /\ \A u \in Tasks :
                  /\ pc'[u] \in {"inflight", "ok", "error"} => target'[u] # b
                  /\ pc'[u] \in Writing => ~ is_healthy(copy'[u].window[b])
  <2>1. /\ UNCHANGED <<health, copy, excluded>> /\ c \in Eligible(health, up)
        /\ pc' = [pc EXCEPT ![t] = "inflight"] /\ target' = [target EXCEPT ![t] = c]
    BY <1>3, Zenon DEF Select
  <2>2. QED
    BY <1>0, <1>3, <2>1 DEF Eligible, HealthOK, Writing
<1>4. CASE UNCHANGED <<health, pc, target, copy, responses, errors, raced, excluded>>
  BY <1>0, <1>4, Zenon
<1>5. \/ \E t \in Tasks : \E l, c, new, code : Loaded(t, l, c, new, code)
      \/ \E t \in Tasks : Store(t)
      \/ \E t \in Tasks, up \in SUBSET Backends, c \in Backends : Select(t, up, c)
      \/ UNCHANGED <<health, pc, target, copy, responses, errors, raced, excluded>>
  BY Steps, Zenon
<1>6. QED
  BY <1>1, <1>2, <1>3, <1>4, <1>5, ZenonT(30)

\* A backend that was above the error rate at a quiet moment stays excluded, for
\* any number of tasks and any size of the window: the responses that would
\* bring it back are never asked for.
THEOREM ExclusionIsForGood == Spec => []ExcludedForGood
<1>1. Init => ExcludedOK
  BY DEF Init, ExcludedOK
<1>2. ExcludedOK => ExcludedForGood
  BY DEF ExcludedOK, ExcludedForGood
<1>3. QED
  BY <1>1, <1>2, HealthInit, HealthStep, ExcludedStep, PTL DEF Spec

-----------------------------------------------------------------------------
\* The last n results of s are all ok.
Streak(s, n, ok) ==
  /\ n <= Len(s)
  /\ \A i \in Len(s) - n + 1 .. Len(s) : s[i] = ok

\* The counters count the streak at the end of the recorded results.
CountersOK == Streak(recent, failures, FALSE) /\ Streak(recent, successes, TRUE)

\* What Remember does: the new result is the last one, and of the results before
\* at most the oldest is gone.
LEMMA Remembered ==
  ASSUME HTypeOK, NEW ok \in BOOLEAN, Remember(ok)
  PROVE  /\ recent' \in Seq(BOOLEAN) /\ Len(recent') <= Memory
         /\ Len(recent') = IF Len(recent) = Memory THEN Memory ELSE Len(recent) + 1
         /\ recent'[Len(recent')] = ok
         /\ \A i \in 1 .. Len(recent') - 1 : recent'[i] = recent[i + Len(recent) + 1 - Len(recent')]
<1> DEFINE kept == IF Len(recent) = Memory THEN Tail(recent) ELSE recent
<1>1. Memory \in Nat \ {0}
  BY UnhealthyThresholdAssumption, HealthyThresholdAssumption DEF Memory
<1>2. recent \in Seq(BOOLEAN) /\ Len(recent) \in Nat /\ Len(recent) <= Memory
  BY DEF HTypeOK
<1>3. /\ kept \in Seq(BOOLEAN)
      /\ Len(kept) = IF Len(recent) = Memory THEN Memory - 1 ELSE Len(recent)
      /\ \A i \in 1 .. Len(kept) : kept[i] = recent[i + Len(recent) - Len(kept)]
  <2>1. CASE Len(recent) = Memory
    <3>1. recent # << >>
      BY <2>1, <1>1, <1>2
    <3> QED
      BY <2>1, <3>1, <1>1, <1>2
  <2>2. CASE Len(recent) # Memory
    <3>1. kept = recent
      BY <2>2
    <3>2. ASSUME NEW i \in 1 .. Len(recent) PROVE i + Len(recent) - Len(recent) = i
      BY <1>2
    <3> QED
      BY <2>2, <3>1, <3>2, <1>2, Zenon
  <2> QED
    BY <2>1, <2>2, Zenon
<1>4. recent' = Append(kept, ok)
  BY DEF Remember
<1> HIDE DEF kept
<1>5. /\ recent' \in Seq(BOOLEAN) /\ Len(recent') = Len(kept) + 1
      /\ recent'[Len(kept) + 1] = ok
      /\ \A i \in 1 .. Len(kept) : recent'[i] = kept[i]
  BY <1>3, <1>4
<1>6. Len(kept) \in Nat /\ Len(recent') \in Nat /\ Len(kept) = Len(recent') - 1
  BY <1>3, <1>5
<1>7. ASSUME NEW i \in 1 .. Len(recent') - 1
      PROVE  recent'[i] = recent[i + Len(recent) + 1 - Len(recent')]
  <2>1. i \in 1 .. Len(kept) /\ i + Len(recent) - Len(kept) = i + Len(recent) + 1 - Len(recent')
    BY <1>2, <1>6
  <2> QED
    BY <2>1, <1>3, <1>5, Zenon
<1>8. Len(recent') <= Memory /\ Len(recent') = IF Len(recent) = Memory THEN Memory ELSE Len(recent) + 1
  BY <1>1, <1>2, <1>3, <1>5
<1>9. recent'[Len(recent')] = ok
  BY <1>5
<1> QED
  BY <1>5, <1>7, <1>8, <1>9

\* A counter that counts one more, or stays at its bound, still counts a streak.
LEMMA StreakGrows ==
  ASSUME HTypeOK, NEW ok \in BOOLEAN, Remember(ok),
         NEW bound \in 1 .. Memory, NEW n \in 0 .. bound, Streak(recent, n, ok)
  PROVE  Streak(recent', Saturate(n, bound), ok)
<1> DEFINE m == Saturate(n, bound)
<1>1. m \in 0 .. bound /\ m <= n + 1
  BY DEF Saturate
<1>2. Memory \in Nat \ {0} /\ recent \in Seq(BOOLEAN) /\ Len(recent) \in Nat /\ Len(recent) <= Memory
  BY UnhealthyThresholdAssumption, HealthyThresholdAssumption DEF Memory, HTypeOK
<1>3. /\ Len(recent') = IF Len(recent) = Memory THEN Memory ELSE Len(recent) + 1
      /\ recent'[Len(recent')] = ok
      /\ \A i \in 1 .. Len(recent') - 1 : recent'[i] = recent[i + Len(recent) + 1 - Len(recent')]
  BY Remembered
<1> HIDE DEF m
<1>4. m <= Len(recent')
  BY <1>1, <1>2, <1>3 DEF Streak
<1>5. ASSUME NEW i \in Len(recent') - m + 1 .. Len(recent') PROVE recent'[i] = ok
  <2>1. CASE i = Len(recent')
    BY <2>1, <1>3
  <2>2. CASE i # Len(recent')
    <3>1. i \in 1 .. Len(recent') - 1
      BY <2>2, <1>1, <1>2, <1>3, <1>4
    <3>2. i + Len(recent) + 1 - Len(recent') \in Len(recent) - n + 1 .. Len(recent)
      <4>1. Len(recent') \in Nat /\ m \in Nat /\ n \in Nat /\ m <= n + 1
        BY <1>1, <1>2, <1>3
      <4>2. i \in Int /\ Len(recent') - m + 1 <= i /\ i <= Len(recent') - 1
        BY <2>2, <4>1
      <4> QED
        BY <4>1, <4>2, <1>2
    <3> QED
      BY <3>1, <3>2, <1>3, Zenon DEF Streak
  <2> QED
    BY <2>1, <2>2
<1>6. /\ m <= Len(recent')
      /\ \A i \in Len(recent') - m + 1 .. Len(recent') : recent'[i] = ok
  BY <1>4, <1>5
<1> QED
  BY <1>6 DEF Streak, m

\* The results are remembered for as long as either threshold counts.
LEMMA Thresholds ==
  UnhealthyThreshold \in 1 .. Memory /\ HealthyThreshold \in 1 .. Memory
BY UnhealthyThresholdAssumption, HealthyThresholdAssumption DEF Memory

\* record_success and record_failure keep the counters true.
LEMMA ProbeRecorded ==
  ASSUME HTypeOK, CountersOK
  PROVE  /\ record_success /\ Remember(TRUE) => CountersOK'
         /\ record_failure /\ Remember(FALSE) => CountersOK'
<1>1. successes \in 0 .. HealthyThreshold /\ failures \in 0 .. UnhealthyThreshold
  BY DEF HTypeOK
<1>2. ASSUME NEW ok \in BOOLEAN, NEW other \in BOOLEAN, Remember(ok) PROVE Streak(recent', 0, other)
  <2>1. Len(recent') \in Nat
    BY <1>2, Remembered
  <2> QED
    BY <2>1 DEF Streak
<1>3. ASSUME record_success, Remember(TRUE) PROVE CountersOK'
  <2>1. successes' = Saturate(successes, HealthyThreshold) /\ failures' = 0
    BY <1>3 DEF record_success
  <2>2. Streak(recent', Saturate(successes, HealthyThreshold), TRUE)
    BY <1>1, <1>3, StreakGrows, Thresholds, Zenon DEF CountersOK
  <2> QED
    BY <2>1, <2>2, <1>2, <1>3, Zenon DEF CountersOK
<1>4. ASSUME record_failure, Remember(FALSE) PROVE CountersOK'
  <2>1. failures' = Saturate(failures, UnhealthyThreshold) /\ successes' = 0
    BY <1>4 DEF record_failure
  <2>2. Streak(recent', Saturate(failures, UnhealthyThreshold), FALSE)
    BY <1>1, <1>4, StreakGrows, Thresholds, Zenon DEF CountersOK
  <2> QED
    BY <2>1, <2>2, <1>2, <1>4, Zenon DEF CountersOK
<1> QED
  BY <1>3, <1>4, Zenon DEF CountersOK

\* Every step keeps the types and the counters.
LEMMA CountersStep ==
  HTypeOK /\ CountersOK /\ [HNext]_hvars => (HTypeOK /\ CountersOK)'
<1> SUFFICES ASSUME HTypeOK, CountersOK, [HNext]_hvars PROVE (HTypeOK /\ CountersOK)'
  OBVIOUS
<1>1. ASSUME UNCHANGED <<state, recent>>, NEW l \in Loops,
             start_checking(l) \/ ProbeStart(l) \/ ProbeResult(l) \/ Exit(l)
      PROVE  (HTypeOK /\ CountersOK)'
  BY <1>1, Zenon DEF HTypeOK, CountersOK, Streak, Memory, state, start_checking,
              ProbeStart, ProbeResult, Exit, Goto
<1>2. ASSUME shutdown \/ Flip \/ UNCHANGED hvars PROVE (HTypeOK /\ CountersOK)'
  BY <1>2, Zenon DEF HTypeOK, CountersOK, Streak, Memory, state, hvars, shutdown, Flip
<1>3. ASSUME NEW l \in Loops, RecordSuccess(l) PROVE (HTypeOK /\ CountersOK)'
  <2>1. CountersOK'
    BY <1>3, ProbeRecorded DEF RecordSuccess
  <2>2. recent' \in Seq(BOOLEAN) /\ Len(recent') <= Memory
    BY <1>3, Remembered, Zenon DEF RecordSuccess
  <2>3. successes' \in 0 .. HealthyThreshold /\ failures' \in 0 .. UnhealthyThreshold
        /\ status' \in {"Healthy", "Unhealthy"}
    BY <1>3, UnhealthyThresholdAssumption, HealthyThresholdAssumption, SMTT(30)
       DEF HTypeOK, RecordSuccess, record_success, Saturate
  <2> QED
    BY <1>3, <2>1, <2>2, <2>3 DEF HTypeOK, RecordSuccess, Goto, Memory
<1>4. ASSUME NEW l \in Loops, RecordFailure(l) PROVE (HTypeOK /\ CountersOK)'
  <2>1. CountersOK'
    BY <1>4, ProbeRecorded DEF RecordFailure
  <2>2. recent' \in Seq(BOOLEAN) /\ Len(recent') <= Memory
    BY <1>4, Remembered, Zenon DEF RecordFailure
  <2>3. successes' \in 0 .. HealthyThreshold /\ failures' \in 0 .. UnhealthyThreshold
        /\ status' \in {"Healthy", "Unhealthy"}
    BY <1>4, UnhealthyThresholdAssumption, HealthyThresholdAssumption
       DEF HTypeOK, RecordFailure, record_failure, Saturate
  <2> QED
    BY <1>4, <2>1, <2>2, <2>3 DEF HTypeOK, RecordFailure, Goto, Memory
<1> QED
  BY <1>1, <1>2, <1>3, <1>4, ZenonT(30) DEF HNext, Step, start_checking, ProbeStart,
                                            ProbeResult, Exit

\* A streak as long as the threshold is what ChangesOnStreak speaks of.
LEMMA StreakSeen ==
  ASSUME recent' \in Seq(BOOLEAN), NEW n \in Nat \ {0}, NEW ok \in BOOLEAN, Streak(recent', n, ok)
  PROVE  Len(recent') >= n /\ ToSet(Latest(n)) = {ok}
<1>1. Len(recent') \in Nat /\ n <= Len(recent')
  BY DEF Streak
<1>2. /\ DOMAIN Latest(n) = 1 .. n
      /\ \A i \in 1 .. n : Latest(n)[i] = recent'[Len(recent') - n + i]
  BY <1>1 DEF Latest
<1>3. ASSUME NEW i \in 1 .. n PROVE Latest(n)[i] = ok
  <2>1. Len(recent') - n + i \in Len(recent') - n + 1 .. Len(recent')
    BY <1>1
  <2> QED
    BY <2>1, <1>2, Zenon DEF Streak
<1>4. 1 \in DOMAIN Latest(n)
  BY <1>2
<1> QED
  BY <1>1, <1>2, <1>3, <1>4 DEF ToSet

(***************************************************************************)
(* check_backend_loop: whichever loops record the results, the status of   *)
(* the backend changes only when as many of the latest results agree as    *)
(* the threshold asks for.                                                 *)
(***************************************************************************)
THEOREM StatusOnStreak ==
  HSpec => ChangesOnStreak
<1> DEFINE Changes ==
      /\ status = "Healthy" /\ status' = "Unhealthy" =>
           /\ Len(recent') >= UnhealthyThreshold
           /\ ToSet(Latest(UnhealthyThreshold)) = {FALSE}
      /\ status = "Unhealthy" /\ status' = "Healthy" =>
           /\ Len(recent') >= HealthyThreshold
           /\ ToSet(Latest(HealthyThreshold)) = {TRUE}
<1>1. HInit => HTypeOK /\ CountersOK
  <2> SUFFICES ASSUME HInit PROVE HTypeOK /\ CountersOK
    OBVIOUS
  <2>1. Memory \in Nat /\ recent \in Seq(BOOLEAN) /\ Len(recent) = 0
    BY UnhealthyThresholdAssumption, HealthyThresholdAssumption DEF HInit, Memory
  <2>2. Streak(recent, 0, FALSE) /\ Streak(recent, 0, TRUE)
    BY <2>1 DEF Streak
  <2>3. HTypeOK
    <3>1. successes \in 0 .. HealthyThreshold /\ failures \in 0 .. UnhealthyThreshold /\ Len(recent) <= Memory
      BY <2>1, UnhealthyThresholdAssumption, HealthyThresholdAssumption DEF HInit
    <3>2. loops \in [Loops -> {"off", "wait", "probing", "succeeded", "failed", "done"}]
      BY DEF HInit
    <3>3. cancelled \in BOOLEAN /\ reachable \in BOOLEAN /\ status \in {"Healthy", "Unhealthy"}
      BY Zenon DEF HInit
    <3> QED
      BY <2>1, <3>1, <3>2, <3>3, Zenon DEF HTypeOK
  <2> QED
    BY <2>2, <2>3, Zenon DEF HInit, CountersOK
<1>2. HTypeOK /\ CountersOK /\ [HNext]_hvars => [Changes]_hvars
  <2> SUFFICES ASSUME HTypeOK, CountersOK, [HNext]_hvars, status' # status PROVE Changes
    BY Zenon DEF hvars
  <2>1. (HTypeOK /\ CountersOK)'
    BY CountersStep
  <2>2. \/ status' = "Unhealthy" /\ failures' = UnhealthyThreshold
        \/ status' = "Healthy" /\ successes' = HealthyThreshold
    <3>1. record_success \/ record_failure
      BY Zenon DEF HNext, Step, hvars, state, shutdown, Flip,
             start_checking, ProbeStart, ProbeResult, Exit,
             RecordSuccess, RecordFailure
    <3>2. failures' \in 0 .. UnhealthyThreshold /\ successes' \in 0 .. HealthyThreshold
      BY <2>1 DEF HTypeOK
    <3> QED
      BY <3>1, <3>2, UnhealthyThresholdAssumption, HealthyThresholdAssumption DEF record_success, record_failure
  <2>3. CASE status' = "Unhealthy" /\ failures' = UnhealthyThreshold
    <3>1. Streak(recent', UnhealthyThreshold, FALSE)
      BY <2>1, <2>3, Zenon DEF CountersOK
    <3>2. Len(recent') >= UnhealthyThreshold /\ ToSet(Latest(UnhealthyThreshold)) = {FALSE}
      BY <2>1, <3>1, StreakSeen, UnhealthyThresholdAssumption, HealthyThresholdAssumption, Zenon DEF HTypeOK
    <3> QED
      BY <2>3, <3>2
  <2>4. CASE status' = "Healthy" /\ successes' = HealthyThreshold
    <3>1. Streak(recent', HealthyThreshold, TRUE)
      BY <2>1, <2>4, Zenon DEF CountersOK
    <3>2. Len(recent') >= HealthyThreshold /\ ToSet(Latest(HealthyThreshold)) = {TRUE}
      BY <2>1, <3>1, StreakSeen, UnhealthyThresholdAssumption, HealthyThresholdAssumption, Zenon DEF HTypeOK
    <3> QED
      BY <2>4, <3>2
  <2> QED
    BY <2>2, <2>3, <2>4, Zenon
<1> QED
  BY <1>1, <1>2, CountersStep, PTL DEF HSpec, ChangesOnStreak
=============================================================================
