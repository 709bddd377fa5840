------------------------- MODULE ControlPlaneProofs -------------------------
(***************************************************************************)
(* Theorems about the HTTPRoute controller beside the Gateway controller,  *)
(* for any Gateways, routes, services and EndpointSlices.  No fairness is  *)
(* used.                                                                   *)
(***************************************************************************)
EXTENDS ControlPlane, Integers, TLAPS

\* The keys of the routes.
Keys == UNION {RC!ToSet(RC!path_method_pairs(spec)) : spec \in RouteSpecs}

Task ==
  [pc : {"resolve", "invalid", "status"}, spec : RouteSpecs, todo : Seq(Services), pairs : Seq(Keys),
   pods : SUBSET RC!AllPods, resolved : BOOLEAN, added : BOOLEAN]

\* The matches of a route are on the table, and its limit, if any, is set.
Programmed(spec, keys, paths) ==
  /\ RC!ValidPairs(spec) \subseteq keys
  /\ RC!parse_rate_limit_annotation(spec.annotation).ok => RC!path_method_pairs(spec)[1].path \in paths

\* What a running reconcile has still to add is on its list, and it claims the
\* route only when nothing is left.
TaskOK(task, keys, paths) ==
  /\ task \in {RC!Idle} \cup Task
  /\ task \in Task =>
       /\ RC!ToSet(task.pairs) \subseteq RC!ToSet(RC!path_method_pairs(task.spec))
       /\ task.pc = "resolve" => RC!ValidPairs(task.spec) \subseteq RC!ToSet(task.pairs) \cup keys
       /\ task.added => Programmed(task.spec, keys, paths)

\* The table has no empty entry, and an ignored route has nothing that would
\* bring it back.
RoutesOK ==
  /\ routes \in [Routes -> RouteSpecs \cup {RC!Absent}]
  /\ rqueue \in [Routes -> {"none", "later", "now"}]
  /\ DOMAIN rtask = Routes /\ rtask = [r \in Routes |-> rtask[r]]
  /\ \A r \in Routes : TaskOK(rtask[r], DOMAIN table, DOMAIN limits)
  /\ \A s \in Services : endpoints[s] \in EndpointSets[s]
  /\ endpoints = [s \in Services |-> endpoints[s]]
  /\ \A k \in DOMAIN table : table[k] # {}
  /\ ignored \subseteq Routes
  /\ \A r \in ignored : routes[r] # RC!Absent /\ rtask[r] = RC!Idle /\ rqueue[r] = "none"

-----------------------------------------------------------------------------
\* path_method_pairs makes a list of keys that is not empty.
LEMMA PairsType ==
  ASSUME NEW spec \in RouteSpecs
  PROVE  RC!path_method_pairs(spec) \in Seq(Keys) /\ RC!path_method_pairs(spec) # << >>
<1> DEFINE m == spec.matches
           p == RC!path_method_pairs(spec)
<1>1. PICK n \in Nat \ {0} : p = [i \in 1 .. n |-> p[i]]
  <2>1. CASE m = << >>
    <3>1. p = <<[method |-> "ALL", path |-> <<RC!Slash>>]>>
      BY <2>1 DEF RC!path_method_pairs
    <3> HIDE DEF p
    <3>2. p = [i \in 1 .. 1 |-> p[i]]
      BY <3>1, SMTT(30)
    <3>3. QED
      BY <3>2
  <2>2. CASE m # << >>
    <3>1. DOMAIN m = 1 .. Len(m) /\ Len(m) \in Nat \ {0}
      BY <2>2, RouteSpecsAssumption
    <3>2. p = [i \in DOMAIN m |-> [method |-> RC!parse_http_method(m[i].method), path |-> m[i].path]]
      BY <2>2 DEF RC!path_method_pairs
    <3> HIDE DEF p, m
    <3>3. QED
      BY <3>1, <3>2, Zenon
  <2>3. QED
    BY <2>1, <2>2
<1> HIDE DEF p
<1>2. \A i \in 1 .. n : p[i] \in Keys
  <2>1. DOMAIN p = 1 .. n
    BY <1>1
  <2>2. QED
    BY <2>1 DEF Keys, RC!ToSet, p
<1>3. p \in Seq(Keys) /\ Len(p) = n
  BY <1>1, <1>2
<1>4. p # << >>
  BY <1>3
<1>5. QED
  BY <1>3, <1>4 DEF p

\* A task that is not idle is a record with its fields.
LEMMA TaskPlaces ==
  ASSUME NEW task \in {RC!Idle} \cup Task
  PROVE  /\ task.pc \in {"idle", "resolve", "invalid", "status"}
         /\ task.pc = "idle" <=> task = RC!Idle
         /\ task.pc # "idle" <=> task \in Task
         /\ task = RC!Idle <=> task \notin Task
BY DEF RC!Idle, Task

\* A table and limits that have grown lose nothing of what a reconcile has done.
LEMMA TaskGrows ==
  ASSUME NEW task, NEW keys, NEW paths, NEW more, NEW limited,
         TaskOK(task, keys, paths), keys \subseteq more, paths \subseteq limited
  PROVE  TaskOK(task, more, limited)
BY DEF TaskOK, Programmed

\* The parts of a sequence.
LEMMA HeadAndTail ==
  ASSUME NEW S, NEW s \in Seq(S), s # << >>
  PROVE  /\ Head(s) \in S /\ Tail(s) \in Seq(S)
         /\ RC!ToSet(s) = {Head(s)} \cup RC!ToSet(Tail(s))
<1>1. Head(s) \in S /\ Tail(s) \in Seq(S) /\ Head(s) = s[1] /\ Len(s) \in Nat \ {0}
  OBVIOUS
<1>2. Len(Tail(s)) = Len(s) - 1 /\ \A i \in 1 .. Len(s) - 1 : Tail(s)[i] = s[i + 1]
  OBVIOUS
<1>3. DOMAIN s = 1 .. Len(s) /\ DOMAIN Tail(s) = 1 .. Len(s) - 1
  BY <1>1, <1>2
<1>4. ASSUME NEW i \in DOMAIN s PROVE s[i] \in {Head(s)} \cup RC!ToSet(Tail(s))
  <2>1. CASE i = 1
    BY <2>1, <1>1
  <2>2. CASE i # 1
    <3>1. i - 1 \in DOMAIN Tail(s) /\ Tail(s)[i - 1] = s[i]
      BY <2>2, <1>1, <1>2, <1>3
    <3>2. QED
      BY <3>1 DEF RC!ToSet
  <2>3. QED
    BY <2>1, <2>2
<1>5. ASSUME NEW i \in DOMAIN Tail(s) PROVE Tail(s)[i] \in RC!ToSet(s)
  <2>1. i + 1 \in DOMAIN s /\ Tail(s)[i] = s[i + 1]
    BY <1>1, <1>2, <1>3
  <2>2. QED
    BY <2>1 DEF RC!ToSet
<1>6. Head(s) \in RC!ToSet(s)
  <2>1. 1 \in DOMAIN s
    BY <1>1, <1>3
  <2>2. QED
    BY <1>1, <2>1 DEF RC!ToSet
<1>7. RC!ToSet(s) \subseteq {Head(s)} \cup RC!ToSet(Tail(s))
  <2>1. ASSUME NEW x \in RC!ToSet(s) PROVE x \in {Head(s)} \cup RC!ToSet(Tail(s))
    <3>1. PICK i \in DOMAIN s : x = s[i]
      BY DEF RC!ToSet
    <3>2. QED
      BY <3>1, <1>4
  <2>2. QED
    BY <2>1
<1>8. RC!ToSet(Tail(s)) \subseteq RC!ToSet(s)
  <2>1. ASSUME NEW x \in RC!ToSet(Tail(s)) PROVE x \in RC!ToSet(s)
    <3>1. PICK i \in DOMAIN Tail(s) : x = Tail(s)[i]
      BY SMTT(30) DEF RC!ToSet
    <3>2. QED
      BY <3>1, <1>5
  <2>2. QED
    BY <2>1
<1>9. QED
  BY <1>1, <1>6, <1>7, <1>8

-----------------------------------------------------------------------------
\* The table and the limits only grow, and no entry of the table is empty.
LEMMA TableGrows ==
  ASSUME RoutesOK, RC!RNext
  PROVE  /\ DOMAIN table \subseteq DOMAIN table' /\ \A k \in DOMAIN table' : table'[k] # {}
         /\ DOMAIN limits \subseteq DOMAIN limits'
<1>0. \A k \in DOMAIN table : table[k] # {}
  BY DEF RoutesOK
<1>1. CASE UNCHANGED <<table, limits>>
  BY <1>0, <1>1
<1>2. ASSUME NEW s \in Services, NEW slices \in EndpointSets[s], RC!EndpointsChange(s, slices)
      PROVE  DOMAIN table' = DOMAIN table /\ (\A k \in DOMAIN table' : table'[k] # {}) /\ limits' = limits
  <2> DEFINE pods == RC!aggregate_backends_for_service(slices)
  <2>1. /\ limits' = limits
        /\ table' = [k \in DOMAIN table |->
                       IF pods # {} /\ k.method = "GET" /\ k.path \in service_routes[s] THEN pods ELSE table[k]]
    BY <1>2 DEF RC!EndpointsChange
  <2> HIDE DEF pods
  <2>2. QED
    BY <1>0, <2>1
<1>3. ASSUME NEW r \in Routes, RC!RouteProgrammed(r)
      PROVE  /\ DOMAIN table \subseteq DOMAIN table' /\ \A k \in DOMAIN table' : table'[k] # {}
             /\ limits' = limits
  BY <1>0, <1>3, SMTT(30) DEF RC!RouteProgrammed, RC!AddNextPair, RC!add_route
<1>4. ASSUME NEW r \in Routes, RC!LimitConfigured(r)
      PROVE  table' = table /\ DOMAIN limits \subseteq DOMAIN limits'
  BY <1>4 DEF RC!LimitConfigured, RC!configure_route
<1>5. QED
  BY <1>0, <1>1, <1>2, <1>3, <1>4, ZenonT(30)
     DEF RC!RNext, RC!RouteApplied, RC!RouteDeleted, RC!Reconcile, RC!RouteRequeued, RC!RouteGone, RC!RouteIgnored,
         RC!RouteStart, RC!ServiceResolved, RC!ServiceFails, RC!NoBackends, RC!RouteStatus, RC!set_route_status_invalid,
         RC!StatusFails

-----------------------------------------------------------------------------
\* No reconcile runs.
LEMMA IdleOK == \A keys, paths : TaskOK(RC!Idle, keys, paths)
BY TaskPlaces DEF TaskOK

\* A reconcile starts with all pairs of its route to do.
LEMMA StartOK ==
  ASSUME NEW spec \in RouteSpecs, NEW pc \in {"resolve", "invalid"}, NEW keys, NEW paths
  PROVE  TaskOK([pc |-> pc, spec |-> spec, todo |-> spec.services, pairs |-> RC!path_method_pairs(spec),
                 pods |-> {}, resolved |-> TRUE, added |-> FALSE], keys, paths)
<1> DEFINE task == [pc |-> pc, spec |-> spec, todo |-> spec.services, pairs |-> RC!path_method_pairs(spec),
                    pods |-> {}, resolved |-> TRUE, added |-> FALSE]
<1>1. spec.services \in Seq(Services) /\ RC!path_method_pairs(spec) \in Seq(Keys)
  BY RouteSpecsAssumption, PairsType
<1>2. task \in Task
  BY <1>1 DEF Task
<1>3. RC!ValidPairs(spec) \subseteq RC!ToSet(RC!path_method_pairs(spec))
  BY DEF RC!ValidPairs
<1>4. task.spec = spec /\ task.pairs = RC!path_method_pairs(spec) /\ ~ task.added
  OBVIOUS
<1> HIDE DEF task
<1>5. TaskOK(task, keys, paths)
  BY <1>2, <1>3, <1>4 DEF TaskOK
<1>6. QED
  BY <1>5 DEF task

\* A service is resolved, or is not.
LEMMA ResolveOK ==
  ASSUME NEW task \in Task, NEW keys, NEW paths, TaskOK(task, keys, paths), task.todo # << >>,
         NEW pods \in SUBSET RC!AllPods, NEW resolved \in BOOLEAN
  PROVE  TaskOK([task EXCEPT !.todo = Tail(task.todo), !.pods = pods, !.resolved = resolved], keys, paths)
<1> DEFINE after == [task EXCEPT !.todo = Tail(task.todo), !.pods = pods, !.resolved = resolved]
<1>1. Tail(task.todo) \in Seq(Services)
  BY DEF Task
<1>2. after \in Task /\ after.spec = task.spec /\ after.pairs = task.pairs /\ after.added = task.added /\ after.pc = task.pc
  BY <1>1, Zenon DEF Task
<1> HIDE DEF after
<1>3. TaskOK(after, keys, paths)
  BY <1>2 DEF TaskOK
<1>4. QED
  BY <1>3 DEF after

\* A pair is taken off the list when it is on the table or not valid.
LEMMA PairOK ==
  ASSUME NEW task \in Task, NEW keys, NEW paths, NEW more, TaskOK(task, keys, paths), task.pairs # << >>,
         keys \subseteq more, RC!validate_path(Head(task.pairs).path) => Head(task.pairs) \in more
  PROVE  /\ TaskOK([task EXCEPT !.pairs = Tail(task.pairs)], more, paths)
         /\ Head(task.pairs) \in RC!ToSet(RC!path_method_pairs(task.spec))
<1> DEFINE after == [task EXCEPT !.pairs = Tail(task.pairs)]
<1>1. task.pairs \in Seq(Keys)
  BY DEF Task
<1>2. /\ Tail(task.pairs) \in Seq(Keys)
      /\ RC!ToSet(task.pairs) = {Head(task.pairs)} \cup RC!ToSet(Tail(task.pairs))
  BY <1>1, HeadAndTail, SMTT(30)
<1>3. /\ after \in Task /\ after.spec = task.spec /\ after.added = task.added /\ after.pc = task.pc
      /\ after.pairs = Tail(task.pairs)
  BY <1>2, Zenon DEF Task
<1> HIDE DEF after
<1>4. \A pair \in RC!ValidPairs(task.spec) : RC!validate_path(pair.path)
  BY DEF RC!ValidPairs
<1>5. TaskOK(after, more, paths)
  BY <1>2, <1>3, <1>4 DEF TaskOK, Programmed
<1>6. QED
  BY <1>2, <1>5, Zenon DEF after, TaskOK

\* The rule is skipped, or done when its list is empty and its limit is set.
LEMMA StatusOK ==
  ASSUME NEW task \in Task, NEW keys, NEW paths, TaskOK(task, keys, paths), NEW added \in BOOLEAN,
         added => Programmed(task.spec, keys, paths)
  PROVE  TaskOK([task EXCEPT !.pc = "status", !.added = added], keys, paths)
<1> DEFINE after == [task EXCEPT !.pc = "status", !.added = added]
<1>1. /\ after \in Task /\ after.spec = task.spec /\ after.added = added /\ after.pc = "status"
      /\ after.pairs = task.pairs
  BY ZenonT(30) DEF Task
<1> HIDE DEF after
<1>2. TaskOK(after, keys, paths)
  BY <1>1 DEF TaskOK
<1>3. QED
  BY <1>2 DEF after

\* What one step of a reconcile does to its task.
LEMMA ReconcileStep ==
  ASSUME RoutesOK, NEW r \in Routes, RC!Reconcile(r)
  PROVE  \E task : rtask' = [rtask EXCEPT ![r] = task] /\ TaskOK(task, DOMAIN table', DOMAIN limits')
<1> DEFINE task == rtask[r]
<1>0. /\ TaskOK(task, DOMAIN table, DOMAIN limits)
      /\ task.pc \in {"resolve", "status", "invalid"} => task \in Task
      /\ rtask = [rtask EXCEPT ![r] = task]
  <2>1. TaskOK(task, DOMAIN table, DOMAIN limits) /\ rtask = [rtask EXCEPT ![r] = task]
    BY DEF RoutesOK
  <2>2. QED
    BY <2>1, TaskPlaces DEF TaskOK
<1>1. CASE RC!RouteRequeued(r) \/ RC!RouteGone(r) \/ RC!RouteIgnored(r)
  BY <1>0, <1>1 DEF RC!RouteRequeued, RC!RouteGone, RC!RouteIgnored
<1>2. CASE RC!RouteStart(r)
  <2> DEFINE place == IF RC!validate_path(RC!path_method_pairs(routes[r])[1].path) THEN "resolve" ELSE "invalid"
             new == [pc |-> place, spec |-> routes[r], todo |-> routes[r].services,
                     pairs |-> RC!path_method_pairs(routes[r]), pods |-> {}, resolved |-> TRUE, added |-> FALSE]
  <2>1. rtask' = [rtask EXCEPT ![r] = new] /\ routes[r] \in RouteSpecs /\ place \in {"resolve", "invalid"}
    BY <1>2 DEF RC!RouteStart, RoutesOK
  <2> HIDE DEF place
  <2>2. TaskOK(new, DOMAIN table', DOMAIN limits')
    BY <2>1, StartOK, Zenon
  <2>3. QED
    BY <2>1, <2>2, Zenon
<1>3. CASE RC!ServiceResolved(r)
  <2> DEFINE found == RC!Endpoints(r)
             resolved == task.resolved /\ found # {}
  <2>1. /\ task.pc = "resolve" /\ task.todo # << >> /\ UNCHANGED <<table, limits>>
        /\ rtask' = [rtask EXCEPT ![r] = [task EXCEPT !.todo = Tail(task.todo), !.pods = task.pods \cup found,
                                                      !.resolved = resolved]]
    BY <1>3, ZenonT(30) DEF RC!ServiceResolved, RC!Resolving
  <2>2. found \subseteq RC!AllPods
    <3>1. Head(task.todo) \in Services
      BY <1>0, <2>1, HeadAndTail DEF Task
    <3>2. QED
      BY <3>1 DEF RC!Endpoints, RC!AllPods, RoutesOK
  <2> DEFINE pods == task.pods \cup found
  <2>3. pods \in SUBSET RC!AllPods /\ resolved \in BOOLEAN
    BY <1>0, <2>1, <2>2, SMTT(30) DEF Task
  <2> HIDE DEF found, pods, resolved, task
  <2>4. TaskOK([task EXCEPT !.todo = Tail(task.todo), !.pods = pods, !.resolved = resolved], DOMAIN table, DOMAIN limits)
    BY <1>0, <2>1, <2>3, ResolveOK, ZenonT(30)
  <2>5. QED
    BY <2>1, <2>4, Zenon DEF pods
<1>4. CASE RC!ServiceFails(r)
  <2>1. /\ task.pc = "resolve" /\ task.todo # << >> /\ UNCHANGED <<table, limits>>
        /\ rtask' = [rtask EXCEPT ![r] = [task EXCEPT !.todo = Tail(task.todo), !.resolved = FALSE]]
    BY <1>4, Zenon DEF RC!ServiceFails, RC!Resolving
  <2>2. task.pods \in SUBSET RC!AllPods
        /\ [task EXCEPT !.todo = Tail(task.todo), !.resolved = FALSE]
           = [task EXCEPT !.todo = Tail(task.todo), !.pods = task.pods, !.resolved = FALSE]
    BY <1>0, <2>1, Zenon DEF Task
  <2> HIDE DEF task
  <2>3. QED
    BY <1>0, <2>1, <2>2, ResolveOK, ZenonT(30)
<1>5. CASE RC!RouteProgrammed(r)
  <2>1. /\ task.pc = "resolve" /\ task.pairs # << >> /\ UNCHANGED limits
        /\ rtask' = [rtask EXCEPT ![r] = [task EXCEPT !.pairs = Tail(task.pairs)]]
        /\ DOMAIN table \subseteq DOMAIN table'
        /\ RC!validate_path(Head(task.pairs).path) => Head(task.pairs) \in DOMAIN table'
    BY <1>5 DEF RC!RouteProgrammed, RC!Resolved, RC!AddNextPair, RC!add_route
  <2> HIDE DEF task
  <2>2. QED
    BY <1>0, <2>1, PairOK, ZenonT(30)
<1>6. CASE RC!NoBackends(r)
  <2>1. /\ task.pc = "resolve" /\ UNCHANGED <<table, limits>>
        /\ rtask' = [rtask EXCEPT ![r] = [task EXCEPT !.pc = "status"]]
    BY <1>6 DEF RC!NoBackends, RC!Resolved
  <2>2. task.added \in BOOLEAN /\ [task EXCEPT !.pc = "status"] = [task EXCEPT !.pc = "status", !.added = task.added]
    BY <1>0, <2>1, ZenonT(30) DEF Task
  <2>3. task.added => Programmed(task.spec, DOMAIN table, DOMAIN limits)
    BY <1>0, <2>1 DEF TaskOK
  <2> HIDE DEF task
  <2>4. QED
    BY <1>0, <2>1, <2>2, <2>3, StatusOK, Zenon
<1>7. CASE RC!LimitConfigured(r)
  <2>1. /\ task.pc = "resolve" /\ task.pairs = << >> /\ UNCHANGED table /\ DOMAIN limits \subseteq DOMAIN limits'
        /\ rtask' = [rtask EXCEPT ![r] = [task EXCEPT !.pc = "status", !.added = TRUE]]
        /\ RC!parse_rate_limit_annotation(task.spec.annotation).ok
             => RC!path_method_pairs(task.spec)[1].path \in DOMAIN limits'
    BY <1>7, ZenonT(30) DEF RC!LimitConfigured, RC!Resolved, RC!configure_route
  <2>2. TaskOK(task, DOMAIN table', DOMAIN limits')
    BY <1>0, <2>1, TaskGrows
  <2>3. RC!ValidPairs(task.spec) \subseteq DOMAIN table'
    <3>1. RC!ToSet(task.pairs) = {}
      BY <2>1 DEF RC!ToSet
    <3>2. QED
      BY <1>0, <2>1, <3>1 DEF TaskOK
  <2>4. Programmed(task.spec, DOMAIN table', DOMAIN limits')
    BY <2>1, <2>3 DEF Programmed
  <2> HIDE DEF task
  <2>5. QED
    BY <1>0, <2>1, <2>2, <2>4, StatusOK, Zenon
<1>8. CASE RC!RouteStatus(r) \/ RC!set_route_status_invalid(r) \/ RC!StatusFails(r)
  <2>1. rtask' = [rtask EXCEPT ![r] = RC!Idle]
    BY <1>8 DEF RC!RouteStatus, RC!set_route_status_invalid, RC!StatusFails
  <2>2. QED
    BY <2>1, IdleOK, Zenon
<1>9. QED
  BY <1>1, <1>2, <1>3, <1>4, <1>5, <1>6, <1>7, <1>8, SMTT(30) DEF RC!Reconcile

\* Every step of the HTTPRoute controller, its watcher and the users keeps the
\* invariant.
LEMMA RoutesStep == RoutesOK /\ RC!RNext => RoutesOK'
<1> SUFFICES ASSUME RoutesOK, RC!RNext PROVE RoutesOK'
  OBVIOUS
<1>0. /\ DOMAIN table \subseteq DOMAIN table' /\ \A k \in DOMAIN table' : table'[k] # {}
      /\ DOMAIN limits \subseteq DOMAIN limits'
  BY TableGrows
<1>1. ASSUME NEW s \in Services, NEW slices \in EndpointSets[s], RC!EndpointsChange(s, slices) PROVE RoutesOK'
  <2>1. endpoints' = [endpoints EXCEPT ![s] = slices] /\ UNCHANGED <<routes, rqueue, rtask, ignored>>
    BY <1>1 DEF RC!EndpointsChange
  <2>2. (\A q \in Services : endpoints'[q] \in EndpointSets[q]) /\ endpoints' = [q \in Services |-> endpoints'[q]]
    BY <2>1 DEF RoutesOK
  <2>3. \A r \in Routes : TaskOK(rtask[r], DOMAIN table', DOMAIN limits')
    BY <1>0, TaskGrows DEF RoutesOK
  <2>4. QED
    BY <1>0, <2>1, <2>2, <2>3, SMTT(30) DEF RoutesOK
<1>2. ASSUME NEW r \in Routes, NEW spec \in RouteSpecs, RC!RouteApplied(r, spec) PROVE RoutesOK'
  BY <1>2 DEF RC!RouteApplied, RoutesOK
<1>3. ASSUME NEW r \in Routes, RC!RouteDeleted(r) PROVE RoutesOK'
  BY <1>3 DEF RC!RouteDeleted, RoutesOK
<1>4. ASSUME NEW r \in Routes, RC!Reconcile(r) PROVE RoutesOK'
  <2>1. UNCHANGED <<routes, endpoints>>
    BY <1>4, Zenon DEF RC!Reconcile, RC!RouteRequeued, RC!RouteGone, RC!RouteIgnored, RC!RouteStart, RC!ServiceResolved,
                RC!ServiceFails, RC!RouteProgrammed, RC!AddNextPair, RC!NoBackends, RC!LimitConfigured, RC!RouteStatus,
                RC!set_route_status_invalid, RC!StatusFails, RC!cluster
  <2>2. PICK task : rtask' = [rtask EXCEPT ![r] = task] /\ TaskOK(task, DOMAIN table', DOMAIN limits')
    BY <1>4, ReconcileStep
  <2>3. /\ DOMAIN rtask' = Routes /\ rtask' = [q \in Routes |-> rtask'[q]]
        /\ \A q \in Routes : TaskOK(rtask'[q], DOMAIN table', DOMAIN limits')
    <3>1. ASSUME NEW q \in Routes PROVE TaskOK(rtask[q], DOMAIN table', DOMAIN limits')
      BY <1>0, TaskGrows DEF RoutesOK
    <3>2. DOMAIN rtask = Routes /\ rtask'[r] = task /\ \A q \in Routes \ {r} : rtask'[q] = rtask[q]
      BY <2>2 DEF RoutesOK
    <3>3. DOMAIN rtask' = Routes /\ rtask' = [q \in Routes |-> rtask'[q]]
      BY <2>2, <3>2, ZenonT(30)
    <3>4. QED
      BY <2>2, <3>1, <3>2, <3>3
  <2>4. PICK when \in {"none", "later", "now"} : rqueue' = [rqueue EXCEPT ![r] = when]
    <3>1. CASE UNCHANGED rqueue
      <4>1. rqueue' = [rqueue EXCEPT ![r] = rqueue[r]] /\ rqueue[r] \in {"none", "later", "now"}
        BY <3>1 DEF RoutesOK
      <4>2. QED
        BY <4>1, Zenon
    <3>2. CASE RC!RouteRequeued(r) \/ RC!RouteGone(r) \/ RC!RouteIgnored(r) \/ RC!RouteStart(r)
      BY <3>2, ZenonT(30) DEF RC!RouteRequeued, RC!RouteGone, RC!RouteIgnored, RC!RouteStart
    <3>3. CASE RC!RouteStatus(r) \/ RC!set_route_status_invalid(r) \/ RC!StatusFails(r)
      BY <3>3 DEF RC!RouteStatus, RC!set_route_status_invalid, RC!StatusFails, RC!Requeue
    <3>4. QED
      BY <1>4, <3>1, <3>2, <3>3, ZenonT(30) DEF RC!Reconcile, RC!ServiceResolved, RC!ServiceFails, RC!RouteProgrammed,
                                    RC!AddNextPair, RC!NoBackends, RC!LimitConfigured
  <2>5. rqueue' \in [Routes -> {"none", "later", "now"}] /\ \A q \in Routes \ {r} : rqueue'[q] = rqueue[q]
    BY <2>4 DEF RoutesOK
  <2>6. CASE RC!RouteIgnored(r)
    <3>1. /\ ignored' = ignored \cup {r} /\ routes[r] # RC!Absent /\ rtask[r] = RC!Idle
          /\ rqueue' = [rqueue EXCEPT ![r] = "none"]
          /\ rtask' = rtask
      BY <2>6 DEF RC!RouteIgnored, RC!Runnable
    <3>2. \A q \in ignored' : routes'[q] # RC!Absent /\ rtask'[q] = RC!Idle /\ rqueue'[q] = "none"
      BY <2>1, <3>1, SMTT(30) DEF RoutesOK
    <3>3. ignored' \subseteq Routes
      BY <3>1 DEF RoutesOK
    <3>4. QED
      BY <1>0, <2>1, <2>3, <2>5, <3>2, <3>3 DEF RoutesOK
  <2>7. CASE ~ RC!RouteIgnored(r)
    <3>1. ignored' = ignored
      BY <1>4, <2>7, ZenonT(30) DEF RC!Reconcile, RC!RouteRequeued, RC!RouteGone, RC!RouteStart, RC!ServiceResolved,
                        RC!ServiceFails, RC!RouteProgrammed, RC!AddNextPair, RC!NoBackends, RC!LimitConfigured,
                        RC!RouteStatus, RC!set_route_status_invalid, RC!StatusFails
    <3>2. rqueue[r] # "none" \/ rtask[r] # RC!Idle
      <4>1. CASE RC!RouteRequeued(r) \/ RC!RouteGone(r) \/ RC!RouteStart(r)
        BY <4>1 DEF RC!RouteRequeued, RC!RouteGone, RC!RouteStart, RC!Runnable
      <4>2. CASE \/ RC!ServiceResolved(r) \/ RC!ServiceFails(r) \/ RC!RouteProgrammed(r) \/ RC!NoBackends(r)
                 \/ RC!LimitConfigured(r) \/ RC!RouteStatus(r) \/ RC!set_route_status_invalid(r) \/ RC!StatusFails(r)
        <5>1. rtask[r].pc \in {"resolve", "status", "invalid"}
          BY <4>2, ZenonT(30) DEF RC!ServiceResolved, RC!ServiceFails, RC!Resolving, RC!RouteProgrammed, RC!NoBackends,
                      RC!LimitConfigured, RC!Resolved, RC!RouteStatus, RC!set_route_status_invalid, RC!StatusFails
        <5>2. QED
          BY <5>1, SMTT(30) DEF RC!Idle
      <4>3. QED
        BY <1>4, <2>7, <4>1, <4>2, SMTT(30) DEF RC!Reconcile
    <3>3. r \notin ignored
      BY <3>2 DEF RoutesOK
    <3>4. \A q \in ignored' : routes'[q] # RC!Absent /\ rtask'[q] = RC!Idle /\ rqueue'[q] = "none"
      BY <2>1, <2>2, <2>5, <3>1, <3>3 DEF RoutesOK
    <3>5. ignored' \subseteq Routes
      BY <3>1 DEF RoutesOK
    <3>6. QED
      BY <1>0, <2>1, <2>3, <2>5, <3>4, <3>5 DEF RoutesOK
  <2>8. QED
    BY <2>6, <2>7, SMTT(30)
<1>5. QED
  BY <1>1, <1>2, <1>3, <1>4, SMTT(30) DEF RC!RNext

\* The table starts empty, with no route ignored and no reconciliation running.
LEMMA RoutesInit == Init => RoutesOK
<1> SUFFICES ASSUME Init PROVE RoutesOK
  OBVIOUS
<1>1. \A r \in Routes : TaskOK(rtask[r], DOMAIN table, DOMAIN limits)
  BY IdleOK DEF Init, RC!RInit
<1>2. QED
  BY <1>1 DEF Init, RC!RInit, RoutesOK

\* Every step of the cluster and of the route controller keeps RoutesOK.
LEMMA RoutesInv == RoutesOK /\ [Next]_vars => RoutesOK'
<1> SUFFICES ASSUME RoutesOK, [Next]_vars PROVE RoutesOK'
  OBVIOUS
<1>1. CASE UNCHANGED rvars
  BY <1>1 DEF rvars, RoutesOK
<1>2. QED
  BY <1>1, RoutesStep DEF Next, vars

-----------------------------------------------------------------------------
\* A path that is served stays served, with some pod, for any routes, services
\* and Gateways and whatever becomes of them.
THEOREM ServedStaysServed == Spec => ServedForGood
<1>1. RoutesOK /\ [Next]_vars => [\A k \in DOMAIN table : k \in DOMAIN table' /\ table'[k] # {}]_vars
  <2> SUFFICES ASSUME RoutesOK, Next PROVE \A k \in DOMAIN table : k \in DOMAIN table' /\ table'[k] # {}
    OBVIOUS
  <2>1. CASE UNCHANGED rvars
    BY <2>1 DEF rvars, RoutesOK
  <2>2. CASE RC!RNext
    BY <2>2, TableGrows, SMTT(30)
  <2>3. QED
    BY <2>1, <2>2 DEF Next
<1>2. QED
  BY <1>1, RoutesInit, RoutesInv, PTL DEF Spec, ServedForGood

\* What the last status of a route says was true when it was written, and the
\* table and the limits lose nothing.
StatusTrue ==
  /\ DOMAIN rstatus = Routes
  /\ \A r \in Routes :
       rstatus[r] # RC!Absent /\ rstatus[r].accepted => Programmed(rstatus[r].spec, DOMAIN table, DOMAIN limits)

\* A step of the route controller keeps the statuses it has written true.
LEMMA StatusStep == RoutesOK /\ StatusTrue /\ RC!RNext => StatusTrue'
<1> SUFFICES ASSUME RoutesOK, StatusTrue, RC!RNext PROVE StatusTrue'
  OBVIOUS
<1>0. DOMAIN table \subseteq DOMAIN table' /\ DOMAIN limits \subseteq DOMAIN limits'
  BY TableGrows
<1>1. CASE UNCHANGED rstatus
  BY <1>0, <1>1 DEF StatusTrue, Programmed
<1>2. ASSUME NEW r \in Routes, RC!RouteDeleted(r) PROVE StatusTrue'
  BY <1>2, Zenon DEF RC!RouteDeleted, StatusTrue, RC!Absent
<1>3. ASSUME NEW r \in Routes, RC!set_route_status_invalid(r) PROVE StatusTrue'
  BY <1>3, SMTT(30) DEF RC!set_route_status_invalid, StatusTrue
<1>4. ASSUME NEW r \in Routes, RC!RouteStatus(r) PROVE StatusTrue'
  <2>1. /\ rtask[r].pc = "status" /\ UNCHANGED <<table, limits>>
        /\ rstatus' = [rstatus EXCEPT ![r] =
             [spec |-> rtask[r].spec, accepted |-> rtask[r].added, resolved |-> rtask[r].resolved]]
    BY <1>4 DEF RC!RouteStatus
  <2>2. rtask[r].added => Programmed(rtask[r].spec, DOMAIN table, DOMAIN limits)
    <3>1. TaskOK(rtask[r], DOMAIN table, DOMAIN limits)
      BY DEF RoutesOK
    <3>2. rtask[r] \in Task
      BY <2>1, <3>1, TaskPlaces DEF TaskOK
    <3>3. QED
      BY <3>1, <3>2 DEF TaskOK
  <2>3. QED
    BY <2>1, <2>2, ZenonT(30) DEF StatusTrue
<1>5. QED
  BY <1>1, <1>2, <1>3, <1>4, ZenonT(30)
     DEF RC!RNext, RC!EndpointsChange, RC!RouteApplied, RC!Reconcile, RC!RouteRequeued, RC!RouteGone, RC!RouteIgnored,
         RC!RouteStart, RC!ServiceResolved, RC!ServiceFails, RC!RouteProgrammed, RC!AddNextPair, RC!NoBackends,
         RC!LimitConfigured, RC!StatusFails

\* An accepted route is on the table with every match that has a valid path, and
\* limited as its annotation asks, however the reconciles of several routes and
\* the edits of users interleave.
THEOREM AcceptedRoutesServed == Spec => []AcceptedIsServed
<1>1. Init => StatusTrue
  BY DEF Init, RC!RInit, StatusTrue
<1>2. RoutesOK /\ StatusTrue /\ [Next]_vars => StatusTrue'
  <2> SUFFICES ASSUME RoutesOK, StatusTrue, [Next]_vars PROVE StatusTrue'
    OBVIOUS
  <2>1. CASE UNCHANGED rvars
    BY <2>1 DEF rvars, StatusTrue
  <2>2. QED
    BY <2>1, StatusStep DEF Next, vars
<1>3. StatusTrue => AcceptedIsServed
  BY DEF StatusTrue, AcceptedIsServed, Programmed
<1>4. QED
  BY <1>1, <1>2, <1>3, RoutesInit, RoutesInv, PTL DEF Spec

\* A route that was ignored is not programmed until it is edited, for any
\* Gateways that enter or leave the index: nothing wakes it up.
THEOREM IgnoredStaysIgnored == Spec => IgnoredForGood
<1> DEFINE Left(r) == RC!Alone(r) => RC!ValidPairs(routes[r]) \cap DOMAIN table' \subseteq DOMAIN table
<1>1. RoutesOK /\ [Next]_vars => [\A r \in ignored \cap ignored' : Left(r)]_vars
  <2> SUFFICES ASSUME RoutesOK, Next, NEW r \in ignored, RC!Alone(r), DOMAIN table' # DOMAIN table
               PROVE  RC!ValidPairs(routes[r]) \cap DOMAIN table' \subseteq DOMAIN table
    OBVIOUS
  <2>1. RC!RNext
    BY SMTT(30) DEF Next, rvars
  <2>2. PICK q \in Routes : RC!RouteProgrammed(q)
    <3>1. \A s \in Services : \A slices \in EndpointSets[s] : ~ RC!EndpointsChange(s, slices)
      BY DEF RC!EndpointsChange
    <3>2. QED
      BY <2>1, <3>1, Zenon
         DEF RC!RNext, RC!RouteApplied, RC!RouteDeleted, RC!Reconcile, RC!RouteRequeued, RC!RouteGone, RC!RouteIgnored,
             RC!RouteStart, RC!ServiceResolved, RC!ServiceFails, RC!NoBackends, RC!LimitConfigured, RC!RouteStatus,
             RC!set_route_status_invalid, RC!StatusFails
  <2> DEFINE task == rtask[q]
             pair == Head(task.pairs)
  <2>3. /\ task.pc = "resolve" /\ task.pairs # << >>
        /\ RC!validate_path(pair.path) /\ DOMAIN table' = DOMAIN table \cup {pair}
    BY <2>2, SMTT(30) DEF RC!RouteProgrammed, RC!Resolved, RC!AddNextPair, RC!add_route
  <2>4. TaskOK(task, DOMAIN table, DOMAIN limits) /\ task \in Task /\ task # RC!Idle
    <3>1. TaskOK(task, DOMAIN table, DOMAIN limits)
      BY DEF RoutesOK
    <3>2. QED
      BY <2>3, <3>1, TaskPlaces, ZenonT(30) DEF TaskOK
  <2>5. q # r
    BY <2>4, SMTT(30) DEF RoutesOK
  <2>6. pair \in RC!ValidPairs(task.spec)
    <3>1. task.pairs \in Seq(Keys)
      BY <2>4 DEF Task
    <3>2. pair \in RC!ToSet(task.pairs)
      BY <2>3, <3>1, HeadAndTail
    <3>3. QED
      BY <2>3, <2>4, <3>2, ZenonT(30) DEF TaskOK, RC!ValidPairs
  <2>7. RC!ValidPairs(task.spec) \cap RC!ValidPairs(routes[r]) = {}
    BY <2>4, <2>5 DEF RC!Alone
  <2>8. QED
    BY <2>3, <2>6, <2>7
<1>2. QED
  BY <1>1, RoutesInit, RoutesInv, PTL DEF Spec, IgnoredForGood
=============================================================================
