-------------------------- MODULE RouteController --------------------------
(***************************************************************************)
(* The HTTPRoute controller (apis/gateway/http_route.rs) and the           *)
(* EndpointSlice watcher (apis/gateway/endpointslice_watcher.rs), which    *)
(* program the route table.  kube-runtime is external, as in               *)
(* GatewayController.                                                      *)
(*                                                                         *)
(* A route has one rule.  Backend lists are sets of addresses: the slots   *)
(* that weights give them are in MaglevTable; ports are left out.  A path  *)
(* is a sequence of slashes and of the texts between them.  The index is   *)
(* maintained by the Gateway controller.                                   *)
(***************************************************************************)
EXTENDS Naturals, Sequences, FiniteSets, SequencesExt

CONSTANTS
  Routes,         \* the HTTPRoute objects
  RouteSpecs,     \* [parents, matches, services, annotation]; a match is [path, method]
  Services,
  EndpointSets    \* EndpointSets[s]: the EndpointSlices that service s may have, each a
                  \* set of endpoints [conditions, address, parses]

VARIABLES
  index,      \* the GatewayIndex
  routes,     \* the HTTPRoute objects of the cluster
  rqueue,     \* when each HTTPRoute is reconciled next
  rtask,      \* the running reconcile of each HTTPRoute
  rstatus,    \* the status of each HTTPRoute: [spec, accepted, resolved]
  endpoints,  \* the EndpointSlices of each service
  table,      \* the router: <<method, path>> -> backends
  limits,     \* the rate limiter: path -> [rate, burst]
  service_routes, \* the EndpointSlice watcher's paths by service
  ignored     \* history: the routes that were ignored, and not edited since

rvars == <<routes, rqueue, rtask, rstatus, endpoints, table, limits, service_routes, ignored>>
cluster == <<routes, endpoints>>

Absent == [absent |-> TRUE]
Idle == [pc |-> "idle"]

\* Router::add_route, here as one step.
add_route(key, pods) ==
  table' = [k \in DOMAIN table \cup {key} |-> IF k = key THEN pods ELSE table[k]]

\* RateLimiter::configure_route: a new bucket, whatever there was.
configure_route(path, limit) ==
  limits' = [p \in DOMAIN limits \cup {path} |-> IF p = path THEN limit ELSE limits[p]]

Slash == "/"

validate_path(path) ==
  /\ path # << >> /\ path[1] = Slash
  /\ \A i \in 2 .. Len(path) : path[i] # Slash \/ path[i - 1] # Slash
  /\ Len(path) > 1 => path[Len(path)] # Slash

\* None, for a match without a method and for CONNECT and TRACE, is every method.
parse_http_method(method) ==
  IF method \in {"GET", "POST", "PUT", "DELETE", "PATCH", "HEAD", "OPTIONS"} THEN method ELSE "ALL"

\* A rule without matches has "/" with all methods.
path_method_pairs(spec) ==
  IF spec.matches = << >> THEN <<[method |-> "ALL", path |-> <<Slash>>]>>
  ELSE [i \in DOMAIN spec.matches |->
          [method |-> parse_http_method(spec.matches[i].method), path |-> spec.matches[i].path]]

\* Without conditions an endpoint is ready, without the ready condition it is not.
is_ready(endpoint) == endpoint.conditions \in {"none", "ready"}

parse_endpointslice_to_backends(slice) ==
  {endpoint.address : endpoint \in {e \in slice : is_ready(e) /\ e.parses}}

aggregate_backends_for_service(slices) == UNION {parse_endpointslice_to_backends(slice) : slice \in slices}

\* [unit, parses, rate, burst]: the burst may be left out (a sequence of none or
\* one), and a route without the annotation has no unit.
parse_rate_limit_annotation(annotation) ==
  [ok |-> annotation.unit = "rps" /\ annotation.parses /\ annotation.rate > 0,
   limit |-> [rate |-> annotation.rate,
              burst |-> IF annotation.burst = << >> THEN annotation.rate ELSE annotation.burst[1]]]

-----------------------------------------------------------------------------
RInit ==
  /\ routes = [r \in Routes |-> Absent]
  /\ rqueue = [r \in Routes |-> "none"]
  /\ rtask = [r \in Routes |-> Idle]
  /\ rstatus = [r \in Routes |-> Absent]
  /\ endpoints \in {e \in [Services -> UNION {EndpointSets[s] : s \in Services}] :
                      \A s \in Services : e[s] \in EndpointSets[s]}
  /\ table = << >>
  /\ limits = << >>
  /\ service_routes = [s \in Services |-> {}]
  /\ ignored = {}

\* The user creates or edits an HTTPRoute.
RouteApplied(r, spec) ==
  /\ routes[r] # spec
  /\ routes' = [routes EXCEPT ![r] = spec]
  /\ rqueue' = [rqueue EXCEPT ![r] = "now"]
  /\ ignored' = ignored \ {r}
  /\ UNCHANGED <<rtask, rstatus, endpoints, table, limits, service_routes>>

\* Nothing is queued for a deleted route, and nothing takes it off the table.
RouteDeleted(r) ==
  /\ routes[r] # Absent
  /\ routes' = [routes EXCEPT ![r] = Absent]
  /\ rstatus' = [rstatus EXCEPT ![r] = Absent]
  /\ ignored' = ignored \ {r}
  /\ UNCHANGED <<rqueue, rtask, endpoints, table, limits, service_routes>>

RouteRequeued(r) ==
  /\ rqueue[r] = "later"
  /\ rqueue' = [rqueue EXCEPT ![r] = "now"]
  /\ UNCHANGED <<rtask, rstatus, cluster, table, limits, service_routes, ignored>>

\* The EndpointSlices of a service change and the EndpointSlice watcher handles
\* the event: it updates the GET routes of the paths that it knows to use the
\* service, with the pods that are ready, if any.  Nothing ever adds to
\* service_routes.
EndpointsChange(s, slices) ==
  /\ slices # endpoints[s]
  /\ endpoints' = [endpoints EXCEPT ![s] = slices]
  /\ LET pods == aggregate_backends_for_service(slices) IN
       table' = [k \in DOMAIN table |->
                   IF pods # {} /\ k.method = "GET" /\ k.path \in service_routes[s] THEN pods ELSE table[k]]
  /\ UNCHANGED <<routes, rqueue, rtask, rstatus, limits, service_routes, ignored>>

-----------------------------------------------------------------------------
\* HTTPRouteReconciler::reconcile

Runnable(r) == rqueue[r] = "now" /\ rtask[r] = Idle

\* GatewayIndex::contains
contains(g) == g \in index

matching_parent_refs(r) == {g \in routes[r].parents : contains(g)}

RouteGone(r) ==
  /\ Runnable(r) /\ routes[r] = Absent
  /\ rqueue' = [rqueue EXCEPT ![r] = "none"]
  /\ UNCHANGED <<rtask, rstatus, cluster, table, limits, service_routes, ignored>>

\* Faulty variant of RouteIgnored: the route is looked at again later.
IgnoredAndRequeued(r) ==
  /\ Runnable(r) /\ routes[r] # Absent /\ matching_parent_refs(r) = {}
  /\ rqueue' = [rqueue EXCEPT ![r] = "later"]
  /\ ignored' = ignored \cup {r}
  /\ UNCHANGED <<rtask, rstatus, cluster, table, limits, service_routes>>

\* No parent is in the index: await_change.
RouteIgnored(r) ==
  /\ Runnable(r) /\ routes[r] # Absent /\ matching_parent_refs(r) = {}
  /\ rqueue' = [rqueue EXCEPT ![r] = "none"]
  /\ ignored' = ignored \cup {r}
  /\ UNCHANGED <<rtask, rstatus, cluster, table, limits, service_routes>>

\* The first path of the rule is validated: an invalid one goes straight to the
\* status.
RouteStart(r) ==
  /\ Runnable(r) /\ routes[r] # Absent /\ matching_parent_refs(r) # {}
  /\ rqueue' = [rqueue EXCEPT ![r] = "none"]
  /\ rtask' = [rtask EXCEPT ![r] =
       [pc |-> IF validate_path(path_method_pairs(routes[r])[1].path) THEN "resolve" ELSE "invalid",
        spec |-> routes[r], todo |-> routes[r].services, pairs |-> path_method_pairs(routes[r]),
        pods |-> {}, resolved |-> TRUE, added |-> FALSE]]
  /\ UNCHANGED <<rstatus, cluster, table, limits, service_routes, ignored>>

\* resolve_service_endpoints: the ready pods of all slices of the next backendRef.
Endpoints(r) == aggregate_backends_for_service(endpoints[Head(rtask[r].todo)])

Resolving(r) == rtask[r].pc = "resolve" /\ rtask[r].todo # << >>

\* Faulty variant of ServiceResolved: only the last service counts.
LastServiceOnly(r) ==
  /\ Resolving(r)
  /\ LET pods == Endpoints(r) IN
       rtask' = [rtask EXCEPT ![r].todo = Tail(@), ![r].pods = pods, ![r].resolved = @ /\ pods # {}]
  /\ UNCHANGED <<rqueue, rstatus, cluster, table, limits, service_routes, ignored>>

ServiceResolved(r) ==
  /\ Resolving(r)
  /\ LET pods == Endpoints(r) IN
       rtask' = [rtask EXCEPT ![r].todo = Tail(@), ![r].pods = @ \cup pods, ![r].resolved = @ /\ pods # {}]
  /\ UNCHANGED <<rqueue, rstatus, cluster, table, limits, service_routes, ignored>>

\* The service or its slices cannot be read.
ServiceFails(r) ==
  /\ Resolving(r)
  /\ rtask' = [rtask EXCEPT ![r].todo = Tail(@), ![r].resolved = FALSE]
  /\ UNCHANGED <<rqueue, rstatus, cluster, table, limits, service_routes, ignored>>

Resolved(r) == rtask[r].pc = "resolve" /\ rtask[r].todo = << >>

\* The next pair of a path and a method is added, or skipped when the path is
\* invalid.
AddNextPair(r) ==
  /\ rtask[r].pairs # << >>
  /\ LET pair == Head(rtask[r].pairs) IN
       IF validate_path(pair.path) THEN add_route(pair, rtask[r].pods) ELSE UNCHANGED table
  /\ rtask' = [rtask EXCEPT ![r].pairs = Tail(@)]
  /\ UNCHANGED <<rqueue, rstatus, cluster, limits, service_routes, ignored>>

\* Faulty variant of RouteProgrammed: a route without pods is programmed too.
ProgramEmpty(r) == Resolved(r) /\ AddNextPair(r)

RouteProgrammed(r) == Resolved(r) /\ rtask[r].pods # {} /\ AddNextPair(r)

\* "No backends found": the rule is skipped, the table keeps what it has.
NoBackends(r) ==
  /\ Resolved(r) /\ rtask[r].pods = {}
  /\ rtask' = [rtask EXCEPT ![r].pc = "status"]
  /\ UNCHANGED <<rqueue, rstatus, cluster, table, limits, service_routes, ignored>>

\* The rate limit annotation, after the route is already being served: of the
\* paths of the rule the first one gets the limit.
LimitConfigured(r) ==
  /\ Resolved(r) /\ rtask[r].pods # {} /\ rtask[r].pairs = << >>
  /\ LET parsed == parse_rate_limit_annotation(rtask[r].spec.annotation) IN
       IF parsed.ok THEN configure_route(path_method_pairs(rtask[r].spec)[1].path, parsed.limit) ELSE UNCHANGED limits
  /\ rtask' = [rtask EXCEPT ![r].pc = "status", ![r].added = TRUE]
  /\ UNCHANGED <<rqueue, rstatus, cluster, table, service_routes, ignored>>

Requeue(r, when) ==
  rqueue' = [rqueue EXCEPT ![r] = IF @ = "now" THEN "now" ELSE when]

\* Faulty variant of RouteStatus: accepted although no rule was added.
AlwaysAccepted(r) ==
  /\ rtask[r].pc = "status" /\ routes[r] # Absent
  /\ rstatus' = [rstatus EXCEPT ![r] =
       [spec |-> rtask[r].spec, accepted |-> TRUE, resolved |-> rtask[r].resolved]]
  /\ rtask' = [rtask EXCEPT ![r] = Idle]
  /\ \E when \in {"now", "later"} : Requeue(r, when)
  /\ UNCHANGED <<cluster, table, limits, service_routes, ignored>>

\* "Accepted: False", and nothing about the references.
set_route_status_invalid(r) ==
  /\ rtask[r].pc = "invalid" /\ routes[r] # Absent
  /\ rstatus' = [rstatus EXCEPT ![r] = [spec |-> rtask[r].spec, accepted |-> FALSE]]
  /\ rtask' = [rtask EXCEPT ![r] = Idle]
  /\ \E when \in {"now", "later"} : Requeue(r, when)
  /\ UNCHANGED <<cluster, table, limits, service_routes, ignored>>

RouteStatus(r) ==
  /\ rtask[r].pc = "status" /\ routes[r] # Absent
  /\ rstatus' = [rstatus EXCEPT ![r] =
       [spec |-> rtask[r].spec, accepted |-> rtask[r].added, resolved |-> rtask[r].resolved]]
  /\ rtask' = [rtask EXCEPT ![r] = Idle]
  /\ \E when \in {"now", "later"} : Requeue(r, when)
  /\ UNCHANGED <<cluster, table, limits, service_routes, ignored>>

\* The patch fails: error_policy.
StatusFails(r) ==
  /\ rtask[r].pc \in {"status", "invalid"}
  /\ rtask' = [rtask EXCEPT ![r] = Idle]
  /\ Requeue(r, "later")
  /\ UNCHANGED <<rstatus, cluster, table, limits, service_routes, ignored>>

Reconcile(r) ==
  \/ RouteRequeued(r) \/ RouteGone(r) \/ RouteIgnored(r) \/ RouteStart(r)
  \/ ServiceResolved(r) \/ ServiceFails(r) \/ RouteProgrammed(r) \/ NoBackends(r)
  \/ LimitConfigured(r) \/ RouteStatus(r) \/ set_route_status_invalid(r) \/ StatusFails(r)

RNext ==
  \/ \E s \in Services : \E slices \in EndpointSets[s] : EndpointsChange(s, slices)
  \/ \E r \in Routes :
       \/ \E spec \in RouteSpecs : RouteApplied(r, spec)
       \/ RouteDeleted(r)
       \/ Reconcile(r)

-----------------------------------------------------------------------------
AllPods == UNION {aggregate_backends_for_service(slices) : slices \in UNION {EndpointSets[s] : s \in Services}}

ValidPairs(spec) == {pair \in ToSet(path_method_pairs(spec)) : validate_path(pair.path)}

Reconciled(r) == rqueue[r] # "none" \/ rtask[r] # Idle

Alone(r) ==
  \A q \in Routes \ {r} :
    /\ rtask[q] = Idle \/ ValidPairs(rtask[q].spec) \cap ValidPairs(routes[r]) = {}
    /\ routes[q] = Absent \/ ValidPairs(routes[q]) \cap ValidPairs(routes[r]) = {}

Pods(spec) == UNION {aggregate_backends_for_service(endpoints[s]) : s \in ToSet(spec.services)}
=============================================================================
