---------------------------- MODULE ControlPlane ----------------------------
(***************************************************************************)
(* The Gateway and the HTTPRoute controllers side by side, as main.rs      *)
(* starts them.  They share the GatewayIndex and nothing else: a Gateway   *)
(* that enters the index wakes up no HTTPRoute.                            *)
(***************************************************************************)
EXTENDS Sequences, FiniteSets

CONSTANTS Gateways, Ours, GatewaySpecs, Secrets, Routes, RouteSpecs, Services, EndpointSets

\* What the API server lets through: matches and backendRefs are lists.
ASSUME RouteSpecsAssumption ==
  \A spec \in RouteSpecs :
    spec.matches \in Seq([path : Seq(STRING), method : STRING]) /\ spec.services \in Seq(Services)

VARIABLES
  gateways, gqueue, gtask, gstatus, secrets, index, listeners, tls,
  routes, rqueue, rtask, rstatus, endpoints, table, limits, service_routes, ignored

GC == INSTANCE GatewayController
RC == INSTANCE RouteController

gvars == <<gateways, gqueue, gtask, gstatus, secrets, index, listeners, tls>>
rvars == <<routes, rqueue, rtask, rstatus, endpoints, table, limits, service_routes, ignored>>
vars == <<gvars, rvars>>

\* main.rs makes the listener manager without TLS.
Init == GC!GInit /\ RC!RInit /\ ~ tls

Next ==
  \/ GC!GNext /\ UNCHANGED rvars
  \/ RC!RNext /\ UNCHANGED gvars

\* Both controllers keep running and the requeue timers fire.
Fairness ==
  /\ \A g \in Gateways : WF_vars(GC!Reconcile(g) /\ UNCHANGED rvars)
  /\ \A r \in Routes : WF_vars(RC!Reconcile(r) /\ UNCHANGED gvars)

Spec == Init /\ [][Next]_vars /\ Fairness

-----------------------------------------------------------------------------
\* "Routes persist until explicitly updated": a path that is once served is
\* served for good and always with some pod, also when its route is deleted or
\* edited, its Gateway changes class, or its services lose their last pod.
ServedForGood ==
  [][\A k \in DOMAIN table : k \in DOMAIN table' /\ table'[k] # {}]_vars

\* "HTTPRoute is accepted and configured": every match of an accepted route that
\* has a valid path is on the table, and its first path has a rate limit if the
\* accepted spec asks for one.
AcceptedIsServed ==
  \A r \in Routes :
    rstatus[r] # RC!Absent /\ rstatus[r].accepted =>
      LET spec == rstatus[r].spec IN
      /\ RC!ValidPairs(spec) \subseteq DOMAIN table
      /\ RC!parse_rate_limit_annotation(spec.annotation).ok => RC!path_method_pairs(spec)[1].path \in DOMAIN limits

\* The route is left alone, and its services are resolved with these pods.
Settled(r, spec, pods) == routes[r] = spec /\ RC!Pods(spec) = pods /\ (rtask[r] = RC!Idle \/ rtask[r].resolved)

\* "Backend pool is updated if Pod IPs changed": a route that keeps being
\* reconciled, and shares its path with no other, ends up with the ready pods of
\* its services once they stop changing and are resolved, on each of its matches.
BackendsFollow ==
  \A r \in Routes, spec \in {s \in RouteSpecs : RC!validate_path(RC!path_method_pairs(s)[1].path)} :
    \A pods \in SUBSET RC!AllPods \ {{}} :
      <>[](Settled(r, spec, pods) /\ RC!Reconciled(r) /\ RC!Alone(r)) =>
        <>[](\A pair \in RC!ValidPairs(spec) : pair \in DOMAIN table /\ table[pair] = pods)

\* A route none of whose Gateways is in the index is answered with await_change,
\* and a Gateway that enters the index later wakes up no route: until the route
\* itself is edited it is not programmed, whatever happens to its Gateway.
IgnoredForGood ==
  [][\A r \in ignored \cap ignored' :
       RC!Alone(r) => RC!ValidPairs(routes[r]) \cap DOMAIN table' \subseteq DOMAIN table]_vars
=============================================================================
