---------------------------- MODULE MCRouteTable ----------------------------
(***************************************************************************)
(* Two callers that add routes and one client.                             *)
(***************************************************************************)
EXTENDS RouteTable, TLC

At(m, p) == [method |-> m, path |-> p]

Api == <<"api">>
Users == <<"api", "users">>
User == <<"api", "users", "1">>

Exactly(n, v) == [name |-> n, value |-> v, regex |-> FALSE]
Matching(n, v) == [name |-> n, value |-> v, regex |-> TRUE]

Offer(k, bs) == [key |-> k, backends |-> bs]

\* Each of the calls is made for one key at least, and the map may hold up to
\* three routes, two of them for one path.  A route for all methods has a
\* longer path than the one for GET.
MCOffers ==
  [add_route |-> {Offer(At("GET", Api), "s1"), Offer(At(ALL, Users), "s2")},
   headers |-> {[key |-> At(ALL, Users), backends |-> "s1",
                 headers |-> {Exactly("X-Env", "canary"), Matching("x-id", "[0-9]+")}]},
   methods |-> {[key |-> At(ALL, Api), backends |-> "s1", methods |-> {"GET"}]},
   query_params |-> {[key |-> At(ALL, Users), backends |-> "s1", query |-> {Exactly("v", "2")}]},
   filters |-> {Offer(At(ALL, Users), "s2")},
   response_filters |-> {Offer(At(ALL, Users), "s2")},
   redirect |-> {Offer(At(ALL, Users), "s2")},
   timeout |-> {Offer(At("GET", Api), "s1")},
   retry |-> {Offer(At("GET", Api), "s1")}]

Pair(n, v) == [name |-> n, value |-> v]

Request(m, p, headers, query) == [method |-> m, path |-> p, headers |-> headers, query |-> query]

MCRequests ==
  {Request("GET", Api, {}, {}),
   Request("GET", Users, {Pair("x-env", "canary"), Pair("X-Id", "7")}, {Pair("v", "2")}),
   Request("POST", User, {Pair("x-env", "canary")}, {Pair("V", "2")})}

MCLower(name) ==
  CASE name \in {"X-Env", "x-env"} -> "x-env"
    [] name \in {"X-Id", "x-id"} -> "x-id"

MCIsMatch(pattern, value) == pattern = "[0-9]+" /\ value = "7"

AdderSymmetry == Permutations(Adders)
=============================================================================
