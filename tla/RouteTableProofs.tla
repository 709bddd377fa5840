-------------------------- MODULE RouteTableProofs --------------------------
(***************************************************************************)
(* Where lookups lead, for any routes, adders, clients and cache size.     *)
(***************************************************************************)
EXTENDS RouteTable, FiniteSetTheorems, WellFoundedInduction, TLAPS

\* A nonempty set of keys whose paths are bounded has a longest one: the one
\* that has the least room left below the bound.
LEMMA LongestIn ==
  ASSUME NEW S, S # {}, NEW n \in Nat, \A k \in S : Len(k.path) \in Nat /\ Len(k.path) <= n
  PROVE  Longest(S) \in S /\ \A l \in S : Len(l.path) <= Len(Longest(S).path)
<1> DEFINE Room(k) == Len(k.path) + 1 .. n
           Rooms == {Room(k) : k \in S}
<1>1. Rooms \subseteq FiniteSubsetsOf(Nat)
  <2> SUFFICES ASSUME NEW k \in S PROVE Room(k) \in FiniteSubsetsOf(Nat)
    OBVIOUS
  <2>1. IsFiniteSet(Room(k))
    BY FS_Interval
  <2> QED
    BY <2>1 DEF FiniteSubsetsOf
<1>2. PICK R \in Rooms : \A T \in Rooms : <<T, R>> \notin StrictSubsetOrdering(Nat)
  <2>1. Rooms # {}
    OBVIOUS
  <2>2. IsWellFoundedOn(StrictSubsetOrdering(Nat), FiniteSubsetsOf(Nat))
    BY FS_StrictSubsetOrderingWellFounded
  <2> HIDE DEF Rooms
  <2> QED
    BY <1>1, <2>1, <2>2, WFMin
<1>3. PICK k \in S : R = Room(k)
  OBVIOUS
<1>4. ASSUME NEW l \in S PROVE Len(l.path) <= Len(k.path)
  <2> SUFFICES ASSUME Len(k.path) < Len(l.path) PROVE FALSE
    OBVIOUS
  <2>1. Room(l) \subseteq Room(k) /\ Room(l) # Room(k)
    <3>1. Len(l.path) \in Room(k) /\ Len(l.path) \notin Room(l)
      OBVIOUS
    <3> QED
      BY <3>1
  <2>2. Room(l) \in SUBSET Nat /\ Room(k) \in SUBSET Nat
    OBVIOUS
  <2> HIDE DEF Room
  <2> QED
    BY <1>2, <1>3, <2>1, <2>2, Zenon DEF StrictSubsetOrdering
<1> QED
  BY <1>4 DEF Longest

\* What PrefixAt finds is a key of the router, for the method and the path.
LEMMA FoundAt ==
  ASSUME NEW router, NEW method, NEW path, Len(path) \in Nat,
         \A k \in router.keys : Len(k.path) \in Nat,
         PrefixAt(router, method, path) # None
  PROVE  LET k == PrefixAt(router, method, path) IN
         k \in router.keys /\ get_method_prefix(router, k) = method /\ IsPrefix(k.path, path)
<1> DEFINE S == {k \in router.keys : get_method_prefix(router, k) = method /\ IsPrefix(k.path, path)}
<1>1. PrefixAt(router, method, path) = Longest(S)
  BY DEF PrefixAt
<1>2. S # {}
  BY <1>1 DEF Longest
<1>3. \A k \in S : Len(k.path) \in Nat /\ Len(k.path) <= Len(path)
  BY DEF IsPrefix
<1>4. Longest(S) \in S
  <2> HIDE DEF S
  <2> QED
    BY <1>2, <1>3, LongestIn
<1> QED
  BY <1>1, <1>4

-----------------------------------------------------------------------------
\* A key that add_route was called with.
Added(k) == k \in RouteKey /\ k # None

\* The prefix router lags behind the map and is never ahead of it.
TableOK ==
  /\ \A k \in DOMAIN routes : Added(k)
  /\ prefix.keys \subseteq DOMAIN routes
  /\ blind \/ prefix.methods

\* So are the routers that are being built.
AddersOK ==
  /\ DOMAIN apc = Adders /\ DOMAIN job = Adders /\ DOMAIN built = Adders
  /\ \A a \in Adders :
       /\ built[a].keys \subseteq DOMAIN routes
       /\ apc[a] = "insert" => Added(job[a].key)
       /\ apc[a] = "swap" => job[a].variant \/ built[a].methods

\* A client that has resolved its lookup still knows what it looks up.
ClientsOK ==
  /\ DOMAIN cpc = Clients /\ DOMAIN lookup = Clients /\ DOMAIN resolved = Clients
  /\ \A c \in Clients :
       /\ cpc[c] \in {"idle", "resolve"} => resolved[c] = None
       /\ cpc[c] = "fill" => resolved[c] # None
       /\ cpc[c] \in {"resolve", "fill"} => lookup[c] \in Requests

LookupsOK == TableOK /\ AddersOK /\ ClientsOK /\ ResolutionsServe

\* A path is its own prefix.
LEMMA SelfPrefix == ASSUME NEW path, Len(path) \in Nat PROVE IsPrefix(path, path)
BY DEF IsPrefix

\* A prefix route that is found leads where the lookup wants to go.
LEMMA PrefixLeads ==
  ASSUME TableOK, NEW k, Len(k.path) \in Nat, PrefixMatch(k) # None
  PROVE  Leads(PrefixMatch(k), k)
<1>1. \A l \in prefix.keys : Len(l.path) \in Nat /\ l \in DOMAIN routes
  BY DEF TableOK, Added, RouteKey
<1>2. PICK method \in {k.method, ALL} : PrefixMatch(k) = PrefixAt(prefix, method, k.path)
  BY DEF PrefixMatch
<1>3. /\ PrefixMatch(k) \in prefix.keys /\ get_method_prefix(prefix, PrefixMatch(k)) = method
      /\ IsPrefix(PrefixMatch(k).path, k.path)
  BY <1>1, <1>2, FoundAt
<1>4. blind \/ PrefixMatch(k).method = method
  BY <1>3 DEF TableOK, get_method_prefix
<1> QED
  BY <1>1, <1>2, <1>3, <1>4 DEF Leads, Serves

\* Every lookup of the table does.
LEMMA ResolveLeads ==
  ASSUME TableOK, NEW request \in Requests
  PROVE  LET k == Key(request) IN
         /\ Resolve(k) # None => Leads(Resolve(k), k)
         /\ ResolveUncached(k) # None => Leads(ResolveUncached(k), k)
<1> DEFINE k == Key(request)
           allKey == [k EXCEPT !.method = ALL]
<1>1. Len(k.path) \in Nat /\ allKey.path = k.path /\ allKey.method = ALL
  BY PathsAssumption DEF Key, RouteKey
<1>2. k \in DOMAIN routes => Leads(k, k)
  BY <1>1, SelfPrefix DEF Leads, Serves
<1>3. allKey \in DOMAIN routes => Leads(allKey, k)
  BY <1>1, SelfPrefix DEF Leads, Serves
<1> HIDE DEF k, allKey
<1>4. Resolve(k) # None => Leads(Resolve(k), k)
  BY <1>1, <1>2, <1>3, PrefixLeads DEF Resolve, allKey
<1>5. ResolveUncached(k) # None => Leads(ResolveUncached(k), k)
  BY <1>1, <1>2, PrefixLeads DEF ResolveUncached
<1> QED
  BY <1>4, <1>5 DEF k

-----------------------------------------------------------------------------
\* Leads, of a map and a history that are given.
LeadsIn(keys, b, r, k) == r \in keys /\ IsPrefix(r.path, k.path) /\ (b \/ Serves(r, k))

\* Routes are never removed, so that what leads somewhere goes on doing so.
LEMMA StillServe ==
  ASSUME ResolutionsServe, DOMAIN routes \subseteq DOMAIN routes', blind => blind',
         UNCHANGED <<entries, lookup, resolved>>
  PROVE  ResolutionsServe'
<1>1. ASSUME NEW r, NEW k, LeadsIn(DOMAIN routes, blind, r, k) PROVE LeadsIn(DOMAIN routes', blind', r, k)
  BY <1>1 DEF LeadsIn
<1>2. \A k \in DOMAIN entries : LeadsIn(DOMAIN routes, blind, entries[k], k)
  BY DEF ResolutionsServe, Leads, LeadsIn
<1>3. \A c \in Clients : resolved[c] # None => LeadsIn(DOMAIN routes, blind, resolved[c], Key(lookup[c]))
  BY DEF ResolutionsServe, Leads, LeadsIn
<1>4. \A k \in DOMAIN entries' : LeadsIn(DOMAIN routes', blind', entries'[k], k)
  BY <1>1, <1>2
<1>5. \A c \in Clients : resolved'[c] # None => LeadsIn(DOMAIN routes', blind', resolved'[c], Key(lookup'[c]))
  BY <1>1, <1>3
<1> QED
  BY <1>4, <1>5 DEF ResolutionsServe, Leads, LeadsIn

\* The steps of an adder that insert a route.
LEMMA Inserts ==
  ASSUME LookupsOK, NEW a \in Adders, NEW k, Added(k), NEW route,
         routes' = Put(routes, k, route), UNCHANGED <<prefix, cache, built, clients, blind>>,
         apc' = [apc EXCEPT ![a] = "rebuild"],
         DOMAIN job' = Adders, \A b \in Adders \ {a} : job'[b] = job[b]
  PROVE  LookupsOK'
<1>1. DOMAIN routes' = DOMAIN routes \cup {k}
  BY DEF Put
<1>2. TableOK'
  BY <1>1 DEF LookupsOK, TableOK, Added
<1>3. AddersOK'
  BY <1>1 DEF LookupsOK, AddersOK, Added
<1>4. ClientsOK'
  BY DEF LookupsOK, ClientsOK, clients
<1>5. ResolutionsServe'
  BY <1>1, StillServe DEF LookupsOK, cache, clients
<1> QED
  BY <1>2, <1>3, <1>4, <1>5 DEF LookupsOK

\* Everything an adder does.
LEMMA AdderStep == ASSUME LookupsOK, NEW a \in Adders, Adds(a) PROVE LookupsOK'
<1>1. ASSUME NEW o \in Offers["add_route"], AddCheck(a, o.key, o.backends) PROVE LookupsOK'
  <2>1. Added(o.key)
    BY PathsAssumption DEF Added
  <2>2. AddersOK'
    BY <1>1, <2>1 DEF LookupsOK, AddersOK, AddCheck, table, Added
  <2>3. TableOK' /\ ClientsOK'
    BY <1>1, ZenonT(30) DEF LookupsOK, TableOK, ClientsOK, AddCheck, table, clients, history, Added
  <2>4. ResolutionsServe'
    <3>1. UNCHANGED <<routes, entries, lookup, resolved, blind>>
      BY <1>1, Zenon DEF AddCheck, table, cache, clients
    <3>2. ResolutionsServe
      BY Zenon DEF LookupsOK
    <3> QED
      BY <3>1, <3>2, StillServe, Zenon
  <2> QED
    BY <2>2, <2>3, <2>4 DEF LookupsOK
<1>2. ASSUME NEW k, Added(k), NEW route, NEW held, AddVariant(a, k, route, held) PROVE LookupsOK'
  BY <1>2, Inserts, Zenon DEF AddVariant, LookupsOK, AddersOK
<1>3. ASSUME \/ \E o \in Offers["headers"] : add_route_with_headers(a, o)
             \/ \E o \in Offers["methods"] : add_route_with_methods(a, o)
             \/ \E o \in Offers["query_params"] : add_route_with_query_params(a, o)
             \/ \E o \in Offers["filters"] : add_route_with_filters(a, o)
             \/ \E o \in Offers["response_filters"] : add_route_with_response_filters(a, o)
             \/ \E o \in Offers["redirect"] : add_route_with_redirect(a, o)
             \/ \E o \in Offers["timeout"] : add_route_with_timeout(a, o)
             \/ \E o \in Offers["retry"] : add_route_with_retry(a, o)
      PROVE  LookupsOK'
  <2>1. \A f \in {"headers", "methods", "query_params", "filters", "response_filters", "redirect", "timeout", "retry"} :
          \A o \in Offers[f] : Added(o.key)
    BY PathsAssumption DEF Added
  <2>2. \E k, route, held : Added(k) /\ AddVariant(a, k, route, held)
    BY <1>3, <2>1, Zenon
       DEF add_route_with_headers, add_route_with_methods, add_route_with_query_params, add_route_with_filters,
           add_route_with_response_filters, add_route_with_redirect, add_route_with_timeout, add_route_with_retry
  <2> QED
    BY <1>2, <2>2
<1>4. ASSUME AddInsert(a) PROVE LookupsOK'
  <2>1. Added(job[a].key)
    BY <1>4 DEF AddInsert, LookupsOK, AddersOK
  <2> QED
    BY <1>4, <2>1, Inserts, Zenon DEF AddInsert, LookupsOK, AddersOK, history
<1>5. ASSUME AddRebuild(a) \/ AddFails(a) \/ AddInvalidate(a) PROVE LookupsOK'
  <2>1. AddersOK'
    <3>1. CASE AddRebuild(a)
      <4>1. Rebuilt(a).keys = DOMAIN routes /\ (job[a].variant \/ Rebuilt(a).methods)
        BY Zenon DEF Rebuilt
      <4> QED
        BY <3>1, <4>1 DEF LookupsOK, AddersOK, Added, AddRebuild, table
    <3>2. CASE AddFails(a) \/ AddInvalidate(a)
      BY <3>2 DEF LookupsOK, AddersOK, Added, AddFails, AddInvalidate, table
    <3> QED
      BY <1>5, <3>1, <3>2
  <2>2. TableOK' /\ ClientsOK'
    BY <1>5 DEF LookupsOK, TableOK, ClientsOK, Added, AddRebuild, AddFails, AddInvalidate, table, clients, history
  <2>3. CASE AddRebuild(a) \/ AddFails(a)
    BY <2>1, <2>2, <2>3, StillServe DEF LookupsOK, AddRebuild, AddFails, table, cache, clients, history
  <2>4. CASE AddInvalidate(a)
    <3>1. entries' = Drop(entries, job[a].key) /\ UNCHANGED <<routes, blind, lookup, resolved>>
      BY <2>4 DEF AddInvalidate, cache_invalidate, table, clients
    <3>2. ResolutionsServe'
      BY <3>1 DEF LookupsOK, ResolutionsServe, Drop, Leads, Serves
    <3> QED
      BY <2>1, <2>2, <3>2 DEF LookupsOK
  <2> QED
    BY <1>5, <2>3, <2>4
<1>6. ASSUME AddSwap(a) PROVE LookupsOK'
  <2>1. TableOK'
    <3>1. built[a].keys \subseteq DOMAIN routes /\ (job[a].variant \/ built[a].methods)
      BY <1>6 DEF AddSwap, LookupsOK, AddersOK
    <3> QED
      BY <1>6, <3>1, Zenon DEF AddSwap, LookupsOK, TableOK, Added
  <2>2. AddersOK' /\ ClientsOK'
    BY <1>6, Zenon DEF AddSwap, LookupsOK, AddersOK, ClientsOK, Added, clients, NoRouter
  <2>3. ResolutionsServe'
    BY <1>6, StillServe, Zenon DEF AddSwap, LookupsOK, cache, clients
  <2> QED
    BY <2>1, <2>2, <2>3 DEF LookupsOK
<1> QED
  BY <1>1, <1>3, <1>4, <1>5, <1>6 DEF Adds

\* The clients' steps leave the table alone.
LEMMA ClientStep ==
  ASSUME LookupsOK, NEW c \in Clients, Looks(c)
  PROVE  LookupsOK'
<1>1. UNCHANGED <<table, adders, history>>
  BY Zenon DEF Looks, CacheGet, select_backend_with_headers, select_backend_with_query_params, LookupUncached,
         ResolveMiss, CacheFill, Serve, Answer
<1>2. TableOK' /\ AddersOK'
  BY <1>1, Zenon DEF LookupsOK, TableOK, AddersOK, Added, table, adders, history
<1>3. ASSUME ClientsOK', ResolutionsServe' PROVE LookupsOK'
  BY <1>2, <1>3 DEF LookupsOK
<1> USE DEF LookupsOK
<1>4. ASSUME NEW request \in Requests, CacheGet(c, request) PROVE ClientsOK' /\ ResolutionsServe'
  <2> DEFINE k == Key(request)
  <2>1. CASE k \in DOMAIN entries
    <3>1. Leads(entries[k], k)
      BY <2>1 DEF ResolutionsServe
    <3>2. /\ lookup' = [lookup EXCEPT ![c] = request] /\ resolved' = [resolved EXCEPT ![c] = entries[k]]
          /\ cpc' = [cpc EXCEPT ![c] = "found"] /\ UNCHANGED <<routes, blind, entries>>
      BY <1>4, <2>1, SMTT(30) DEF CacheGet, table, history
    <3> HIDE DEF k
    <3> QED
      BY <3>1, <3>2, ZenonT(30) DEF ClientsOK, ResolutionsServe, Leads, k
  <2>2. CASE k \notin DOMAIN entries
    <3>1. /\ lookup' = [lookup EXCEPT ![c] = request] /\ resolved[c] = None
          /\ cpc' = [cpc EXCEPT ![c] = "resolve"] /\ UNCHANGED <<routes, blind, entries, resolved>>
      BY <1>4, <2>2, SMTT(30) DEF CacheGet, table, history, ClientsOK
    <3> HIDE DEF k
    <3> QED
      BY <3>1, Zenon DEF ClientsOK, ResolutionsServe, Leads
  <2> QED
    BY <2>1, <2>2, SMTT(30)
<1>5. ASSUME Done(c), UNCHANGED <<routes, blind, entries>> PROVE ClientsOK' /\ ResolutionsServe'
  BY <1>5, ZenonT(30) DEF Done, ClientsOK, ResolutionsServe, Leads
<1>6. ASSUME NEW f, NEW request \in Requests, LookupUncached(c, f, request) PROVE ClientsOK' /\ ResolutionsServe'
  <2> DEFINE k == Key(request)
             r == ResolveUncached(k)
  <2>1. r # None /\ Leads(r, k)
    BY <1>6, ResolveLeads DEF LookupUncached
  <2>2. /\ lookup' = [lookup EXCEPT ![c] = request] /\ resolved' = [resolved EXCEPT ![c] = r]
        /\ cpc' = [cpc EXCEPT ![c] = "found"] /\ UNCHANGED <<routes, blind, entries>>
    BY <1>6 DEF LookupUncached, table, history, cache
  <2> HIDE DEF r
  <2> QED
    BY <2>1, <2>2, ZenonT(30) DEF ClientsOK, ResolutionsServe, Leads
<1>7. ASSUME ResolveMiss(c) PROVE ClientsOK' /\ ResolutionsServe'
  <2> DEFINE r == Resolve(Key(lookup[c]))
  <2>1. lookup[c] \in Requests
    BY <1>7, Zenon DEF ResolveMiss, ClientsOK
  <2>2. CASE r = None
    BY <1>5, <1>7, <2>2, SMTT(30) DEF ResolveMiss, table, history, cache
  <2>3. CASE r # None
    <3>1. Leads(r, Key(lookup[c]))
      BY <2>1, <2>3, ResolveLeads
    <3>2. /\ resolved' = [resolved EXCEPT ![c] = r] /\ cpc' = [cpc EXCEPT ![c] = "fill"]
          /\ UNCHANGED <<routes, blind, entries, lookup>>
      BY <1>7, <2>3, SMTT(30) DEF ResolveMiss, table, history, cache
    <3> HIDE DEF r
    <3> QED
      BY <2>1, <2>3, <3>1, <3>2, ZenonT(30) DEF ClientsOK, ResolutionsServe, Leads
  <2> QED
    BY <2>2, <2>3, SMTT(30)
<1>8. ASSUME CacheFill(c) PROVE ClientsOK' /\ ResolutionsServe'
  <2> DEFINE k == Key(lookup[c])
             r == resolved[c]
  <2>1. Leads(r, k)
    BY <1>8, Zenon DEF CacheFill, ClientsOK, ResolutionsServe
  <2>2. /\ cpc' = [cpc EXCEPT ![c] = "found"] /\ UNCHANGED <<routes, blind, lookup, resolved>>
        /\ \A l \in DOMAIN entries' : \/ l = k /\ entries'[l] = r
                                      \/ l \in DOMAIN entries /\ entries'[l] = entries[l]
    BY <1>8, ZenonT(30) DEF CacheFill, cache_insert, CacheAdd, Put, Drop, table, history
  <2> HIDE DEF k, r
  <2> QED
    BY <2>1, <2>2, ZenonT(30) DEF ClientsOK, ResolutionsServe, Leads
<1>9. ASSUME Serve(c) \/ Answer(c) PROVE ClientsOK' /\ ResolutionsServe'
  <2>1. UNCHANGED <<routes, blind, entries>>
    BY <1>1, <1>9 DEF Serve, Answer, table, history, cache
  <2>2. CASE Done(c)
    BY <1>5, <2>1, <2>2, SMTT(30)
  <2>3. CASE cpc' = [cpc EXCEPT ![c] = "answer"] /\ UNCHANGED <<via, lookup, resolved>>
    BY <2>1, <2>3, ZenonT(30) DEF ClientsOK, ResolutionsServe, Leads
  <2> QED
    BY <1>9, <2>2, <2>3 DEF Serve, Answer
<1> QED
  BY <1>3, <1>4, <1>6, <1>7, <1>8, <1>9 DEF Looks, select_backend_with_headers, select_backend_with_query_params

\* The inductive invariant of the lookups holds from the start and at every step.
LEMMA LookupsInit == Init => LookupsOK
BY DEF Init, LookupsOK, TableOK, AddersOK, ClientsOK, ResolutionsServe, NoRouter

\* Every step of a call or a lookup keeps what the lookups rest on.
LEMMA LookupsStep == LookupsOK /\ [Next]_vars => LookupsOK'
<1> SUFFICES ASSUME LookupsOK, [Next]_vars PROVE LookupsOK'
  OBVIOUS
<1>1. CASE UNCHANGED vars
  BY <1>1, Zenon DEF vars, LookupsOK, TableOK, AddersOK, ClientsOK, ResolutionsServe, Leads, Added
<1> QED
  BY <1>1, AdderStep, ClientStep DEF Next

(***************************************************************************)
(* select_backend and select_backend_with_headers: for any routes, adders  *)
(* and clients, a lookup, cached or not, leads to a route that is in the   *)
(* map and covers the path, and accepts the method as long as all routes   *)
(* come from add_route.                                                    *)
(***************************************************************************)
THEOREM LookupsLead == Spec => []ResolutionsServe
<1>1. LookupsOK => ResolutionsServe
  BY DEF LookupsOK
<1> QED
  BY <1>1, LookupsInit, LookupsStep, PTL DEF Spec

(***************************************************************************)
(* The select functions check the route as it is when they answer: whatever *)
(* has been added since the lookup, the route accepts the request.         *)
(***************************************************************************)
THEOREM AnswersAlwaysAccepted == Spec => AnswersAccepted
<1> DEFINE Accepted ==
      \A c \in Clients :
        cpc[c] # "answer" /\ cpc'[c] = "answer" => Accepts(routes[resolved[c]], via[c], lookup[c])
<1>1. DOMAIN cpc = Clients /\ [Next]_vars => [Accepted]_vars /\ (DOMAIN cpc = Clients)'
  <2> SUFFICES ASSUME DOMAIN cpc = Clients, [Next]_vars PROVE Accepted /\ DOMAIN cpc' = Clients
    OBVIOUS
  <2>1. CASE UNCHANGED cpc
    BY <2>1, SMTT(30)
  <2>2. ASSUME NEW c \in Clients, Looks(c) PROVE Accepted /\ DOMAIN cpc' = Clients
    <3>1. PICK l :
            /\ cpc' = [cpc EXCEPT ![c] = l]
            /\ l = "answer" => Accepts(routes[resolved[c]], via[c], lookup[c])
      <4>1. ASSUME NEW request, CacheGet(c, request)
            PROVE  \E l \in {"found", "resolve"} : cpc' = [cpc EXCEPT ![c] = l]
        BY <4>1, Zenon DEF CacheGet
      <4>2. ASSUME NEW request,
                   select_backend_with_headers(c, request) \/ select_backend_with_query_params(c, request)
            PROVE  cpc' = [cpc EXCEPT ![c] = "found"]
        BY <4>2, Zenon DEF select_backend_with_headers, select_backend_with_query_params, LookupUncached
      <4>3. ASSUME ResolveMiss(c) \/ CacheFill(c) \/ Answer(c)
            PROVE  \E l \in {"idle", "fill", "found"} : cpc' = [cpc EXCEPT ![c] = l]
        BY <4>3, Zenon DEF ResolveMiss, CacheFill, Answer, Done
      <4>4. ASSUME Serve(c)
            PROVE  \/ cpc' = [cpc EXCEPT ![c] = "answer"] /\ Accepts(routes[resolved[c]], via[c], lookup[c])
                   \/ cpc' = [cpc EXCEPT ![c] = "idle"]
        BY <4>4, Zenon DEF Serve, Done
      <4> QED
        BY <2>2, <4>1, <4>2, <4>3, <4>4, Zenon DEF Looks
    <3>2. cpc'[c] = l /\ DOMAIN cpc' = Clients /\ \A d \in Clients \ {c} : cpc'[d] = cpc[d]
      BY <3>1, Zenon
    <3> QED
      BY <3>1, <3>2, Zenon
  <2>3. ASSUME NEW a \in Adders, Adds(a) PROVE UNCHANGED cpc
    BY <2>3, Zenon DEF Adds, AddCheck, AddVariant, AddInsert, AddRebuild, AddFails, AddSwap, AddInvalidate, clients,
                add_route_with_headers, add_route_with_methods, add_route_with_query_params, add_route_with_filters,
                add_route_with_response_filters, add_route_with_redirect, add_route_with_timeout, add_route_with_retry
  <2> QED
    BY <2>1, <2>2, <2>3, ZenonT(30) DEF Next, vars
<1>2. Init => DOMAIN cpc = Clients
  BY DEF Init
<1> QED
  BY <1>1, <1>2, PTL DEF Spec, AnswersAccepted

-----------------------------------------------------------------------------
(***************************************************************************)
(* When the prefix router is complete: after an add_route that overlapped  *)
(* no other call.  Of two calls under way at once both have overlapped, so *)
(* that a call that has not is the only one to touch the map from its      *)
(* insert to its swap.                                                     *)
(***************************************************************************)
Complete == prefix.keys = DOMAIN routes /\ prefix.methods

SerialOK ==
  /\ \A a, b \in Adders : a # b /\ apc[a] # "idle" /\ apc[b] # "idle" => a \in overlapped
  /\ \A a \in Adders \ overlapped :
       /\ apc[a] = "swap" => built[a].keys = DOMAIN routes
       /\ apc[a] = "invalidate" => Complete
  /\ NoAdder /\ last = "ok" => Complete

\* A call begins: with another one under way, both have overlapped.
LEMMA SerialBegins ==
  ASSUME AddersOK, SerialOK, NEW a \in Adders, apc[a] = "idle", Begins(a), NEW l \in {"insert", "rebuild"},
         apc' = [apc EXCEPT ![a] = l], UNCHANGED <<built, prefix>>
  PROVE  SerialOK'
<1>1. apc'[a] = l /\ \A b \in Adders \ {a} : apc'[b] = apc[b]
  BY DEF AddersOK
<1>2. ASSUME NEW b \in Adders \ {a}, apc[b] # "idle" PROVE a \in overlapped' /\ b \in overlapped'
  BY <1>2 DEF Begins, NoAdder
<1>3. overlapped \subseteq overlapped'
  BY DEF Begins
<1>4. ASSUME NEW b \in Adders, NEW c \in Adders, b # c, apc'[b] # "idle", apc'[c] # "idle" PROVE b \in overlapped'
  <2>1. CASE b = a
    BY <1>1, <1>2, <1>4, <2>1, SMTT(30)
  <2>2. CASE b # a
    BY <1>1, <1>2, <1>4, <2>2
  <2> QED
    BY <2>1, <2>2
<1>5. ~ NoAdder'
  BY <1>1 DEF NoAdder
<1>6. \A b \in Adders \ overlapped' : apc'[b] \notin {"swap", "invalidate"}
  BY <1>1, <1>2
<1> QED
  BY <1>4, <1>5, <1>6 DEF SerialOK

\* A step of a call that is under way leaves the other calls alone; what it says
\* of the prefix router has to hold only if it has met no other call.
LEMMA SerialKept ==
  ASSUME SerialOK, NEW a \in Adders, apc[a] # "idle",
         \A b \in Adders \ {a} : apc'[b] = apc[b] /\ built'[b] = built[b],
         overlapped' \in {overlapped, overlapped \ {a}}, apc'[a] # "idle" => overlapped' = overlapped,
         a \notin overlapped /\ apc'[a] = "swap" => built'[a].keys = DOMAIN routes',
         a \notin overlapped /\ apc'[a] = "invalidate" => Complete',
         a \notin overlapped /\ apc'[a] = "idle" /\ last' = "ok" => Complete',
         a \in overlapped /\ apc'[a] = "idle" => last' # "ok"
  PROVE  SerialOK'
<1>1. \A b \in Adders \ {a} : apc[b] # "idle" => b \in overlapped /\ b \in overlapped' /\ a \in overlapped
  BY Zenon DEF SerialOK
<1>2. ASSUME NEW b \in Adders, NEW c \in Adders, b # c, apc'[b] # "idle", apc'[c] # "idle" PROVE b \in overlapped'
  <2>1. CASE b = a
    BY <1>1, <1>2, <2>1, Zenon
  <2>2. CASE b # a
    BY <1>1, <1>2, <2>2, Zenon
  <2> QED
    BY <2>1, <2>2
<1>3. ASSUME NEW b \in Adders \ {a}, b \notin overlapped' PROVE apc'[b] = "idle"
  BY <1>1, <1>3, Zenon
<1>4. ASSUME NEW b \in Adders \ overlapped'
      PROVE  /\ apc'[b] = "swap" => built'[b].keys = DOMAIN routes'
             /\ apc'[b] = "invalidate" => Complete'
  <2>1. CASE b = a
    BY <1>4, <2>1, Zenon
  <2>2. CASE b # a
    BY <1>3, <1>4, <2>2, Zenon
  <2> QED
    BY <2>1, <2>2
<1>5. ASSUME NoAdder', last' = "ok" PROVE Complete'
  BY <1>5, Zenon DEF NoAdder
<1> QED
  BY <1>2, <1>4, <1>5, Zenon DEF SerialOK

\* The steps of a call up to the new router.
LEMMA SerialBuilds ==
  ASSUME AddersOK, SerialOK, NEW a \in Adders
  PROVE  AddInsert(a) \/ AddRebuild(a) => SerialOK'
<1>1. DOMAIN apc = Adders /\ DOMAIN built = Adders
  BY Zenon DEF AddersOK
<1>2. ASSUME AddInsert(a) PROVE SerialOK'
  <2>1. /\ apc[a] # "idle" /\ apc'[a] = "rebuild" /\ overlapped' = overlapped
        /\ \A b \in Adders \ {a} : apc'[b] = apc[b] /\ built'[b] = built[b]
    BY <1>1, <1>2, Zenon DEF AddInsert, history
  <2> QED
    BY <2>1, SerialKept, Zenon
<1>3. ASSUME AddRebuild(a) PROVE SerialOK'
  <2>1. /\ apc[a] # "idle" /\ apc'[a] = "swap" /\ overlapped' = overlapped
        /\ \A b \in Adders \ {a} : apc'[b] = apc[b] /\ built'[b] = built[b]
        /\ built'[a] = Rebuilt(a) /\ routes' = routes
    BY <1>1, <1>3, Zenon DEF AddRebuild, history, table
  <2>2. Rebuilt(a).keys = DOMAIN routes
    BY Zenon DEF Rebuilt
  <2>3. built'[a].keys = DOMAIN routes'
    BY <2>1, <2>2, Zenon
  <2> QED
    BY <2>1, <2>3, SerialKept, Zenon
<1> QED
  BY <1>2, <1>3, Zenon

\* The steps that end a call, or swap in its router.
LEMMA SerialEnds ==
  ASSUME AddersOK, SerialOK, NEW a \in Adders
  PROVE  AddFails(a) \/ AddSwap(a) \/ AddInvalidate(a) => SerialOK'
<1>1. DOMAIN apc = Adders /\ DOMAIN built = Adders
  BY Zenon DEF AddersOK
<1>2. ASSUME NEW how, Ends(a, how)
      PROVE  overlapped' \in {overlapped, overlapped \ {a}} /\ (a \in overlapped => last' # "ok")
             /\ (last' = "ok" => how = "ok")
  BY <1>2, Zenon DEF Ends
<1>3. ASSUME AddFails(a) PROVE SerialOK'
  <2>1. /\ apc[a] # "idle" /\ apc'[a] = "idle" /\ Ends(a, "error")
        /\ \A b \in Adders \ {a} : apc'[b] = apc[b] /\ built'[b] = built[b]
    BY <1>1, <1>3, Zenon DEF AddFails
  <2>2. overlapped' \in {overlapped, overlapped \ {a}} /\ (last' = "ok" => "error" = "ok")
    BY <1>2, <2>1, Zenon
  <2>3. last' # "ok"
    BY <2>2
  <2> QED
    BY <2>1, <2>2, <2>3, SerialKept, Zenon
<1>4. ASSUME AddSwap(a), job[a].variant PROVE SerialOK'
  <2>1. /\ apc[a] # "idle" /\ apc'[a] = "idle" /\ Ends(a, "variant")
        /\ \A b \in Adders \ {a} : apc'[b] = apc[b] /\ built'[b] = built[b]
    BY <1>1, <1>4, Zenon DEF AddSwap
  <2>2. overlapped' \in {overlapped, overlapped \ {a}} /\ (last' = "ok" => "variant" = "ok")
    BY <1>2, <2>1, Zenon
  <2>3. last' # "ok"
    BY <2>2
  <2> QED
    BY <2>1, <2>2, <2>3, SerialKept, Zenon
<1>5. ASSUME AddSwap(a), ~ job[a].variant PROVE SerialOK'
  <2>1. /\ apc[a] = "swap" /\ apc[a] # "idle" /\ apc'[a] = "invalidate" /\ overlapped' = overlapped
        /\ \A b \in Adders \ {a} : apc'[b] = apc[b] /\ built'[b] = built[b]
        /\ prefix' = built[a] /\ routes' = routes
    BY <1>1, <1>5, Zenon DEF AddSwap
  <2>2. a \notin overlapped => built[a].keys = DOMAIN routes
    BY <2>1, Zenon DEF SerialOK
  <2>3. built[a].methods
    BY <1>5, <2>1, Zenon DEF AddersOK
  <2>4. a \notin overlapped => Complete'
    BY <2>1, <2>2, <2>3, Zenon DEF Complete
  <2> QED
    BY <2>1, <2>4, SerialKept, Zenon
<1>6. ASSUME AddInvalidate(a) PROVE SerialOK'
  <2>1. /\ apc[a] = "invalidate" /\ apc[a] # "idle" /\ apc'[a] = "idle" /\ Ends(a, "ok")
        /\ \A b \in Adders \ {a} : apc'[b] = apc[b] /\ built'[b] = built[b]
        /\ prefix' = prefix /\ routes' = routes
    BY <1>1, <1>6, Zenon DEF AddInvalidate, table
  <2>2. overlapped' \in {overlapped, overlapped \ {a}} /\ (a \in overlapped => last' # "ok")
    BY <1>2, <2>1, Zenon
  <2>3. a \notin overlapped => Complete
    BY <2>1, Zenon DEF SerialOK
  <2>4. a \notin overlapped => Complete'
    BY <2>1, <2>3, Zenon DEF Complete
  <2> QED
    BY <2>1, <2>2, <2>4, SerialKept, Zenon
<1> QED
  BY <1>3, <1>4, <1>5, <1>6, Zenon

\* Every step keeps the prefix router complete between calls.
LEMMA SerialStep == LookupsOK /\ SerialOK /\ [Next]_vars => SerialOK'
<1> SUFFICES ASSUME LookupsOK, SerialOK, [Next]_vars PROVE SerialOK'
  OBVIOUS
<1>1. CASE UNCHANGED <<table, adders, history>>
  BY <1>1, Zenon DEF SerialOK, Complete, NoAdder, table, adders, history
<1>2. ASSUME NEW a \in Adders, NEW k, NEW bs, AddCheck(a, k, bs) PROVE SerialOK'
  BY <1>2, SerialBegins, Zenon DEF AddCheck, LookupsOK, table
<1>3. ASSUME NEW a \in Adders, NEW k, NEW route, NEW held, AddVariant(a, k, route, held) PROVE SerialOK'
  BY <1>3, SerialBegins, Zenon DEF AddVariant, LookupsOK
<1>4. ASSUME NEW a \in Adders, Adds(a) PROVE SerialOK'
  <2>1. \/ \E k, bs : AddCheck(a, k, bs)
        \/ \E k, route, held : AddVariant(a, k, route, held)
        \/ AddInsert(a) \/ AddRebuild(a) \/ AddFails(a) \/ AddSwap(a) \/ AddInvalidate(a)
    BY <1>4, Zenon DEF Adds, add_route_with_headers, add_route_with_methods, add_route_with_query_params,
                add_route_with_filters, add_route_with_response_filters, add_route_with_redirect,
                add_route_with_timeout, add_route_with_retry
  <2>2. AddersOK
    BY Zenon DEF LookupsOK
  <2> QED
    BY <1>2, <1>3, <2>1, <2>2, SerialBuilds, SerialEnds, Zenon
<1>5. ASSUME NEW c \in Clients, Looks(c) PROVE UNCHANGED <<table, adders, history>>
  BY <1>5, Zenon DEF Looks, CacheGet, select_backend_with_headers, select_backend_with_query_params, LookupUncached,
         ResolveMiss, CacheFill, Serve, Answer
<1> QED
  BY <1>1, <1>4, <1>5 DEF Next, vars, table, adders, history

-----------------------------------------------------------------------------
\* Two prefixes of a path with the same length are the same.
LEMMA SamePrefix ==
  ASSUME NEW p \in Seq(STRING), NEW q \in Seq(STRING), NEW path \in Seq(STRING),
         IsPrefix(p, path), IsPrefix(q, path), Len(p) = Len(q)
  PROVE  p = q
BY DEF IsPrefix

\* In a complete router, the best pattern of a method is the longest route of
\* that method that covers the path.
LEMMA BestAt ==
  ASSUME TableOK, Complete, NEW method, NEW path \in Seq(STRING)
  PROVE  LET f == PrefixAt(prefix, method, path) IN
         /\ f # None => f \in DOMAIN routes /\ f.method = method /\ IsPrefix(f.path, path)
         /\ \A r \in DOMAIN routes :
              r.method = method /\ IsPrefix(r.path, path) => f # None /\ Len(r.path) <= Len(f.path)
<1> DEFINE S == {k \in prefix.keys : get_method_prefix(prefix, k) = method /\ IsPrefix(k.path, path)}
           f == PrefixAt(prefix, method, path)
<1>1. f = Longest(S)
  BY DEF PrefixAt
<1>2. \A k : k \in S <=> k \in DOMAIN routes /\ k.method = method /\ IsPrefix(k.path, path)
  BY DEF Complete, get_method_prefix
<1>3. \A k \in S : Len(k.path) \in Nat /\ Len(k.path) <= Len(path) /\ k # None
  BY <1>2 DEF IsPrefix, TableOK, Added, RouteKey
<1>4. Len(path) \in Nat
  OBVIOUS
<1>5. S # {} => f \in S /\ \A l \in S : Len(l.path) <= Len(f.path)
  <2> HIDE DEF S, f
  <2> QED
    BY <1>1, <1>3, <1>4, LongestIn, SMTT(30)
<1>6. S = {} => f = None
  BY <1>1 DEF Longest
<1> HIDE DEF S, f
<1> QED
  BY <1>2, <1>3, <1>5, <1>6, SMTT(30) DEF f

\* What the lookups of a complete table find: a route of the method before one
\* for all methods (but for the exact route for all methods in select_backend),
\* and the longest of them.
LEMMA BestFound ==
  ASSUME TableOK, Complete, NEW k \in RouteKey, NEW f \in {Resolve(k), ResolveUncached(k)}
  PROVE  /\ f # None => f \in DOMAIN routes /\ Serves(f, k)
         /\ \A r \in DOMAIN routes :
              Serves(r, k) => /\ f # None
                              /\ r.method = f.method => Len(r.path) <= Len(f.path)
                              /\ \/ r.method = f.method
                                 \/ r.method = ALL
                                 \/ f = [k EXCEPT !.method = ALL] /\ f = Resolve(k)
<1> DEFINE own == PrefixAt(prefix, k.method, k.path)
           all == PrefixAt(prefix, ALL, k.path)
           allKey == [k EXCEPT !.method = ALL]
<1>1. k.path \in Seq(STRING) /\ allKey.path = k.path /\ allKey.method = ALL /\ Len(k.path) \in Nat
  BY DEF RouteKey
<1>2. /\ own # None => own \in DOMAIN routes /\ own.method = k.method /\ IsPrefix(own.path, k.path)
      /\ \A r \in DOMAIN routes :
           r.method = k.method /\ IsPrefix(r.path, k.path) => own # None /\ Len(r.path) <= Len(own.path)
  BY <1>1, BestAt
<1>3. /\ all # None => all \in DOMAIN routes /\ all.method = ALL /\ IsPrefix(all.path, k.path)
      /\ \A r \in DOMAIN routes :
           r.method = ALL /\ IsPrefix(r.path, k.path) => all # None /\ Len(r.path) <= Len(all.path)
  BY <1>1, BestAt
<1>4. \A r \in DOMAIN routes : r # None
  BY DEF TableOK, Added
<1>5. \A r : IsPrefix(r.path, k.path) => Len(r.path) <= Len(k.path)
  BY DEF IsPrefix
<1>6. IsPrefix(k.path, k.path)
  BY <1>1, SelfPrefix
<1>7. PrefixMatch(k) = IF own = None THEN all ELSE own
  BY DEF PrefixMatch
<1>8. \/ f = k /\ k \in DOMAIN routes
      \/ f = allKey /\ f = Resolve(k) /\ allKey \in DOMAIN routes
      \/ f = own /\ own # None
      \/ f = all /\ own = None
  BY <1>7 DEF Resolve, ResolveUncached
<1> HIDE DEF own, all
<1>9. CASE f = k /\ k \in DOMAIN routes
  BY <1>1, <1>4, <1>5, <1>6, <1>9, SMTT(30) DEF Serves
<1>10. CASE f = allKey /\ f = Resolve(k) /\ allKey \in DOMAIN routes
  <2> HIDE DEF allKey
  <2> QED
    BY <1>1, <1>4, <1>5, <1>6, <1>10 DEF Serves, allKey
<1>11. CASE f = own /\ own # None
  BY <1>2, <1>11 DEF Serves
<1>12. CASE f = all /\ own = None
  BY <1>2, <1>3, <1>12 DEF Serves
<1> QED
  BY <1>8, <1>9, <1>10, <1>11, <1>12

\* Two routes that cover a path equally far and are for one method are one.
LEMMA SameRoute ==
  ASSUME TableOK, NEW k \in RouteKey, NEW r \in DOMAIN routes, NEW f \in DOMAIN routes,
         Serves(r, k), Serves(f, k), r.method = f.method, Len(r.path) = Len(f.path)
  PROVE  r = f
<1>1. r \in RouteKey /\ f \in RouteKey
  BY DEF TableOK, Added
<1>2. r.path \in Seq(STRING) /\ f.path \in Seq(STRING) /\ k.path \in Seq(STRING)
  BY <1>1 DEF RouteKey
<1>3. r.path = f.path
  BY <1>2, SamePrefix, SMTT(30) DEF Serves
<1> QED
  BY <1>1, <1>3, SMTT(30) DEF RouteKey

\* The lookups of the two servers differ only over an exact route for all
\* methods.
LEMMA LookupsDiffer ==
  ASSUME TableOK, Complete, NEW k \in RouteKey, Resolve(k) # ResolveUncached(k)
  PROVE  Resolve(k) = [k EXCEPT !.method = ALL] /\ ResolveUncached(k).method = k.method
<1> DEFINE allKey == [k EXCEPT !.method = ALL]
           f == ResolveUncached(k)
<1>1. Resolve(k) = allKey /\ allKey \in DOMAIN routes
  BY DEF Resolve, ResolveUncached
<1>2. allKey.method = ALL /\ allKey.path = k.path /\ k.path \in Seq(STRING) /\ Len(k.path) \in Nat
  BY DEF RouteKey
<1>3. Serves(allKey, k)
  BY <1>2, SelfPrefix DEF Serves
<1>4. f \in DOMAIN routes /\ Serves(f, k) /\ (f.method = ALL => Len(k.path) <= Len(f.path))
  <2> HIDE DEF allKey, f
  <2>1. f \in {Resolve(k), ResolveUncached(k)}
    BY DEF f
  <2>2. f # None
    BY <1>1, <1>3, <2>1, BestFound
  <2> QED
    BY <1>1, <1>2, <1>3, <2>1, <2>2, BestFound
<1>5. ASSUME f.method = ALL PROVE FALSE
  <2>1. Len(f.path) <= Len(k.path) /\ Len(f.path) \in Nat
    BY <1>4 DEF Serves, IsPrefix, TableOK, Added, RouteKey
  <2>2. Len(f.path) = Len(allKey.path)
    BY <1>2, <1>4, <1>5, <2>1
  <2> HIDE DEF allKey, f
  <2>3. allKey = f
    BY <1>1, <1>2, <1>3, <1>4, <1>5, <2>2, SameRoute
  <2> QED
    BY <1>1, <2>3, SMTT(30) DEF f
<1> QED
  BY <1>1, <1>4, <1>5 DEF Serves

\* In a complete table the most specific paths come first.
LEMMA CompleteIsSpecific ==
  ASSUME TableOK, SerialOK PROVE SpecificPathsFirst
<1> SUFFICES ASSUME NoAdder, last = "ok", NEW k \in LookupKeys
             PROVE  LET found == {Resolve(k), ResolveUncached(k)} IN
                    /\ \A r \in DOMAIN routes, f \in found :
                         Serves(r, k) /\ r.method = f.method => Len(r.path) <= Len(f.path)
                    /\ \A r \in DOMAIN routes : Serves(r, k) => None \notin found
                    /\ Cardinality(found) = 2 =>
                         Resolve(k) = [k EXCEPT !.method = ALL] /\ ResolveUncached(k).method = k.method
  BY Zenon DEF SpecificPathsFirst
<1>1. Complete /\ k \in RouteKey
  BY PathsAssumption DEF SerialOK, LookupKeys
<1>2. Resolve(k) = ResolveUncached(k) => Cardinality({Resolve(k), ResolveUncached(k)}) = 1
  <2>1. Resolve(k) = ResolveUncached(k) => {Resolve(k), ResolveUncached(k)} = {Resolve(k)}
    OBVIOUS
  <2> QED
    BY <2>1, FS_Singleton
<1> QED
  BY <1>1, <1>2, BestFound, LookupsDiffer

\* The cache holds lookups of requests only.
LEMMA CacheKeysStep ==
  LookupsOK /\ DOMAIN entries \subseteq LookupKeys /\ [Next]_vars => DOMAIN entries' \subseteq LookupKeys
<1> SUFFICES ASSUME LookupsOK, DOMAIN entries \subseteq LookupKeys, [Next]_vars
             PROVE  DOMAIN entries' \subseteq LookupKeys
  OBVIOUS
<1>1. CASE UNCHANGED entries
  BY <1>1
<1>2. ASSUME NEW c \in Clients, CacheFill(c) PROVE DOMAIN entries' \subseteq LookupKeys
  <2>1. Key(lookup[c]) \in LookupKeys
    BY <1>2 DEF CacheFill, LookupsOK, ClientsOK, LookupKeys
  <2>2. DOMAIN entries' \subseteq DOMAIN entries \cup {Key(lookup[c])}
    BY <1>2, SMTT(30) DEF CacheFill, cache_insert, CacheAdd, Put, Drop
  <2> QED
    BY <2>1, <2>2
<1>3. ASSUME NEW c \in Clients, Looks(c), ~ CacheFill(c) PROVE UNCHANGED entries
  BY <1>3, ZenonT(30) DEF Looks, CacheGet, select_backend_with_headers, select_backend_with_query_params, LookupUncached,
              ResolveMiss, Serve, Answer, cache
<1>4. ASSUME NEW a \in Adders, AddInvalidate(a) PROVE DOMAIN entries' \subseteq LookupKeys
  BY <1>4, SMTT(30) DEF AddInvalidate, cache_invalidate, Drop
<1>5. ASSUME NEW a \in Adders, Adds(a), ~ AddInvalidate(a) PROVE UNCHANGED entries
  BY <1>5, ZenonT(30) DEF Adds, AddCheck, AddVariant, AddInsert, AddRebuild, AddFails, AddSwap, cache,
              add_route_with_headers, add_route_with_methods, add_route_with_query_params, add_route_with_filters,
              add_route_with_response_filters, add_route_with_redirect, add_route_with_timeout, add_route_with_retry
<1> QED
  BY <1>1, <1>2, <1>3, <1>4, <1>5 DEF Next, vars

\* A cached route serves its lookup; what a complete table finds is no worse.
LEMMA CompleteIsAhead ==
  ASSUME TableOK, SerialOK, ResolutionsServe, DOMAIN entries \subseteq LookupKeys PROVE CacheLagsBehind
<1> SUFFICES ASSUME NoAdder, ~ blind, last = "ok", NEW k \in DOMAIN entries
             PROVE  LET r == entries[k] now == Resolve(k) IN
                    /\ now # None
                    /\ \/ r = now
                       \/ r.method = now.method /\ Len(r.path) < Len(now.path)
                       \/ r.method = ALL /\ now.method # ALL
                       \/ now.method = ALL /\ now.path = k.path
  BY DEF CacheLagsBehind
<1> DEFINE r == entries[k]
           now == Resolve(k)
<1>1. Complete /\ k \in RouteKey
  BY PathsAssumption DEF SerialOK, LookupKeys
<1>2. r \in DOMAIN routes /\ Serves(r, k)
  BY DEF ResolutionsServe, Leads
<1> HIDE DEF r
<1>3. /\ now # None /\ now \in DOMAIN routes /\ Serves(now, k)
      /\ r.method = now.method => Len(r.path) <= Len(now.path)
      /\ r.method = now.method \/ r.method = ALL \/ now = [k EXCEPT !.method = ALL]
  <2>1. now \in {Resolve(k), ResolveUncached(k)}
    OBVIOUS
  <2> HIDE DEF now
  <2>2. now # None
    BY <1>1, <1>2, <2>1, BestFound
  <2> QED
    BY <1>1, <1>2, <2>1, <2>2, BestFound
<1> HIDE DEF now
<1>4. Len(r.path) \in Nat /\ Len(now.path) \in Nat
  BY <1>2, <1>3 DEF TableOK, Added, RouteKey
<1>5. CASE r.method = now.method
  <2>1. CASE Len(r.path) < Len(now.path)
    BY <1>3, <1>5, <2>1 DEF r, now
  <2>2. CASE Len(r.path) = Len(now.path)
    <3>1. r = now
      BY <1>1, <1>2, <1>3, <1>5, <2>2, SameRoute, SMTT(30)
    <3> QED
      BY <1>3, <3>1 DEF r, now
  <2> QED
    BY <1>3, <1>4, <1>5, <2>1, <2>2
<1>6. CASE now = [k EXCEPT !.method = ALL]
  <2>1. now.method = ALL /\ now.path = k.path
    BY <1>1, <1>6 DEF RouteKey
  <2> QED
    BY <1>3, <2>1 DEF r, now
<1>7. CASE r.method = ALL /\ now.method # ALL
  BY <1>3, <1>7, SMTT(30) DEF r, now
<1> QED
  BY <1>3, <1>5, <1>6, <1>7

\* The router starts complete, with no routes.
LEMMA SerialInit == Init => SerialOK /\ DOMAIN entries \subseteq LookupKeys
BY DEF Init, SerialOK, Complete, NoRouter

(***************************************************************************)
(* add_route, select_backend and select_backend_with_headers: for any      *)
(* routes, adders and clients, after an add_route that overlapped no other *)
(* call a lookup finds the most specific path, whatever overlapping,       *)
(* failed or constrained calls have left in the prefix router before.      *)
(***************************************************************************)
THEOREM SpecificFirst == Spec => []SpecificPathsFirst
<1>1. LookupsOK /\ SerialOK => SpecificPathsFirst
  BY CompleteIsSpecific DEF LookupsOK
<1> QED
  BY <1>1, LookupsInit, LookupsStep, SerialInit, SerialStep, PTL DEF Spec

(***************************************************************************)
(* route_cache: add_route invalidates its own key only, yet a cached       *)
(* lookup is never ahead of the table, for any size of the cache.          *)
(***************************************************************************)
THEOREM CacheNeverAhead == Spec => []CacheLagsBehind
<1> DEFINE Keys == DOMAIN entries \subseteq LookupKeys
<1>1. LookupsOK /\ SerialOK /\ Keys => CacheLagsBehind
  BY CompleteIsAhead DEF LookupsOK
<1>2. LookupsOK /\ Keys /\ [Next]_vars => Keys'
  <2>1. LookupKeys' = LookupKeys
    BY DEF LookupKeys
  <2> QED
    BY <2>1, CacheKeysStep
<1>3. Init => Keys
  BY SerialInit
<1> HIDE DEF Keys
<1> QED
  BY <1>1, <1>2, <1>3, LookupsInit, LookupsStep, SerialInit, SerialStep, PTL DEF Spec
=============================================================================
