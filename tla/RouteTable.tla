----------------------------- MODULE RouteTable -----------------------------
(***************************************************************************)
(* The route table of control/src/proxy/router.rs: the routes map, the     *)
(* prefix router that is rebuilt from it, and the LRU cache of resolved    *)
(* lookups.  Each has a lock of its own, and the calls take them one after *)
(* the other: every locked section is one step.  The proxy of the          *)
(* standalone mode looks up with select_backend, the listeners of the      *)
(* Kubernetes mode with select_backend_with_headers, which has no cache.   *)
(* main and the controllers add with add_route; its eight variants and     *)
(* select_backend_with_query_params are for other callers (the tests).     *)
(*                                                                         *)
(* A path is a sequence of segments.  The matchit radix tree is external;  *)
(* its lookup is the longest inserted path that is a prefix, and a second  *)
(* route for a pattern is an error.  The root path "/" is left out of the  *)
(* instances: whether "{*rest}" and method prefixes may coexist is up to   *)
(* that library.  Which backend of a route is chosen is MaglevTable's.     *)
(***************************************************************************)
EXTENDS Integers, Sequences, FiniteSets, SequencesExt

CONSTANTS
  Adders,       \* callers of add_route and its variants: reconcilers, main
  Clients,      \* callers of the select functions: request tasks
  Offers,       \* Offers[f]: the calls of f there may be, [key, backends, ...]
  Requests,     \* [method, path, headers, query]
  Lower(_),     \* a header name in lower case
  IsMatch(_, _),  \* Regex::is_match
  CacheMax      \* ROUTE_CACHE_MAX_SIZE (128)

ASSUME CacheMaxAssumption == CacheMax \in Nat \ {0}

VARIABLES
  routes,     \* the routes map: key -> [backends, headers, methods, query]
  prefix,     \* the prefix router: its keys, and are they under method prefixes?
  entries,    \* the cache: lookup key -> resolved route key
  order,      \* access_order, most recent at the back
  apc,        \* where each adder is
  job,        \* what each adder adds
  built,      \* the prefix router each adder has built
  cpc,        \* where each client is
  via,        \* the select function each client calls
  lookup,     \* the request each client looks up
  resolved,   \* the route key each client has resolved
  last,       \* history: how the last call of an adder ended
  blind,      \* history: has a router without method prefixes been in use?
  overlapped  \* history: the adders whose calls have overlapped another call

vars == <<routes, prefix, entries, order, apc, job, built, cpc, via, lookup, resolved, last, blind, overlapped>>

table == <<routes, prefix>>
cache == <<entries, order>>
adders == <<apc, job, built>>
clients == <<cpc, via, lookup, resolved>>
history == <<last, blind, overlapped>>

ALL == "ALL"
None == [method |-> "none", path |-> << >>]
NoRouter == [keys |-> {}, methods |-> TRUE]

Key(request) == [method |-> request.method, path |-> request.path]

RouteKey == [method : STRING, path : Seq(STRING)]

\* Paths are sequences, and no route is for the method "none".
ASSUME PathsAssumption ==
  /\ \A request \in Requests : Key(request) \in RouteKey
  /\ {"add_route", "headers", "methods", "query_params", "filters", "response_filters", "redirect", "timeout",
      "retry"} \subseteq DOMAIN Offers
  /\ \A f \in DOMAIN Offers : \A o \in Offers[f] : o.key \in RouteKey /\ o.key # None

Put(f, k, v) == [x \in DOMAIN f \cup {k} |-> IF x = k THEN v ELSE f[x]]

Drop(f, k) == [x \in DOMAIN f \ {k} |-> f[x]]

-----------------------------------------------------------------------------
\* RouteLruCache

MoveToBack(s, k) == Append(Remove(s, k), k)

\* insert, of a key that is not in the cache.
CacheAdd(k, r) ==
  LET full == Cardinality(DOMAIN entries) >= CacheMax
      kept == IF full /\ order # << >> THEN Drop(entries, Head(order)) ELSE entries
  IN  /\ entries' = Put(kept, k, r)
      /\ order' = Append(IF full /\ order # << >> THEN Tail(order) ELSE order, k)

cache_insert(k, r) ==
  \/ k \in DOMAIN entries /\ entries' = [entries EXCEPT ![k] = r] /\ UNCHANGED order
  \/ k \notin DOMAIN entries /\ CacheAdd(k, r)

cache_invalidate(k) ==
  /\ entries' = Drop(entries, k)
  /\ order' = Remove(order, k)

-----------------------------------------------------------------------------
\* The lookup of select_backend on a cache miss

\* Faulty variant of Longest: the least specific pattern wins.
Shortest(S) == IF S = {} THEN None ELSE CHOOSE k \in S : \A l \in S : Len(l.path) >= Len(k.path)

Longest(S) == IF S = {} THEN None ELSE CHOOSE k \in S : \A l \in S : Len(l.path) <= Len(k.path)

\* The patterns of a key: under the prefix of its method, or of the bare path.
get_method_prefix(router, k) == IF router.methods THEN k.method ELSE ALL

\* Faulty variant of PrefixAt: the method prefix is not part of the pattern.
MethodBlindAt(router, method, path) == Longest({k \in router.keys : IsPrefix(k.path, path)})

\* matchit::Router::at.
PrefixAt(router, method, path) ==
  Longest({k \in router.keys : get_method_prefix(router, k) = method /\ IsPrefix(k.path, path)})

\* matchit::Router::insert refuses a pattern that is there already.
Conflict(router) ==
  \E k, l \in router.keys :
    k # l /\ k.path = l.path /\ get_method_prefix(router, k) = get_method_prefix(router, l)

\* Prefix route of the method, then prefix route for all methods.
PrefixMatch(k) ==
  LET found == PrefixAt(prefix, k.method, k.path)
  IN  IF found = None THEN PrefixAt(prefix, ALL, k.path) ELSE found

\* select_backend: exact route, exact route for all methods, prefix routes.
Resolve(k) ==
  LET allKey == [k EXCEPT !.method = ALL]
  IN  CASE k \in DOMAIN routes -> k
        [] k \notin DOMAIN routes /\ allKey \in DOMAIN routes -> allKey
        [] OTHER -> PrefixMatch(k)

\* select_backend_with_headers and select_backend_with_query_params do not look
\* for an exact route for all methods.
ResolveUncached(k) == IF k \in DOMAIN routes THEN k ELSE PrefixMatch(k)

-----------------------------------------------------------------------------
\* What a route asks of a request

\* method_matches: None.
AnyMethod == {ALL}

Plain(backends) == [backends |-> backends, headers |-> {}, methods |-> AnyMethod, query |-> {}]

\* A match on a value: exact, or a regular expression.  A pattern that does not
\* compile matches nothing.
ValueMatches(mt, value) == IF mt.regex THEN IsMatch(mt.value, value) ELSE mt.value = value

\* Every match of the route is satisfied by some header of the request.
headers_match(header_matches, headers) ==
  \A h \in header_matches : \E r \in headers : Lower(r.name) = Lower(h.name) /\ ValueMatches(h, r.value)

\* The same, with names that tell upper from lower case.
query_params_match(query_param_matches, query) ==
  \A q \in query_param_matches : \E r \in query : r.name = q.name /\ ValueMatches(q, r.value)

MethodMatches(route, method) == route.methods = AnyMethod \/ method \in route.methods

\* Each select function checks one of the three constraints.
Accepts(route, f, request) ==
  CASE f = "select_backend" -> MethodMatches(route, request.method)
    [] f = "select_backend_with_headers" -> headers_match(route.headers, request.headers)
    [] f = "select_backend_with_query_params" -> query_params_match(route.query, request.query)

-----------------------------------------------------------------------------
Init ==
  /\ routes = << >>
  /\ prefix = NoRouter
  /\ entries = << >>
  /\ order = << >>
  /\ apc = [a \in Adders |-> "idle"]
  /\ job = [a \in Adders |-> None]
  /\ built = [a \in Adders |-> NoRouter]
  /\ cpc = [c \in Clients |-> "idle"]
  /\ via = [c \in Clients |-> "none"]
  /\ lookup = [c \in Clients |-> None]
  /\ resolved = [c \in Clients |-> None]
  /\ last = "ok"
  /\ blind = FALSE
  /\ overlapped = {}

NoAdder == \A a \in Adders : apc[a] = "idle"

\* History: a call begins beside the calls that are under way, or ends.
Begins(a) ==
  overlapped' = IF NoAdder THEN overlapped ELSE overlapped \cup {a} \cup {b \in Adders : apc[b] # "idle"}

Ends(a, how) ==
  /\ last' = IF a \in overlapped THEN "overlapped" ELSE how
  /\ overlapped' = overlapped \ {a}

\* Nobody holds the read lock of routes up to the swap.
Unlocked == \A a \in Adders : ~ (apc[a] = "swap" /\ job[a].held)

\* add_route: nothing to do when the route exists with the same backends, be it
\* a route with constraints.
AddCheck(a, k, bs) ==
  /\ apc[a] = "idle"
  /\ ~ (k \in DOMAIN routes /\ routes[k].backends = bs)
  /\ apc' = [apc EXCEPT ![a] = "insert"]
  /\ job' = [job EXCEPT ![a] = [key |-> k, route |-> Plain(bs), variant |-> FALSE, held |-> FALSE]]
  /\ Begins(a)
  /\ UNCHANGED <<table, cache, built, clients, last, blind>>

AddInsert(a) ==
  /\ apc[a] = "insert" /\ Unlocked
  /\ apc' = [apc EXCEPT ![a] = "rebuild"]
  /\ routes' = Put(routes, job[a].key, job[a].route)
  /\ UNCHANGED <<prefix, cache, job, built, clients, history>>

\* A variant of add_route neither compares nor starts health checks: its first
\* step inserts the route.
AddVariant(a, k, route, held) ==
  /\ apc[a] = "idle" /\ Unlocked
  /\ apc' = [apc EXCEPT ![a] = "rebuild"]
  /\ job' = [job EXCEPT ![a] = [key |-> k, route |-> route, variant |-> TRUE, held |-> held]]
  /\ routes' = Put(routes, k, route)
  /\ Begins(a)
  /\ UNCHANGED <<prefix, cache, built, clients, last, blind>>

add_route_with_headers(a, o) ==
  AddVariant(a, o.key, [Plain(o.backends) EXCEPT !.headers = o.headers], FALSE)

add_route_with_methods(a, o) ==
  AddVariant(a, o.key, [Plain(o.backends) EXCEPT !.methods = o.methods], FALSE)

add_route_with_query_params(a, o) ==
  AddVariant(a, o.key, [Plain(o.backends) EXCEPT !.query = o.query], FALSE)

\* The filters, the redirect, the timeout and the retries of a route take no
\* part in lookups (RequestPath has what they do).  These five keep the read
\* lock of routes until they return.
add_route_with_filters(a, o) == AddVariant(a, o.key, Plain(o.backends), TRUE)

add_route_with_response_filters(a, o) == AddVariant(a, o.key, Plain(o.backends), TRUE)

add_route_with_redirect(a, o) == AddVariant(a, o.key, Plain(o.backends), TRUE)

add_route_with_timeout(a, o) == AddVariant(a, o.key, Plain(o.backends), TRUE)

add_route_with_retry(a, o) == AddVariant(a, o.key, Plain(o.backends), TRUE)

\* Faulty variant of Rebuilt: only the routes for the method of the new one are
\* carried over.
RebuiltForMethod(a) ==
  [keys |-> {k \in DOMAIN routes : k.method = job[a].key.method}, methods |-> ~ job[a].variant]

\* The router that the call builds from the map; the variants leave out the
\* method prefixes.
Rebuilt(a) == [keys |-> DOMAIN routes, methods |-> ~ job[a].variant]

\* The new prefix router is built under the read lock of routes.
AddRebuild(a) ==
  /\ apc[a] = "rebuild" /\ ~ Conflict(Rebuilt(a))
  /\ apc' = [apc EXCEPT ![a] = "swap"]
  /\ built' = [built EXCEPT ![a] = Rebuilt(a)]
  /\ UNCHANGED <<table, cache, job, clients, history>>

\* A conflict ends the call with an error; the map keeps the route.
AddFails(a) ==
  /\ apc[a] = "rebuild" /\ Conflict(Rebuilt(a))
  /\ apc' = [apc EXCEPT ![a] = "idle"]
  /\ job' = [job EXCEPT ![a] = None]
  /\ Ends(a, "error")
  /\ UNCHANGED <<table, cache, built, clients, blind>>

\* The variants end here, and leave the cache alone.
AddSwap(a) ==
  /\ apc[a] = "swap"
  /\ apc' = [apc EXCEPT ![a] = IF job[a].variant THEN "idle" ELSE "invalidate"]
  /\ job' = [job EXCEPT ![a] = IF job[a].variant THEN None ELSE @]
  /\ prefix' = built[a]
  /\ built' = [built EXCEPT ![a] = NoRouter]
  /\ IF job[a].variant THEN Ends(a, "variant") ELSE UNCHANGED <<last, overlapped>>
  /\ blind' = (blind \/ job[a].variant)
  /\ UNCHANGED <<routes, cache, clients>>

AddInvalidate(a) ==
  /\ apc[a] = "invalidate"
  /\ apc' = [apc EXCEPT ![a] = "idle"]
  /\ cache_invalidate(job[a].key)
  /\ job' = [job EXCEPT ![a] = None]
  /\ Ends(a, "ok")
  /\ UNCHANGED <<table, built, clients, blind>>

\* select_backend: the cache first.
CacheGet(c, request) ==
  /\ cpc[c] = "idle"
  /\ lookup' = [lookup EXCEPT ![c] = request]
  /\ via' = [via EXCEPT ![c] = "select_backend"]
  /\ LET k == Key(request) IN
     \/ /\ k \in DOMAIN entries
        /\ order' = MoveToBack(order, k)
        /\ resolved' = [resolved EXCEPT ![c] = entries[k]]
        /\ cpc' = [cpc EXCEPT ![c] = "found"]
     \/ /\ k \notin DOMAIN entries
        /\ cpc' = [cpc EXCEPT ![c] = "resolve"]
        /\ UNCHANGED <<order, resolved>>
  /\ UNCHANGED <<table, entries, adders, history>>

\* The lookup ends.
Done(c) ==
  /\ cpc' = [cpc EXCEPT ![c] = "idle"]
  /\ via' = [via EXCEPT ![c] = "none"]
  /\ lookup' = [lookup EXCEPT ![c] = None]
  /\ resolved' = [resolved EXCEPT ![c] = None]

\* A miss: the lookup holds the read locks of routes and of the prefix router.
ResolveMiss(c) ==
  /\ cpc[c] = "resolve"
  /\ LET k == Resolve(Key(lookup[c])) IN
     \/ k = None /\ Done(c)
     \/ /\ k # None
        /\ resolved' = [resolved EXCEPT ![c] = k]
        /\ cpc' = [cpc EXCEPT ![c] = "fill"]
        /\ UNCHANGED <<via, lookup>>
  /\ UNCHANGED <<table, cache, adders, history>>

CacheFill(c) ==
  /\ cpc[c] = "fill"
  /\ cache_insert(Key(lookup[c]), resolved[c])
  /\ cpc' = [cpc EXCEPT ![c] = "found"]
  /\ UNCHANGED <<table, adders, via, lookup, resolved, history>>

\* The functions without a cache ask the table at once.
LookupUncached(c, f, request) ==
  /\ cpc[c] = "idle"
  /\ ResolveUncached(Key(request)) # None
  /\ lookup' = [lookup EXCEPT ![c] = request]
  /\ via' = [via EXCEPT ![c] = f]
  /\ resolved' = [resolved EXCEPT ![c] = ResolveUncached(Key(request))]
  /\ cpc' = [cpc EXCEPT ![c] = "found"]
  /\ UNCHANGED <<table, cache, adders, history>>

select_backend_with_headers(c, request) == LookupUncached(c, "select_backend_with_headers", request)

select_backend_with_query_params(c, request) ==
  LookupUncached(c, "select_backend_with_query_params", request)

\* Faulty variant of Serve: the constraint is not looked at.
ServeAnyway(c) ==
  /\ cpc[c] = "found"
  /\ cpc' = [cpc EXCEPT ![c] = "answer"]
  /\ UNCHANGED <<table, cache, adders, via, lookup, resolved, history>>

\* The route is read from the map, as it is now, and its constraint is checked.
Serve(c) ==
  /\ cpc[c] = "found"
  /\ \/ /\ Accepts(routes[resolved[c]], via[c], lookup[c])
        /\ cpc' = [cpc EXCEPT ![c] = "answer"]
        /\ UNCHANGED <<via, lookup, resolved>>
     \/ ~ Accepts(routes[resolved[c]], via[c], lookup[c]) /\ Done(c)
  /\ UNCHANGED <<table, cache, adders, history>>

\* One of the backends is returned.
Answer(c) ==
  /\ cpc[c] = "answer"
  /\ Done(c)
  /\ UNCHANGED <<table, cache, adders, history>>

Adds(a) ==
  \/ \E o \in Offers["add_route"] : AddCheck(a, o.key, o.backends)
  \/ \E o \in Offers["headers"] : add_route_with_headers(a, o)
  \/ \E o \in Offers["methods"] : add_route_with_methods(a, o)
  \/ \E o \in Offers["query_params"] : add_route_with_query_params(a, o)
  \/ \E o \in Offers["filters"] : add_route_with_filters(a, o)
  \/ \E o \in Offers["response_filters"] : add_route_with_response_filters(a, o)
  \/ \E o \in Offers["redirect"] : add_route_with_redirect(a, o)
  \/ \E o \in Offers["timeout"] : add_route_with_timeout(a, o)
  \/ \E o \in Offers["retry"] : add_route_with_retry(a, o)
  \/ AddInsert(a) \/ AddRebuild(a) \/ AddFails(a) \/ AddSwap(a) \/ AddInvalidate(a)

Looks(c) ==
  \/ \E request \in Requests :
       \/ CacheGet(c, request)
       \/ select_backend_with_headers(c, request)
       \/ select_backend_with_query_params(c, request)
  \/ ResolveMiss(c) \/ CacheFill(c) \/ Serve(c) \/ Answer(c)

Next == (\E a \in Adders : Adds(a)) \/ (\E c \in Clients : Looks(c))

Spec == Init /\ [][Next]_vars

-----------------------------------------------------------------------------
Serves(r, k) == r.method \in {k.method, ALL} /\ IsPrefix(r.path, k.path)

\* The methods count unless a variant of add_route has swapped in its router.
Leads(r, k) == r \in DOMAIN routes /\ IsPrefix(r.path, k.path) /\ (blind \/ Serves(r, k))

\* A cached or freshly resolved lookup leads to a route that is in the map and
\* covers the path of the request, whatever routes were added between the steps
\* of the two lookups, and whichever calls failed; and to a route that accepts
\* the method, as long as all routes come from add_route.
ResolutionsServe ==
  /\ \A k \in DOMAIN entries : Leads(entries[k], k)
  /\ \A c \in Clients : resolved[c] # None => Leads(resolved[c], Key(lookup[c]))

LookupKeys == {Key(request) : request \in Requests}

\* "More specific paths take precedence": a lookup resolves to the longest path
\* among the routes that serve it and are for the same method (a specific
\* method is preferred to ALL, even where ALL has the longer path).  An add_route
\* that completes and overlapped no other call brings that about, whatever
\* variants, failed calls and overlapping ones, which may swap in the older
\* router last, have done to the prefix router before.  The lookups of the proxy
\* and of the listeners differ in one case alone: where the path has a route for
\* all methods of its own, and a prefix route for the method.
SpecificPathsFirst ==
  NoAdder /\ last = "ok" =>
    \A k \in LookupKeys :
      LET found == {Resolve(k), ResolveUncached(k)}
          exactAll == [k EXCEPT !.method = ALL]
      IN
      /\ \A r \in DOMAIN routes, f \in found :
           Serves(r, k) /\ r.method = f.method => Len(r.path) <= Len(f.path)
      /\ \A r \in DOMAIN routes : Serves(r, k) => None \notin found
      /\ Cardinality(found) = 2 => Resolve(k) = exactAll /\ ResolveUncached(k).method = k.method

\* add_route drops only the cache entry of its own key, so that a cached lookup
\* may lag behind the table; but as long as all routes come from add_route it
\* lags only by routes that are better than the cached one, never by a route
\* that is worse or gone.
CacheLagsBehind ==
  NoAdder /\ ~ blind /\ last = "ok" =>
    \A k \in DOMAIN entries :
      LET r == entries[k] now == Resolve(k) IN
      /\ now # None
      /\ \/ r = now
         \/ r.method = now.method /\ Len(r.path) < Len(now.path)
         \/ r.method = ALL /\ now.method # ALL
         \/ now.method = ALL /\ now.path = k.path

\* A route that is replaced between the lookup of its key and the choice of a
\* backend is judged by its new constraints: every function answers with a
\* route that, at that moment, accepts the request in the one respect that the
\* function looks at.
AnswersAccepted ==
  [][\A c \in Clients :
       cpc[c] # "answer" /\ cpc'[c] = "answer" => Accepts(routes[resolved[c]], via[c], lookup[c])]_vars
=============================================================================
