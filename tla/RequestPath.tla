---------------------------- MODULE RequestPath ----------------------------
(***************************************************************************)
(* A request from its arrival to its answer, for the two servers of the    *)
(* proxy: the ProxyServer of the standalone mode (request_handler.rs with  *)
(* forwarder.rs) and the listeners of the Kubernetes mode                  *)
(* (listener_manager.rs).  The requests of one route share the rate        *)
(* limiter and the circuit breakers of its backends.                       *)
(*                                                                         *)
(* A breaker operation is one step here: CircuitBreaker is shown to        *)
(* implement BreakerMachine, whose steps these are.  The token bucket is a *)
(* number of tokens, the backend that the router selects is any backend,   *)
(* the passive health window is in BackendHealth, the HTTP/2 pool in       *)
(* Http2Pool.  A response that the proxy makes itself is "rejected",       *)
(* whatever its status code.  Requests for /metrics, /healthz and /status  *)
(* are answered on the spot and left out.                                  *)
(***************************************************************************)
EXTENDS BreakerWord, FiniteSets

CONSTANTS
  Tasks,        \* request tasks
  Backends,     \* the backends of the route
  Burst,        \* the capacity of the route's token bucket
  MaxRetries,   \* RetryConfig::max_retries
  Options       \* the options a route of the standalone mode may have

ASSUME TasksAssumption == IsFiniteSet(Tasks) /\ Tasks # {}
ASSUME BurstAssumption == Burst \in Nat \ {0}
ASSUME MaxRetriesAssumption == MaxRetries \in Nat
ASSUME OptionsAssumption ==
  Options \subseteq [redirect : BOOLEAN, retry : SUBSET {"5xx", "error"}, timeout : {"none", "backend", "request"}]

VARIABLES
  server,     \* which of the two servers runs
  route,      \* the route's options: redirect filter, results to retry, timeouts
  tokens,     \* the route's token bucket
  word,       \* the circuit breaker of each backend
  expired,    \* has the open timeout of the backend's breaker elapsed?
  http1,      \* protocol_cache: the backends cached as HTTP/1.1
  req,        \* the request each task handles
  afterOpen   \* history: requests sent to the backend since its breaker opened

vars == <<server, route, tokens, word, expired, http1, req, afterOpen>>
config == <<server, route>>
breaker == <<word, expired>>

\* GET stands for GET and HEAD, POST for the other methods with a route, OTHER
\* for a method that the router does not know.
Methods == {"GET", "POST", "OTHER"}

NoRequest == [pc |-> "idle"]

\* The routes of the Kubernetes mode have no options.
Init ==
  /\ \/ server = "proxy" /\ route \in Options
     \/ server = "listener" /\ route = [redirect |-> FALSE, retry |-> {}, timeout |-> "none"]
  /\ tokens = Burst
  /\ word = [b \in Backends |-> ClosedWord]
  /\ expired = [b \in Backends |-> FALSE]
  /\ http1 = {}
  /\ req = [t \in Tasks |-> NoRequest]
  /\ afterOpen = [b \in Backends |-> 0]

Goto(t, l) == req' = [req EXCEPT ![t].pc = l]

Reject(t) == req' = [req EXCEPT ![t].pc = "done", ![t].result = "rejected"]

Arrived(method, b) ==
  [pc |-> "limit", method |-> method, backend |-> b, proto |-> "http1", attempt |-> 0,
   sends |-> 0, recorded |-> 0, result |-> "none"]

\* The router selects a backend.  The listener refuses unknown methods before;
\* the proxy routes them as GET.
Receive(t, method, b) ==
  /\ req[t] = NoRequest
  /\ ~ (server = "listener" /\ method = "OTHER")
  /\ ~ route.redirect
  /\ req' = [req EXCEPT ![t] = Arrived(method, b)]
  /\ UNCHANGED <<config, tokens, breaker, http1, afterOpen>>

\* No host (400) or an unknown method (405) in the listener, no route or no
\* backend (404), a redirect (301, 302, 500) in the proxy: answered before the
\* rate limit is asked.
Refuse(t, method, b) ==
  /\ req[t] = NoRequest
  /\ req' = [req EXCEPT ![t] = [Arrived(method, b) EXCEPT !.pc = "done", !.result = "rejected"]]
  /\ UNCHANGED <<config, tokens, breaker, http1, afterOpen>>

\* check_rate_limit
Limit(t) ==
  /\ req[t].pc = "limit"
  /\ \/ tokens > 0 /\ tokens' = tokens - 1 /\ Goto(t, "allow")
     \/ tokens = 0 /\ UNCHANGED tokens /\ Reject(t)
  /\ UNCHANGED <<config, breaker, http1, afterOpen>>

\* A request header filter that cannot be applied.
FilterFails(t) ==
  /\ req[t].pc = "allow" /\ server = "proxy"
  /\ Reject(t)
  /\ UNCHANGED <<config, tokens, breaker, http1, afterOpen>>

\* Faulty variant of Allow: the circuit lets everyone through.
AllowAlways(t) ==
  /\ req[t].pc = "allow"
  /\ Goto(t, "body")
  /\ UNCHANGED <<config, tokens, breaker, http1, afterOpen>>

\* allow_request
Allow(t) ==
  LET b == req[t].backend
      w == word[b]
      Admit(new) == Goto(t, "body") /\ word' = [word EXCEPT ![b] = new]
  IN
  /\ req[t].pc = "allow"
  /\ \/ w.state = CLOSED /\ Admit(w)
     \/ w.state = OPEN /\ expired[b] /\ Admit(ProbeWord)
     \/ w.state = HALFOPEN /\ w.reqs < HalfOpenMax /\ Admit(AdmitWord(w))
     \/ /\ (w.state = OPEN /\ ~ expired[b]) \/ (w.state = HALFOPEN /\ w.reqs >= HalfOpenMax)
        /\ Reject(t) /\ UNCHANGED word
  /\ afterOpen' = [afterOpen EXCEPT ![b] = IF word'[b].state = OPEN THEN @ ELSE 0]
  /\ UNCHANGED <<config, tokens, expired, http1>>

-----------------------------------------------------------------------------
\* forward_to_backend, under execute_with_retry or execute_without_retry

\* Faulty variant of Retryable: every method is retried.
AnyMethodRetryable(t) == TRUE

\* is_retryable_method; an unknown method has become a GET.
Retryable(t) == req[t].method # "POST"

\* should_retry_status and retry_on_connection_error, which stands for every Err.
Retries(t, result, attempt) ==
  /\ Retryable(t) /\ attempt < MaxRetries + 1
  /\ (IF result = "5xx" THEN "5xx" ELSE "error") \in route.retry /\ result # "ok"

\* The attempt has ended: back off for a retry, or go and record the result.
Ended(t, result, attempt) ==
  req' = [req EXCEPT ![t].result = result, ![t].attempt = attempt,
                     ![t].pc = IF Retries(t, result, attempt) THEN "backoff" ELSE "record"]

\* The body is there, or skipped; an uncached backend is tried with HTTP/2.
BodyRead(t) ==
  /\ req[t].pc = "body"
  /\ req' = [req EXCEPT ![t].pc = "send", ![t].attempt = 1,
       ![t].proto = IF server = "proxy" /\ req[t].backend \notin http1 THEN "http2" ELSE "http1"]
  /\ UNCHANGED <<config, tokens, breaker, http1, afterOpen>>

\* The body exceeds the proxy's limit; the listener has none.
BodyTooLarge(t) ==
  /\ req[t].pc = "body" /\ req[t].method # "GET" /\ server = "proxy"
  /\ Ended(t, "toolarge", 1)
  /\ UNCHANGED <<config, tokens, breaker, http1, afterOpen>>

\* The client breaks off its body: a backend error for the proxy, which skips
\* the body of a GET, and a 400 without an outcome for the listener.
BodyUnreadable(t) ==
  /\ req[t].pc = "body"
  /\ \/ server = "listener" /\ Reject(t)
     \/ server = "proxy" /\ req[t].method # "GET" /\ Ended(t, "error", 1)
  /\ UNCHANGED <<config, tokens, breaker, http1, afterOpen>>

AfterOpenMax == (Cardinality(Tasks) - 1) * (MaxRetries + 2)

CountSend(b) ==
  afterOpen' = [afterOpen EXCEPT ![b] = IF word[b].state = OPEN /\ @ <= AfterOpenMax THEN @ + 1 ELSE @]

\* The request is sent; a retry asks neither the rate limit nor the breaker.
Send(t) ==
  /\ req[t].pc = "send"
  /\ req' = [req EXCEPT ![t].pc = "wait", ![t].sends = @ + 1]
  /\ CountSend(req[t].backend)
  /\ UNCHANGED <<config, tokens, breaker, http1>>

\* get_connection has no HTTP/2 connection to give.
NoConnection(t) ==
  /\ req[t].pc = "send" /\ req[t].proto = "http2"
  /\ Ended(t, "error", req[t].attempt)
  /\ UNCHANGED <<config, tokens, breaker, http1, afterOpen>>

\* An HTTP/2 request failed: the backend is cached as HTTP/1.1 and the request,
\* whatever its method, sent again.
Fallback(t) ==
  /\ req[t].pc = "wait" /\ req[t].proto = "http2"
  /\ http1' = http1 \union {req[t].backend}
  /\ req' = [req EXCEPT ![t].proto = "fallback", ![t].sends = @ + 1]
  /\ CountSend(req[t].backend)
  /\ UNCHANGED <<config, tokens, breaker>>

\* The backend answers, with a status below 500 or not, or the connection fails.
BackendAnswers(t, result) ==
  /\ req[t].pc = "wait"
  /\ result = "error" => req[t].proto # "http2"
  /\ Ended(t, result, req[t].attempt)
  /\ UNCHANGED <<config, tokens, breaker, http1, afterOpen>>

\* The first attempt, its body read, is under the backend timeout or what is left
\* of the overall one; a retry has no timeout at all.
BackendTimed(t) == req[t].pc \in {"send", "wait"} /\ req[t].attempt = 1 /\ route.timeout # "none"

\* Faulty variant of TimesOut: the overall timeout starts after the body.
LateTimesOut(t) ==
  /\ BackendTimed(t)
  /\ Ended(t, "error", 1)
  /\ UNCHANGED <<config, tokens, breaker, http1, afterOpen>>

\* The overall timeout covers the body as well.
TimesOut(t) ==
  /\ \/ req[t].pc = "body" /\ route.timeout = "request"
     \/ BackendTimed(t)
  /\ Ended(t, "error", 1)
  /\ UNCHANGED <<config, tokens, breaker, http1, afterOpen>>

\* A retry goes to the same backend, over HTTP/1.1 and without a body.
Backoff(t) ==
  /\ req[t].pc = "backoff"
  /\ req' = [req EXCEPT ![t].pc = "send", ![t].attempt = @ + 1,
                        ![t].proto = IF @ = "http2" THEN "http1" ELSE @]
  /\ UNCHANGED <<config, tokens, breaker, http1, afterOpen>>

-----------------------------------------------------------------------------
\* record_request_metrics and finalize_response, or the end of the listener's
\* handle_request

\* record_success; an Open circuit ignores it.
record_success(b) ==
  /\ word' = [word EXCEPT ![b] = IF @.state = OPEN THEN @ ELSE SuccessWord(@)]
  /\ UNCHANGED expired

\* record_failure renews the time stamp in every state.
record_failure(b) ==
  /\ word' = [word EXCEPT ![b] = IF @.state = OPEN THEN @ ELSE FailureWord(@)]
  /\ expired' = [expired EXCEPT ![b] = FALSE]

Responded(t, n) == req' = [req EXCEPT ![t].pc = "done", ![t].recorded = @ + n]

\* Faulty variant of Record: an oversized body is counted as a failure.
RecordAll(t) ==
  LET b == req[t].backend IN
  /\ req[t].pc = "record"
  /\ \/ req[t].result = "ok" /\ record_success(b)
     \/ req[t].result # "ok" /\ record_failure(b)
  /\ Responded(t, 1)
  /\ UNCHANGED <<config, tokens, http1, afterOpen>>

Record(t) ==
  LET b == req[t].backend IN
  /\ req[t].pc = "record"
  /\ \/ req[t].result = "ok" /\ record_success(b) /\ Responded(t, 1)
     \/ req[t].result \in {"5xx", "error"} /\ record_failure(b) /\ Responded(t, 1)
     \/ req[t].result = "toolarge" /\ UNCHANGED breaker /\ Responded(t, 0)
  /\ afterOpen' = [afterOpen EXCEPT ![b] = IF word[b].state = OPEN THEN @ ELSE 0]
  /\ UNCHANGED <<config, tokens, http1>>

\* The answer goes out and the task takes another request.
Done(t) ==
  /\ req[t].pc = "done"
  /\ req' = [req EXCEPT ![t] = NoRequest]
  /\ UNCHANGED <<config, tokens, breaker, http1, afterOpen>>

\* The client closes the connection: hyper drops the future where it awaits.
ClientLeaves(t) ==
  /\ req[t].pc \in {"body", "wait", "backoff"} \/ (req[t].pc = "send" /\ req[t].proto = "http2")
  /\ req' = [req EXCEPT ![t] = NoRequest]
  /\ UNCHANGED <<config, tokens, breaker, http1, afterOpen>>

Refill ==
  /\ tokens < Burst
  /\ tokens' = tokens + 1
  /\ UNCHANGED <<config, breaker, http1, req, afterOpen>>

OpenTimeout(b) ==
  /\ word[b].state = OPEN /\ ~ expired[b]
  /\ expired' = [expired EXCEPT ![b] = TRUE]
  /\ UNCHANGED <<config, tokens, word, http1, req, afterOpen>>

\* The steps that need neither the client nor the backend.
Proceed(t) ==
  \/ Limit(t) \/ FilterFails(t) \/ Allow(t) \/ Send(t)
  \/ TimesOut(t) \/ Backoff(t) \/ Record(t) \/ Done(t)

Next ==
  \/ \E t \in Tasks :
       \/ \E method \in Methods, b \in Backends : Receive(t, method, b) \/ Refuse(t, method, b)
       \/ Proceed(t)
       \/ BodyRead(t) \/ BodyTooLarge(t) \/ BodyUnreadable(t)
       \/ NoConnection(t) \/ Fallback(t)
       \/ \E result \in {"ok", "5xx", "error"} : BackendAnswers(t, result)
       \/ ClientLeaves(t)
  \/ Refill
  \/ \E b \in Backends : OpenTimeout(b)

\* The proxy keeps running; neither clients nor backends have to go on.
Spec == Init /\ [][Next]_vars /\ \A t \in Tasks : WF_vars(Proceed(t))

-----------------------------------------------------------------------------
\* The values of the requests and of what they share: max_attempts bounds the
\* attempts of execute_with_retry.
TypeOK ==
  /\ tokens \in 0 .. Burst
  /\ word \in [Backends -> Word]
  /\ expired \in [Backends -> BOOLEAN]
  /\ http1 \subseteq Backends
  /\ \A t \in Tasks :
       req[t] # NoRequest =>
         /\ req[t].pc \in {"limit", "allow", "body", "send", "wait", "backoff", "record", "done"}
         /\ req[t].attempt \in 0 .. MaxRetries + 1
         /\ req[t].recorded \in {0, 1}

\* "Only count backend-originated errors against health/circuit breaker"
\* (request_handler.rs:806): the breaker hears of a request at most once,
\* however many attempts it took; it hears of every request with a result, and
\* of none that was rejected or whose body was too large.
OutcomeRecordedOnce ==
  \A t \in Tasks :
    req[t].pc = "done" => req[t].recorded = IF req[t].result \in {"ok", "5xx", "error"} THEN 1 ELSE 0

\* The copies of a request that a backend can get: execute_with_retry sends a
\* GET max_retries times more, every request is sent once more when it falls
\* back from HTTP/2, a POST for no other reason, the listener sends everything
\* once, and a request that the proxy rejects was never sent.
SendsBounded ==
  \A t \in Tasks :
    req[t] # NoRequest =>
      LET fell == IF req[t].proto = "fallback" THEN 1 ELSE 0 IN
      /\ req[t].sends <= fell + (IF req[t].method = "POST" THEN 1 ELSE MaxRetries + 1)
      /\ server = "listener" => req[t].sends <= 1
      /\ req[t].result = "rejected" => req[t].sends = 0

\* "Too many failures - requests blocked, wait for timeout"
\* (circuit_breaker.rs:207): while a breaker is open, its backend gets no more
\* than what the requests admitted before still send, with their retries, which
\* do not ask the breaker, and their fallback.
OpenShedsLoad == \A b \in Backends : afterOpen[b] <= AfterOpenMax

\* execute_without_retry: a request under the overall timeout that is not
\* retried is answered or abandoned by its client, also when its body or its
\* backend's answer never comes.
TimedRequestsEnd ==
  \A t \in Tasks :
    (req[t].pc = "limit" /\ route.timeout = "request" /\ (route.retry = {} \/ req[t].method = "POST"))
      ~> req[t].pc \in {"done", "idle"}
=============================================================================
