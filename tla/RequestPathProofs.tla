------------------------- MODULE RequestPathProofs --------------------------
(***************************************************************************)
(* What one request does to its breaker and its backend, for any number of *)
(* requests, backends and retries, and any options of the route.           *)
(***************************************************************************)
EXTENDS RequestPath, FiniteSetTheorems, TLAPS

\* A request that has arrived.
Request ==
  [pc : {"limit", "allow", "body", "send", "wait", "backoff", "record", "done"}, method : Methods, backend : Backends,
   proto : {"http1", "http2", "fallback"}, attempt : Nat, sends : Nat, recorded : {0, 1},
   result : {"none", "ok", "5xx", "error", "toolarge", "rejected"}]

\* The copy that falling back from HTTP/2 to HTTP/1.1 adds.
Fell(r) == IF r.proto = "fallback" THEN 1 ELSE 0

\* Each attempt sends the request once, and falling back adds one copy; who has
\* not ended has recorded nothing; POST requests and listeners never retry.
Inv(r) ==
  /\ r.attempt <= MaxRetries + 1
  /\ r.sends <= Fell(r) + r.attempt
  /\ r.pc \in {"limit", "allow", "body"} => r.attempt = 0 /\ r.proto = "http1"
  /\ r.pc \in {"send", "wait", "backoff"} => r.attempt >= 1
  /\ r.pc = "send" => r.sends < Fell(r) + r.attempt
  /\ r.pc = "backoff" => r.attempt <= MaxRetries /\ r.method # "POST" /\ server = "proxy"
  /\ r.method = "POST" => r.attempt <= 1
  /\ server = "listener" => r.attempt <= 1 /\ r.proto = "http1"
  /\ r.pc = "record" => r.result \in {"ok", "5xx", "error", "toolarge"}
  /\ r.pc # "done" => r.recorded = 0 /\ r.result # "rejected"
  /\ r.pc = "done" => r.recorded = IF r.result \in {"ok", "5xx", "error"} THEN 1 ELSE 0
  /\ r.result = "rejected" => r.sends = 0

\* The inductive invariant: that of every request, and what the route may ask.
RequestsOK == \A t \in Tasks : req[t] # NoRequest => req[t] \in Request /\ Inv(req[t])

RouteOK ==
  /\ DOMAIN req = Tasks
  /\ server \in {"proxy", "listener"}
  /\ server = "listener" => route.retry = {}

\* A request that is under way has the invariant.
LEMMA Under ==
  ASSUME RequestsOK, NEW t \in Tasks, req[t].pc # "idle" PROVE req[t] \in Request /\ Inv(req[t])
BY DEF RequestsOK, NoRequest

\* What each step makes of the request q keeps the invariant.
\* Limit and Allow let the request through.
LEMMA Limited ==
  ASSUME NEW q \in Request, Inv(q), q.pc \in {"limit", "allow", "body"}, NEW l \in {"allow", "body"},
         NEW r, r = [q EXCEPT !.pc = l]
  PROVE  r \in Request /\ Inv(r)
<1>1. r \in Request
  BY DEF Request
<1>2. /\ r.pc = l /\ r.method = q.method /\ r.proto = q.proto /\ r.attempt = q.attempt
      /\ r.sends = q.sends /\ r.recorded = q.recorded /\ r.result = q.result
  BY DEF Request
<1>3. Inv(r)
  BY <1>1, <1>2 DEF Inv, Fell, Request
<1> QED
  BY <1>1, <1>3

\* The request is answered before it is sent.
LEMMA Rejected ==
  ASSUME NEW q \in Request, Inv(q), q.pc \in {"limit", "allow", "body"},
         NEW r, r = [q EXCEPT !.pc = "done", !.result = "rejected"]
  PROVE  r \in Request /\ Inv(r)
<1>1. r \in Request
  BY Zenon DEF Request
<1>2. /\ r.pc = "done" /\ r.method = q.method /\ r.proto = q.proto /\ r.attempt = q.attempt
      /\ r.sends = q.sends /\ r.recorded = q.recorded /\ r.result = "rejected"
  BY DEF Request
<1>3. Inv(r)
  BY <1>1, <1>2 DEF Inv, Fell, Request
<1> QED
  BY <1>1, <1>3

\* BodyRead.
LEMMA FirstAttempt ==
  ASSUME NEW q \in Request, Inv(q), q.pc = "body",
         NEW p \in {"http1", "http2"}, server = "listener" => p = "http1",
         NEW r, r = [q EXCEPT !.pc = "send", !.attempt = 1, !.proto = p]
  PROVE  r \in Request /\ Inv(r)
<1>1. r \in Request
  BY MaxRetriesAssumption, Zenon DEF Request
<1>2. /\ r.pc = "send" /\ r.method = q.method /\ r.proto = p /\ r.attempt = 1
      /\ r.sends = q.sends /\ r.recorded = q.recorded /\ r.result = q.result
  BY DEF Request
<1>3. Inv(r)
  BY <1>1, <1>2, MaxRetriesAssumption DEF Inv, Fell, Request
<1> QED
  BY <1>1, <1>3

\* Send.
LEMMA Sent ==
  ASSUME NEW q \in Request, Inv(q), q.pc = "send",
         NEW r, r = [q EXCEPT !.pc = "wait", !.sends = @ + 1]
  PROVE  r \in Request /\ Inv(r)
<1> DEFINE next == q.sends + 1
<1>1. next \in Nat /\ r = [q EXCEPT !.pc = "wait", !.sends = next]
  BY DEF Request, Inv
<1> HIDE DEF next
<1>2. r \in Request
  BY <1>1, Zenon DEF Request
<1>3. /\ r.pc = "wait" /\ r.method = q.method /\ r.proto = q.proto /\ r.attempt = q.attempt
      /\ r.sends = next /\ r.recorded = q.recorded /\ r.result = q.result
  BY <1>1, Zenon DEF Request
<1>4. Inv(r)
  BY <1>2, <1>3 DEF Inv, Fell, Request, next
<1> QED
  BY <1>2, <1>4

\* Fallback, which no listener does.
LEMMA FallenBack ==
  ASSUME NEW q \in Request, Inv(q), q.pc = "wait", q.proto = "http2",
         NEW r, r = [q EXCEPT !.proto = "fallback", !.sends = @ + 1]
  PROVE  r \in Request /\ Inv(r)
<1> DEFINE next == q.sends + 1
<1>1. next \in Nat /\ r = [q EXCEPT !.proto = "fallback", !.sends = next]
  BY DEF Request, Inv
<1> HIDE DEF next
<1>2. r \in Request
  BY <1>1, Zenon DEF Request
<1>3. /\ r.pc = q.pc /\ r.method = q.method /\ r.proto = "fallback" /\ r.attempt = q.attempt
      /\ r.sends = next /\ r.recorded = q.recorded /\ r.result = q.result
  BY <1>1, Zenon DEF Request
<1>4. Inv(r)
  BY <1>2, <1>3 DEF Inv, Fell, Request, next
<1> QED
  BY <1>2, <1>4

\* Backoff.
LEMMA BackedOff ==
  ASSUME NEW q \in Request, Inv(q), q.pc = "backoff", NEW p \in {"http1", "fallback"},
         p = IF q.proto = "http2" THEN "http1" ELSE q.proto,
         NEW r, r = [q EXCEPT !.pc = "send", !.attempt = @ + 1, !.proto = p]
  PROVE  r \in Request /\ Inv(r)
<1> DEFINE next == q.attempt + 1
<1>1. next \in Nat /\ r = [q EXCEPT !.pc = "send", !.attempt = next, !.proto = p]
  BY DEF Request, Inv
<1> HIDE DEF next
<1>2. r \in Request
  BY <1>1, MaxRetriesAssumption, Zenon DEF Request
<1>3. /\ r.pc = "send" /\ r.method = q.method /\ r.proto = p /\ r.attempt = next
      /\ r.sends = q.sends /\ r.recorded = q.recorded /\ r.result = q.result
  BY <1>1, Zenon DEF Request
<1>4. Inv(r)
  BY <1>2, <1>3, MaxRetriesAssumption DEF Inv, Fell, Request, next
<1> QED
  BY <1>2, <1>4

\* Record.
LEMMA OutcomeRecorded ==
  ASSUME NEW q \in Request, Inv(q), q.pc = "record", NEW n \in {0, 1}, n = IF q.result = "toolarge" THEN 0 ELSE 1,
         NEW r, r = [q EXCEPT !.pc = "done", !.recorded = @ + n]
  PROVE  r \in Request /\ Inv(r)
<1> DEFINE next == q.recorded + n
<1>1. next \in {0, 1} /\ r = [q EXCEPT !.pc = "done", !.recorded = next]
  BY DEF Request, Inv
<1> HIDE DEF next
<1>2. r \in Request
  BY <1>1, Zenon DEF Request
<1>3. /\ r.pc = "done" /\ r.method = q.method /\ r.proto = q.proto /\ r.attempt = q.attempt
      /\ r.sends = q.sends /\ r.recorded = next /\ r.result = q.result
  BY <1>1, Zenon DEF Request
<1>4. Inv(r)
  BY <1>2, <1>3 DEF Inv, Fell, Request, next
<1> QED
  BY <1>2, <1>4

\* Where a request is during an attempt and after it, what an attempt may end
\* with, its number, and whether another may follow.
Trying == {"body", "send", "wait"}

Tried == {"backoff", "record"}

Results == {"ok", "5xx", "error", "toolarge"}

AttemptOf(q) == IF q.pc = "body" THEN 1 ELSE q.attempt

MayRetry(q) == AttemptOf(q) < MaxRetries + 1 /\ q.method # "POST" /\ server = "proxy"

\* The end of an attempt: a retry is due, or the outcome.
LEMMA Attempted ==
  ASSUME NEW q \in Request, Inv(q), q.pc \in Trying,
         NEW result \in Results,
         NEW attempt, attempt = AttemptOf(q),
         NEW l \in Tried,
         l = "backoff" => MayRetry(q),
         NEW r, r = [q EXCEPT !.result = result, !.attempt = attempt, !.pc = l]
  PROVE  r \in Request /\ Inv(r)
<1>1. /\ attempt \in Nat /\ attempt >= 1
      /\ attempt = q.attempt \/ (q.attempt <= 1 /\ attempt = 1)
  BY DEF Request, Inv, AttemptOf, Trying
<1>2. r \in Request
  BY <1>1, Zenon DEF Request, Tried, Results
<1>3. /\ r.pc = l /\ r.method = q.method /\ r.proto = q.proto /\ r.attempt = attempt
      /\ r.sends = q.sends /\ r.recorded = q.recorded /\ r.result = result
  BY Zenon DEF Request
<1>4. l = "backoff" => attempt < MaxRetries + 1 /\ q.method # "POST" /\ server = "proxy"
  BY Zenon DEF MayRetry
<1>5. Inv(r)
  BY <1>1, <1>2, <1>3, <1>4, MaxRetriesAssumption DEF Inv, Fell, Request, Trying, Tried, Results
<1> QED
  BY <1>2, <1>5

-----------------------------------------------------------------------------
\* The invariant of a request depends on the server, which does not change.
LEMMA SameInv == ASSUME server' = server PROVE \A r : Inv(r)' <=> Inv(r)
BY DEF Inv, Fell

\* A step of one request leaves the others alone.
LEMMA OneChanged ==
  ASSUME RequestsOK, RouteOK, UNCHANGED config, NEW t \in Tasks, DOMAIN req' = Tasks,
         \A u \in Tasks \ {t} : req'[u] = req[u],
         req'[t] = NoRequest \/ (req'[t] \in Request /\ Inv(req'[t]))
  PROVE  (RequestsOK /\ RouteOK)'
<1>1. server' = server /\ route' = route
  BY DEF config
<1>2. ASSUME NEW u \in Tasks, req'[u] # NoRequest PROVE req'[u] \in Request /\ Inv(req'[u])
  <2>1. CASE u = t
    BY <2>1, <1>2
  <2>2. CASE u # t
    BY <2>2, <1>2 DEF RequestsOK
  <2> QED
    BY <2>1, <2>2
<1>3. RequestsOK'
  <2>1. \A r : Inv(r)' <=> Inv(r)
    BY <1>1, SameInv
  <2> QED
    BY <1>2, <2>1 DEF RequestsOK
<1>4. RouteOK'
  BY <1>1 DEF RouteOK
<1> QED
  BY <1>3, <1>4

\* Steps before the request is sent.
LEMMA BeforeSending ==
  ASSUME RequestsOK, RouteOK, NEW t \in Tasks
  PROVE  \/ \E method \in Methods, b \in Backends : Receive(t, method, b) \/ Refuse(t, method, b)
         \/ Limit(t) \/ FilterFails(t) \/ Allow(t) \/ BodyRead(t)
         => (RequestsOK /\ RouteOK)'
<1>1. ASSUME NEW method \in Methods, NEW b \in Backends, Receive(t, method, b) \/ Refuse(t, method, b)
      PROVE  (RequestsOK /\ RouteOK)'
  <2>1. Arrived(method, b) \in Request
    BY DEF Arrived, Request
  <2>2. Inv(Arrived(method, b))
    BY MaxRetriesAssumption DEF Arrived, Inv, Fell
  <2>3. Arrived(method, b).pc = "limit"
    BY Zenon DEF Arrived
  <2>4. \/ req'[t] = Arrived(method, b)
        \/ req'[t] = [Arrived(method, b) EXCEPT !.pc = "done", !.result = "rejected"]
    BY <1>1, Zenon DEF Receive, Refuse, RouteOK
  <2>5. UNCHANGED config /\ DOMAIN req' = Tasks /\ \A u \in Tasks \ {t} : req'[u] = req[u]
    BY <1>1, Zenon DEF Receive, Refuse, RouteOK
  <2>6. req'[t] \in Request /\ Inv(req'[t])
    BY <2>1, <2>2, <2>3, <2>4, Rejected, Zenon
  <2> QED
    BY <2>5, <2>6, OneChanged, Zenon
<1>2. ASSUME Limit(t) \/ FilterFails(t) \/ Allow(t)
      PROVE  (RequestsOK /\ RouteOK)'
  <2>1. req[t].pc \in {"limit", "allow"}
    BY <1>2, Zenon DEF Limit, FilterFails, Allow
  <2>2. req[t].pc # "idle" /\ req[t].pc \in {"limit", "allow", "body"}
    BY <2>1, Zenon
  <2>3. req[t] \in Request /\ Inv(req[t])
    BY <2>2, Under, Zenon
  <2>4. \/ \E l \in {"allow", "body"} : req'[t] = [req[t] EXCEPT !.pc = l]
        \/ req'[t] = [req[t] EXCEPT !.pc = "done", !.result = "rejected"]
    BY <1>2, Zenon DEF Limit, FilterFails, Allow, Goto, Reject, RouteOK
  <2>5. UNCHANGED config /\ DOMAIN req' = Tasks /\ \A u \in Tasks \ {t} : req'[u] = req[u]
    BY <1>2, Zenon DEF Limit, FilterFails, Allow, Goto, Reject, RouteOK
  <2>6. req'[t] \in Request /\ Inv(req'[t])
    <3>1. CASE req'[t] = [req[t] EXCEPT !.pc = "done", !.result = "rejected"]
      BY <2>2, <2>3, <3>1, Rejected, Zenon
    <3>2. CASE \E l \in {"allow", "body"} : req'[t] = [req[t] EXCEPT !.pc = l]
      BY <2>2, <2>3, <3>2, Limited, Zenon
    <3> QED
      BY <2>4, <3>1, <3>2, Zenon
  <2> QED
    BY <2>5, <2>6, OneChanged, Zenon
<1>3. ASSUME BodyRead(t)
      PROVE  (RequestsOK /\ RouteOK)'
  <2>1. req[t].pc = "body" /\ req[t].pc # "idle"
    BY <1>3, Zenon DEF BodyRead
  <2>2. req[t] \in Request /\ Inv(req[t])
    BY <2>1, Under, Zenon
  <2>3. PICK p \in {"http1", "http2"} :
          /\ server = "listener" => p = "http1"
          /\ req'[t] = [req[t] EXCEPT !.pc = "send", !.attempt = 1, !.proto = p]
    BY <1>3, Zenon DEF BodyRead, RouteOK
  <2>4. UNCHANGED config /\ DOMAIN req' = Tasks /\ \A u \in Tasks \ {t} : req'[u] = req[u]
    BY <1>3, Zenon DEF BodyRead, RouteOK
  <2>5. req'[t] \in Request /\ Inv(req'[t])
    BY <2>1, <2>2, <2>3, FirstAttempt, Zenon
  <2> QED
    BY <2>4, <2>5, OneChanged, Zenon
<1> QED
  BY <1>1, <1>2, <1>3, Zenon

\* An attempt that has ended counts, and is followed by another or by the
\* outcome.
LEMMA EndKeeps ==
  ASSUME RouteOK, NEW t \in Tasks, req[t] \in Request, Inv(req[t]), req[t].pc \in Trying,
         NEW result \in Results,
         NEW attempt, attempt = AttemptOf(req[t])
  PROVE  Ended(t, result, attempt) => req'[t] \in Request /\ Inv(req'[t])
<1> SUFFICES ASSUME Ended(t, result, attempt) PROVE req'[t] \in Request /\ Inv(req'[t])
  BY Zenon
<1> DEFINE q == req[t]
<1>1. q \in Request /\ Inv(q) /\ q.pc \in Trying
  BY Zenon
<1>2. PICK l \in Tried :
        /\ l = "backoff" => Retries(t, result, attempt)
        /\ req'[t] = [q EXCEPT !.result = result, !.attempt = attempt, !.pc = l]
  BY Zenon DEF Ended, RouteOK, Tried
<1>3. attempt = AttemptOf(q)
  BY Zenon
<1>4. Retries(t, result, attempt) => MayRetry(q)
  BY <1>3, Zenon DEF Retries, Retryable, RouteOK, MayRetry
<1>5. l = "backoff" => MayRetry(q)
  BY <1>2, <1>4, Zenon
<1> HIDE DEF q
<1>6. [q EXCEPT !.result = result, !.attempt = attempt, !.pc = l] \in Request
      /\ Inv([q EXCEPT !.result = result, !.attempt = attempt, !.pc = l])
  BY <1>1, <1>3, <1>5, Attempted, Zenon
<1> QED
  BY <1>2, <1>6, Zenon

\* Attempts, and what follows them.
LEMMA Attempts ==
  ASSUME RequestsOK, RouteOK, NEW t \in Tasks
  PROVE  \/ BodyTooLarge(t) \/ BodyUnreadable(t) \/ NoConnection(t) \/ TimesOut(t)
         \/ \E result \in {"ok", "5xx", "error"} : BackendAnswers(t, result)
         => (RequestsOK /\ RouteOK)'
<1>1. ASSUME NEW result \in Results,
             NEW attempt, attempt = AttemptOf(req[t]),
             req[t].pc \in Trying,
             Ended(t, result, attempt), UNCHANGED config
      PROVE  (RequestsOK /\ RouteOK)'
  <2>1. req[t].pc # "idle"
    BY <1>1, Zenon DEF Trying
  <2>2. req[t] \in Request /\ Inv(req[t])
    BY <2>1, Under, Zenon
  <2>3. req'[t] \in Request /\ Inv(req'[t])
    BY <1>1, <2>2, EndKeeps, Zenon
  <2>4. DOMAIN req' = Tasks /\ \A u \in Tasks \ {t} : req'[u] = req[u]
    BY <1>1, Zenon DEF Ended, RouteOK
  <2> QED
    BY <1>1, <2>3, <2>4, OneChanged, Zenon
<1>2. ASSUME BodyUnreadable(t), Reject(t)
      PROVE  (RequestsOK /\ RouteOK)'
  <2>1. /\ req[t].pc = "body" /\ req[t].pc # "idle" /\ UNCHANGED config
        /\ req[t].pc \in {"limit", "allow", "body"}
    BY <1>2, Zenon DEF BodyUnreadable
  <2>2. req[t] \in Request /\ Inv(req[t])
    BY <2>1, Under, Zenon
  <2>3. /\ req'[t] = [req[t] EXCEPT !.pc = "done", !.result = "rejected"]
        /\ DOMAIN req' = Tasks /\ \A u \in Tasks \ {t} : req'[u] = req[u]
    BY <1>2, Zenon DEF Reject, RouteOK
  <2>4. req'[t] \in Request /\ Inv(req'[t])
    BY <2>1, <2>2, <2>3, Rejected, Zenon
  <2> QED
    BY <2>1, <2>3, <2>4, OneChanged, Zenon
<1>3. ASSUME BodyTooLarge(t) PROVE (RequestsOK /\ RouteOK)'
  BY <1>1, <1>3, Zenon DEF BodyTooLarge, AttemptOf, Trying, Results
<1>4. ASSUME BodyUnreadable(t) PROVE (RequestsOK /\ RouteOK)'
  BY <1>1, <1>2, <1>4, Zenon DEF BodyUnreadable, AttemptOf, Trying, Results
<1>5. ASSUME NoConnection(t) PROVE (RequestsOK /\ RouteOK)'
  BY <1>1, <1>5, Zenon DEF NoConnection, AttemptOf, Trying, Results
<1>6. ASSUME TimesOut(t) PROVE (RequestsOK /\ RouteOK)'
  BY <1>1, <1>6, Zenon DEF TimesOut, BackendTimed, AttemptOf, Trying, Results
<1>7. ASSUME NEW result \in {"ok", "5xx", "error"}, BackendAnswers(t, result) PROVE (RequestsOK /\ RouteOK)'
  BY <1>1, <1>7, Zenon DEF BackendAnswers, AttemptOf, Trying, Results
<1> QED
  BY <1>3, <1>4, <1>5, <1>6, <1>7, Zenon

\* The sends themselves, the outcome and the end of a request.
LEMMA Sending ==
  ASSUME RequestsOK, RouteOK, NEW t \in Tasks
  PROVE  \/ Send(t) \/ Fallback(t) \/ Backoff(t) \/ Record(t) \/ Done(t) \/ ClientLeaves(t)
         => (RequestsOK /\ RouteOK)'
<1>1. ASSUME Send(t) PROVE (RequestsOK /\ RouteOK)'
  <2>1. req[t].pc = "send" /\ req[t].pc # "idle"
    BY <1>1, Zenon DEF Send
  <2>2. req[t] \in Request /\ Inv(req[t])
    BY <2>1, Under, Zenon
  <2>3. /\ req'[t] = [req[t] EXCEPT !.pc = "wait", !.sends = @ + 1]
        /\ UNCHANGED config /\ DOMAIN req' = Tasks /\ \A u \in Tasks \ {t} : req'[u] = req[u]
    BY <1>1, Zenon DEF Send, RouteOK
  <2>4. req'[t] \in Request /\ Inv(req'[t])
    BY <2>1, <2>2, <2>3, Sent, Zenon
  <2> QED
    BY <2>3, <2>4, OneChanged, Zenon
<1>2. ASSUME Fallback(t) PROVE (RequestsOK /\ RouteOK)'
  <2>1. req[t].pc = "wait" /\ req[t].pc # "idle" /\ req[t].proto = "http2"
    BY <1>2, Zenon DEF Fallback
  <2>2. req[t] \in Request /\ Inv(req[t])
    BY <2>1, Under, Zenon
  <2>3. /\ req'[t] = [req[t] EXCEPT !.proto = "fallback", !.sends = @ + 1]
        /\ UNCHANGED config /\ DOMAIN req' = Tasks /\ \A u \in Tasks \ {t} : req'[u] = req[u]
    BY <1>2, Zenon DEF Fallback, RouteOK
  <2>4. req'[t] \in Request /\ Inv(req'[t])
    BY <2>1, <2>2, <2>3, FallenBack, Zenon
  <2> QED
    BY <2>3, <2>4, OneChanged, Zenon
<1>3. ASSUME Backoff(t) PROVE (RequestsOK /\ RouteOK)'
  <2>1. req[t].pc = "backoff" /\ req[t].pc # "idle"
    BY <1>3, Zenon DEF Backoff
  <2>2. req[t] \in Request /\ Inv(req[t])
    BY <2>1, Under, Zenon
  <2>3. /\ req'[t] = [req[t] EXCEPT !.pc = "send", !.attempt = @ + 1, !.proto = IF @ = "http2" THEN "http1" ELSE @]
        /\ UNCHANGED config /\ DOMAIN req' = Tasks /\ \A u \in Tasks \ {t} : req'[u] = req[u]
    BY <1>3, Zenon DEF Backoff, RouteOK
  <2>4. PICK p \in {"http1", "fallback"} :
          /\ p = IF req[t].proto = "http2" THEN "http1" ELSE req[t].proto
          /\ req'[t] = [req[t] EXCEPT !.pc = "send", !.attempt = @ + 1, !.proto = p]
    BY <2>2, <2>3, Zenon DEF Request
  <2>5. req'[t] \in Request /\ Inv(req'[t])
    BY <2>1, <2>2, <2>4, BackedOff, Zenon
  <2> QED
    BY <2>3, <2>5, OneChanged, Zenon
<1>4. ASSUME Record(t) PROVE (RequestsOK /\ RouteOK)'
  <2>1. req[t].pc = "record" /\ req[t].pc # "idle"
    BY <1>4, Zenon DEF Record
  <2>2. req[t] \in Request /\ Inv(req[t])
    BY <2>1, Under, Zenon
  <2>3. PICK n \in {0, 1} :
          /\ n = IF req[t].result = "toolarge" THEN 0 ELSE 1
          /\ req'[t] = [req[t] EXCEPT !.pc = "done", !.recorded = @ + n]
    BY <1>4, Zenon DEF Record, Responded, RouteOK
  <2>4. UNCHANGED config /\ DOMAIN req' = Tasks /\ \A u \in Tasks \ {t} : req'[u] = req[u]
    BY <1>4, Zenon DEF Record, Responded, RouteOK
  <2>5. req'[t] \in Request /\ Inv(req'[t])
    BY <2>1, <2>2, <2>3, OutcomeRecorded, Zenon
  <2> QED
    BY <2>4, <2>5, OneChanged, Zenon
<1>5. ASSUME Done(t) \/ ClientLeaves(t) PROVE (RequestsOK /\ RouteOK)'
  <2>1. /\ req'[t] = NoRequest
        /\ UNCHANGED config /\ DOMAIN req' = Tasks /\ \A u \in Tasks \ {t} : req'[u] = req[u]
    BY <1>5, Zenon DEF Done, ClientLeaves, RouteOK
  <2> QED
    BY <2>1, OneChanged, Zenon
<1> QED
  BY <1>1, <1>2, <1>3, <1>4, <1>5, Zenon

\* Time passes for the rate limit and for the breakers, not for a request.
LEMMA NoRequestMoves ==
  Refill \/ (\E b \in Backends : OpenTimeout(b)) \/ UNCHANGED vars => UNCHANGED <<config, req, word, afterOpen>>
BY Zenon DEF Refill, OpenTimeout, vars, config, breaker

\* Every step keeps the invariant of the requests.
LEMMA RequestStep == RequestsOK /\ RouteOK /\ [Next]_vars => (RequestsOK /\ RouteOK)'
<1> SUFFICES ASSUME RequestsOK, RouteOK PROVE [Next]_vars => (RequestsOK /\ RouteOK)'
  BY Zenon
<1>1. ASSUME UNCHANGED <<config, req>> PROVE (RequestsOK /\ RouteOK)'
  <2>1. \A r : Inv(r)' <=> Inv(r)
    BY <1>1, SameInv, Zenon DEF config
  <2>2. RequestsOK'
    BY <1>1, <2>1, Zenon DEF RequestsOK
  <2>3. RouteOK'
    BY <1>1, Zenon DEF RouteOK, config
  <2> QED
    BY <2>2, <2>3, Zenon
<1>2. Refill \/ (\E b \in Backends : OpenTimeout(b)) \/ UNCHANGED vars => (RequestsOK /\ RouteOK)'
  BY <1>1, NoRequestMoves, Zenon
<1> QED
  BY <1>2, BeforeSending, Attempts, Sending, ZenonT(30) DEF Next, Proceed

\* The first requests are yet to come.
LEMMA RequestInit == Init => RequestsOK /\ RouteOK
BY DEF Init, RequestsOK, RouteOK

(***************************************************************************)
(* record_request_metrics and finalize_response: whatever attempts, time-  *)
(* outs and fallbacks a request has gone through, its breaker hears of it  *)
(* once if it has a result, and not at all otherwise.                      *)
(***************************************************************************)
THEOREM RecordedOnce == Spec => []OutcomeRecordedOnce
<1>1. RequestsOK => OutcomeRecordedOnce
  BY DEF RequestsOK, OutcomeRecordedOnce, Inv, NoRequest
<1> QED
  BY <1>1, RequestInit, RequestStep, PTL DEF Spec

(***************************************************************************)
(* execute_with_retry and forward_to_backend: a request is sent no more    *)
(* often than its retries and one fallback allow, for any max_retries.     *)
(***************************************************************************)
THEOREM SendsAlwaysBounded == Spec => []SendsBounded
<1>1. RequestsOK => SendsBounded
  <2> SUFFICES ASSUME RequestsOK, NEW t \in Tasks, req[t] # NoRequest
               PROVE  LET fell == IF req[t].proto = "fallback" THEN 1 ELSE 0 IN
                      /\ req[t].sends <= fell + (IF req[t].method = "POST" THEN 1 ELSE MaxRetries + 1)
                      /\ server = "listener" => req[t].sends <= 1
                      /\ req[t].result = "rejected" => req[t].sends = 0
    BY DEF SendsBounded
  <2>1. req[t] \in Request /\ Inv(req[t])
    BY DEF RequestsOK
  <2> QED
    BY <2>1, MaxRetriesAssumption DEF Request, Inv, Fell
<1> QED
  BY <1>1, RequestInit, RequestStep, PTL DEF Spec

-----------------------------------------------------------------------------
(***************************************************************************)
(* What a backend may still get once its breaker is open: the sends that   *)
(* the requests admitted before have left, as a set of pairs of a task and *)
(* the number of a send, so that a send takes one element away.            *)
(***************************************************************************)
MaxSends == MaxRetries + 2

\* The sends to b that request r has left: one for each attempt to come, one
\* for the attempt that has not sent yet, one for a fallback.
Left(r, b) ==
  IF r.pc \notin {"body", "send", "wait", "backoff"} \/ r.backend # b THEN 0
  ELSE IF r.pc = "body" THEN MaxSends
  ELSE (MaxRetries + 1 - r.attempt) + (IF r.pc = "send" THEN 1 ELSE 0)
         + (IF r.pc # "backoff" /\ r.proto = "http2" THEN 1 ELSE 0)

Pending(rs, b) == {p \in Tasks \X (1 .. MaxSends) : p[2] <= Left(rs[p[1]], b)}

\* While a breaker is open, what was sent since and what is pending fit in what
\* all tasks but the one that opened it could send.
ShedOK ==
  /\ DOMAIN word = Backends /\ DOMAIN afterOpen = Backends
  /\ \A b \in Backends :
       /\ afterOpen[b] \in Nat
       /\ IF word[b].state = OPEN THEN afterOpen[b] + Cardinality(Pending(req, b)) <= AfterOpenMax
          ELSE afterOpen[b] = 0

\* A request has no more than MaxSends left; one that was not admitted, or is
\* over, has none.
LEMMA LeftType ==
  ASSUME NEW b, NEW r, r = NoRequest \/ (r \in Request /\ Inv(r))
  PROVE  /\ Left(r, b) \in 0 .. MaxSends
         /\ r.pc \notin {"body", "send", "wait", "backoff"} => Left(r, b) = 0
<1>1. CASE r = NoRequest
  BY <1>1, MaxRetriesAssumption DEF NoRequest, Left, MaxSends
<1>2. CASE r \in Request /\ Inv(r)
  BY <1>2, MaxRetriesAssumption DEF Request, Inv, Left, MaxSends
<1> QED
  BY <1>1, <1>2

\* There are finitely many pending sends.
LEMMA PendingFinite ==
  ASSUME NEW rs, NEW b
  PROVE  IsFiniteSet(Pending(rs, b)) /\ Cardinality(Pending(rs, b)) \in Nat
<1>1. IsFiniteSet(1 .. MaxSends)
  BY FS_Interval, MaxRetriesAssumption DEF MaxSends
<1>2. IsFiniteSet(Tasks \X (1 .. MaxSends))
  BY <1>1, TasksAssumption, FS_Product, Zenon
<1>3. Pending(rs, b) \in SUBSET (Tasks \X (1 .. MaxSends))
  BY DEF Pending
<1> QED
  BY <1>2, <1>3, FS_Subset, FS_CardinalityType

\* A step of one task that leaves it no more sends leaves no more pending.
LEMMA NoMorePending ==
  ASSUME NEW rs, NEW next, NEW b, NEW t \in Tasks, \A u \in Tasks \ {t} : next[u] = rs[u],
         Left(rs[t], b) \in Nat, Left(next[t], b) \in Nat, Left(next[t], b) <= Left(rs[t], b)
  PROVE  Cardinality(Pending(next, b)) <= Cardinality(Pending(rs, b))
<1>1. Pending(next, b) \in SUBSET Pending(rs, b)
  <2> SUFFICES ASSUME NEW p \in Tasks \X (1 .. MaxSends), p[2] <= Left(next[p[1]], b)
               PROVE  p[2] <= Left(rs[p[1]], b)
    BY DEF Pending
  <2>1. CASE p[1] = t
    BY <2>1, MaxRetriesAssumption DEF MaxSends
  <2>2. CASE p[1] # t
    BY <2>2
  <2> QED
    BY <2>1, <2>2
<1> QED
  BY <1>1, PendingFinite, FS_Subset

\* A send takes one of the pending ones.
LEMMA OneLessPending ==
  ASSUME NEW rs, NEW next, NEW b, NEW t \in Tasks, \A u \in Tasks \ {t} : next[u] = rs[u],
         Left(rs[t], b) \in 0 .. MaxSends, Left(next[t], b) \in Nat, Left(next[t], b) < Left(rs[t], b)
  PROVE  Cardinality(Pending(next, b)) + 1 <= Cardinality(Pending(rs, b))
<1> DEFINE p == <<t, Left(rs[t], b)>>
<1>1. p \in Pending(rs, b)
  BY MaxRetriesAssumption DEF Pending, MaxSends
<1>2. Pending(next, b) \in SUBSET (Pending(rs, b) \ {p})
  <2> SUFFICES ASSUME NEW q \in Tasks \X (1 .. MaxSends), q[2] <= Left(next[q[1]], b)
               PROVE  q[2] <= Left(rs[q[1]], b) /\ q # p
    BY DEF Pending
  <2>1. CASE q[1] = t
    BY <2>1, MaxRetriesAssumption DEF MaxSends
  <2>2. CASE q[1] # t
    BY <2>2
  <2> QED
    BY <2>1, <2>2
<1> HIDE DEF p
<1>3. IsFiniteSet(Pending(rs, b) \ {p}) /\ Cardinality(Pending(rs, b) \ {p}) = Cardinality(Pending(rs, b)) - 1
  BY <1>1, PendingFinite, FS_RemoveElement
<1>4. Cardinality(Pending(next, b)) <= Cardinality(Pending(rs, b) \ {p})
  BY <1>2, <1>3, FS_Subset
<1> QED
  BY <1>3, <1>4, PendingFinite

\* A task without sends leaves those of the others.
LEMMA OthersPending ==
  ASSUME NEW rs, NEW b, NEW t \in Tasks, Left(rs[t], b) = 0
  PROVE  Cardinality(Pending(rs, b)) <= AfterOpenMax /\ AfterOpenMax \in Nat
<1>1. /\ IsFiniteSet(Tasks \ {t}) /\ Cardinality(Tasks \ {t}) = Cardinality(Tasks) - 1
      /\ Cardinality(Tasks) \in Nat /\ Cardinality(Tasks \ {t}) \in Nat
  BY TasksAssumption, FS_RemoveElement, FS_CardinalityType
<1>2. IsFiniteSet(1 .. MaxSends) /\ Cardinality(1 .. MaxSends) = MaxSends
  BY FS_Interval, MaxRetriesAssumption DEF MaxSends
<1>3. /\ IsFiniteSet((Tasks \ {t}) \X (1 .. MaxSends))
      /\ Cardinality((Tasks \ {t}) \X (1 .. MaxSends)) = AfterOpenMax
  <2>1. AfterOpenMax = Cardinality(Tasks \ {t}) * Cardinality(1 .. MaxSends)
    BY <1>1, <1>2 DEF AfterOpenMax, MaxSends
  <2> QED
    BY <1>1, <1>2, <2>1, FS_Product, Zenon
<1>4. Pending(rs, b) \in SUBSET ((Tasks \ {t}) \X (1 .. MaxSends))
  BY MaxRetriesAssumption DEF Pending, MaxSends
<1> QED
  BY <1>3, <1>4, FS_Subset, FS_CardinalityType

\* The first attempt leaves a request no more sends than it had.
LEMMA LeftFirst ==
  ASSUME NEW b, NEW q, NEW r, q.pc = "body", r.pc = "send", r.attempt = 1, r.backend = q.backend
  PROVE  Left(r, b) <= Left(q, b)
BY MaxRetriesAssumption DEF Left, MaxSends

\* Nor does a retry.
LEMMA LeftRetry ==
  ASSUME NEW b, NEW q, NEW r, q.pc = "backoff", q.attempt \in Nat, r.pc = "send", r.attempt = q.attempt + 1,
         r.backend = q.backend, r.proto # "http2"
  PROVE  Left(r, b) <= Left(q, b)
BY MaxRetriesAssumption DEF Left

\* Nor does the end of an attempt.
LEMMA LeftEnded ==
  ASSUME NEW b, NEW q, NEW r, q.pc \in Trying, q.attempt \in Nat, q.attempt <= MaxRetries + 1,
         r.pc \in Tried, r.backend = q.backend,
         NEW n, n = AttemptOf(q), r.attempt = n
  PROVE  Left(r, b) <= Left(q, b)
<1>1. CASE r.pc = "backoff"
  BY <1>1, MaxRetriesAssumption DEF Left, MaxSends, AttemptOf, Trying, Tried
<1>2. CASE r.pc # "backoff"
  BY <1>2, MaxRetriesAssumption DEF Left, MaxSends, AttemptOf, Trying, Tried
<1> QED
  BY <1>1, <1>2

\* A send leaves it one less to its backend, and never had any to another.
LEMMA LeftSent ==
  ASSUME NEW q, NEW r, q.attempt \in Nat, r.pc = "wait", r.attempt = q.attempt, r.backend = q.backend,
         \/ q.pc = "send" /\ r.proto = q.proto
         \/ q.pc = "wait" /\ q.proto = "http2" /\ r.proto = "fallback"
  PROVE  /\ Left(r, q.backend) < Left(q, q.backend)
         /\ \A b : b # q.backend => Left(r, b) = 0 /\ Left(q, b) = 0
<1>1. Left(r, q.backend) < Left(q, q.backend)
  BY MaxRetriesAssumption DEF Left
<1>2. \A b : b # q.backend => Left(r, b) = 0 /\ Left(q, b) = 0
  BY DEF Left
<1> QED
  BY <1>1, <1>2

\* A request that is not admitted, or is over, has nothing left to send.
LEMMA LeftNothing ==
  ASSUME NEW b, NEW q, Left(q, b) \in 0 .. MaxSends, NEW r, r.pc \notin {"body", "send", "wait", "backoff"}
  PROVE  Left(r, b) <= Left(q, b)
BY MaxRetriesAssumption DEF Left, MaxSends

\* A request under way has made at most all its attempts.
LEMMA AttemptType ==
  ASSUME NEW q \in Request, Inv(q), q.pc \in {"body", "send", "wait", "backoff"}
  PROVE  q.attempt \in Nat /\ q.attempt <= MaxRetries + 1 /\ q.backend \in Backends
BY MaxRetriesAssumption DEF Request, Inv

\* Steps that leave the breakers alone and send nothing: the request has no
\* more sends left than before.
LEMMA NothingSent ==
  ASSUME RequestsOK, RouteOK, NEW t \in Tasks, NEW b
  PROVE  \/ \E method \in Methods, c \in Backends : Receive(t, method, c) \/ Refuse(t, method, c)
         \/ Limit(t) \/ FilterFails(t) \/ BodyRead(t) \/ Backoff(t) \/ Done(t) \/ ClientLeaves(t)
         \/ BodyTooLarge(t) \/ BodyUnreadable(t) \/ NoConnection(t) \/ TimesOut(t)
         \/ \E result \in {"ok", "5xx", "error"} : BackendAnswers(t, result)
         => Left(req'[t], b) <= Left(req[t], b)
<1>1. Left(req[t], b) \in 0 .. MaxSends
  <2>1. req[t] = NoRequest \/ (req[t] \in Request /\ Inv(req[t]))
    BY Zenon DEF RequestsOK
  <2> QED
    BY <2>1, LeftType, Zenon
<1>2. ASSUME req'[t].pc \in {"limit", "allow", "done", "idle"} PROVE Left(req'[t], b) <= Left(req[t], b)
  <2>1. req'[t].pc \notin {"body", "send", "wait", "backoff"}
    BY <1>2, Zenon
  <2> QED
    BY <1>1, <2>1, LeftNothing, Zenon
<1>3. ASSUME BodyRead(t) PROVE Left(req'[t], b) <= Left(req[t], b)
  <2>1. req[t].pc = "body" /\ req[t].pc # "idle"
    BY <1>3, Zenon DEF BodyRead
  <2>2. req[t] \in Request
    BY <2>1, Under, Zenon
  <2>3. PICK p : req'[t] = [req[t] EXCEPT !.pc = "send", !.attempt = 1, !.proto = p]
    BY <1>3, Zenon DEF BodyRead, RouteOK
  <2>4. req'[t].pc = "send" /\ req'[t].attempt = 1 /\ req'[t].backend = req[t].backend
    BY <2>2, <2>3, Zenon DEF Request
  <2> QED
    BY <2>1, <2>4, LeftFirst, Zenon
<1>4. ASSUME Backoff(t) PROVE Left(req'[t], b) <= Left(req[t], b)
  <2>1. req[t].pc = "backoff" /\ req[t].pc # "idle" /\ req[t].pc \in {"body", "send", "wait", "backoff"}
    BY <1>4, Zenon DEF Backoff
  <2>2. req[t] \in Request /\ Inv(req[t])
    BY <2>1, Under, Zenon
  <2>3. req'[t] = [req[t] EXCEPT !.pc = "send", !.attempt = @ + 1, !.proto = IF @ = "http2" THEN "http1" ELSE @]
    BY <1>4, Zenon DEF Backoff, RouteOK
  <2>4. /\ req'[t].pc = "send" /\ req'[t].attempt = req[t].attempt + 1 /\ req'[t].backend = req[t].backend
        /\ req'[t].proto # "http2"
    BY <2>2, <2>3, Zenon DEF Request
  <2>5. req[t].attempt \in Nat
    BY <2>1, <2>2, AttemptType, Zenon
  <2> QED
    BY <2>1, <2>4, <2>5, LeftRetry, Zenon
<1>5. ASSUME req[t].pc \in Trying, NEW result, NEW n,
             n = AttemptOf(req[t]), Ended(t, result, n)
      PROVE  Left(req'[t], b) <= Left(req[t], b)
  <2>1. req[t].pc # "idle" /\ req[t].pc \in {"body", "send", "wait", "backoff"}
    BY <1>5, Zenon DEF Trying
  <2>2. req[t] \in Request /\ Inv(req[t])
    BY <2>1, Under, Zenon
  <2>3. req[t].attempt \in Nat /\ req[t].attempt <= MaxRetries + 1
    BY <2>1, <2>2, AttemptType, Zenon
  <2>4. PICK l \in Tried :
          req'[t] = [req[t] EXCEPT !.result = result, !.attempt = n, !.pc = l]
    BY <1>5, Zenon DEF Ended, RouteOK, Tried
  <2>5. req'[t].pc \in Tried /\ req'[t].backend = req[t].backend /\ req'[t].attempt = n
    BY <2>2, <2>4, Zenon DEF Request
  <2> QED
    BY <1>5, <2>3, <2>5, LeftEnded, Zenon
<1>6. ASSUME BodyTooLarge(t) PROVE Left(req'[t], b) <= Left(req[t], b)
  BY <1>5, <1>6, Zenon DEF BodyTooLarge, AttemptOf, Trying
<1>7. ASSUME BodyUnreadable(t) PROVE Left(req'[t], b) <= Left(req[t], b)
  <2>1. CASE Reject(t)
    <3>1. req[t].pc # "idle"
      BY <1>7, Zenon DEF BodyUnreadable
    <3>2. req[t] \in Request
      BY <3>1, Under, Zenon
    <3>3. req'[t] = [req[t] EXCEPT !.pc = "done", !.result = "rejected"]
      BY <2>1, Zenon DEF Reject, RouteOK
    <3>4. req'[t].pc \in {"limit", "allow", "done", "idle"}
      BY <3>2, <3>3, Zenon DEF Request
    <3> QED
      BY <1>2, <3>4, Zenon
  <2> QED
    BY <1>5, <1>7, <2>1, Zenon DEF BodyUnreadable, AttemptOf, Trying
<1>8. ASSUME NoConnection(t) PROVE Left(req'[t], b) <= Left(req[t], b)
  BY <1>5, <1>8, Zenon DEF NoConnection, AttemptOf, Trying
<1>9. ASSUME TimesOut(t) PROVE Left(req'[t], b) <= Left(req[t], b)
  BY <1>5, <1>9, Zenon DEF TimesOut, BackendTimed, AttemptOf, Trying
<1>10. ASSUME NEW result, BackendAnswers(t, result) PROVE Left(req'[t], b) <= Left(req[t], b)
  BY <1>5, <1>10, Zenon DEF BackendAnswers, AttemptOf, Trying
<1>11. ASSUME NEW method \in Methods, NEW c \in Backends, Receive(t, method, c) \/ Refuse(t, method, c)
       PROVE  Left(req'[t], b) <= Left(req[t], b)
  <2>1. Arrived(method, c) \in Request /\ Arrived(method, c).pc = "limit"
    BY DEF Arrived, Request
  <2>2. \/ req'[t] = Arrived(method, c)
        \/ req'[t] = [Arrived(method, c) EXCEPT !.pc = "done", !.result = "rejected"]
    BY <1>11, Zenon DEF Receive, Refuse, RouteOK
  <2>3. req'[t].pc \in {"limit", "allow", "done", "idle"}
    BY <2>1, <2>2, Zenon DEF Request
  <2> QED
    BY <1>2, <2>3, Zenon
<1>12. ASSUME Limit(t) \/ FilterFails(t) PROVE Left(req'[t], b) <= Left(req[t], b)
  <2>1. req[t].pc # "idle"
    BY <1>12, Zenon DEF Limit, FilterFails
  <2>2. req[t] \in Request
    BY <2>1, Under, Zenon
  <2>3. \/ req'[t] = [req[t] EXCEPT !.pc = "allow"]
        \/ req'[t] = [req[t] EXCEPT !.pc = "done", !.result = "rejected"]
    BY <1>12, Zenon DEF Limit, FilterFails, Goto, Reject, RouteOK
  <2>4. req'[t].pc \in {"limit", "allow", "done", "idle"}
    BY <2>2, <2>3, Zenon DEF Request
  <2> QED
    BY <1>2, <2>4, Zenon
<1>13. ASSUME Done(t) \/ ClientLeaves(t) PROVE Left(req'[t], b) <= Left(req[t], b)
  <2>1. req'[t] = NoRequest
    BY <1>13, Zenon DEF Done, ClientLeaves, RouteOK
  <2>2. NoRequest.pc \in {"limit", "allow", "done", "idle"}
    BY Zenon DEF NoRequest
  <2> QED
    BY <1>2, <2>1, <2>2, Zenon
<1> QED
  BY <1>3, <1>4, <1>6, <1>7, <1>8, <1>9, <1>10, <1>11, <1>12, <1>13, Zenon

\* A send to the backend, first of an attempt or falling back, uses one up.
LEMMA SendUsesOne ==
  ASSUME RequestsOK, RouteOK, NEW t \in Tasks
  PROVE  Send(t) \/ Fallback(t)
         => /\ req[t].backend \in Backends
            /\ Left(req'[t], req[t].backend) < Left(req[t], req[t].backend)
            /\ \A b : b # req[t].backend => Left(req'[t], b) = 0 /\ Left(req[t], b) = 0
<1>1. ASSUME Send(t) \/ Fallback(t)
      PROVE  /\ req[t].pc # "idle" /\ req[t].pc \in {"body", "send", "wait", "backoff"}
             /\ \/ /\ req[t].pc = "send"
                   /\ req'[t] = [req[t] EXCEPT !.pc = "wait", !.sends = @ + 1]
                \/ /\ req[t].pc = "wait" /\ req[t].proto = "http2"
                   /\ req'[t] = [req[t] EXCEPT !.proto = "fallback", !.sends = @ + 1]
  BY <1>1, Zenon DEF Send, Fallback, RouteOK
<1>2. ASSUME Send(t) \/ Fallback(t) PROVE req[t] \in Request /\ Inv(req[t])
  BY <1>1, <1>2, Under, Zenon
<1>3. ASSUME Send(t) \/ Fallback(t) PROVE req[t].attempt \in Nat /\ req[t].backend \in Backends
  BY <1>1, <1>2, <1>3, AttemptType, Zenon
<1>4. ASSUME Send(t) \/ Fallback(t)
      PROVE  /\ req'[t].pc = "wait" /\ req'[t].attempt = req[t].attempt /\ req'[t].backend = req[t].backend
             /\ \/ req[t].pc = "send" /\ req'[t].proto = req[t].proto
                \/ req[t].pc = "wait" /\ req[t].proto = "http2" /\ req'[t].proto = "fallback"
  BY <1>1, <1>2, <1>4, Zenon DEF Request
<1> QED
  BY <1>3, <1>4, LeftSent, Zenon

\* allow_request lets nobody through an open circuit; a success or a failure
\* that was recorded leaves its request nothing to send.
LEMMA BreakerAsked ==
  ASSUME RequestsOK, RouteOK, NEW t \in Tasks, DOMAIN word = Backends
  PROVE  Allow(t) \/ Record(t)
         => /\ req[t] \in Request /\ DOMAIN word' = Backends
            /\ \A b \in Backends \ {req[t].backend} : word'[b] = word[b]
            /\ \A b : Left(req[t], b) = 0
            /\ Record(t) \/ word'[req[t].backend].state = OPEN => req'[t].pc = "done"
            /\ Allow(t) /\ word'[req[t].backend].state = OPEN => word[req[t].backend].state = OPEN
            /\ \A b \in Backends \ {req[t].backend} : Left(req'[t], b) = 0
<1>1. ASSUME Allow(t) \/ Record(t)
      PROVE  req[t].pc # "idle" /\ req[t].pc \notin {"body", "send", "wait", "backoff"}
  BY <1>1, Zenon DEF Allow, Record
<1>2. ASSUME Allow(t) \/ Record(t) PROVE req[t] \in Request
  BY <1>1, <1>2, Under, Zenon
<1>3. ASSUME Allow(t) \/ Record(t)
      PROVE  DOMAIN word' = Backends /\ \A b \in Backends \ {req[t].backend} : word'[b] = word[b]
  BY <1>3, Zenon DEF Allow, Record, record_success, record_failure, breaker
<1>4. ASSUME Allow(t) \/ Record(t), NEW b PROVE Left(req[t], b) = 0
  BY <1>1, <1>4, Zenon DEF Left
<1>5. ASSUME Allow(t)
      PROVE  /\ ~ Record(t)
             /\ word'[req[t].backend].state = OPEN => req'[t].pc = "done" /\ word[req[t].backend].state = OPEN
             /\ \A b \in Backends \ {req[t].backend} : Left(req'[t], b) = 0
  <2>1. ProbeWord.state = HALFOPEN /\ \A w : AdmitWord(w).state = HALFOPEN
    BY Zenon DEF ProbeWord, AdmitWord, pack_state
  <2>2. req[t].backend \in Backends
    BY <1>2, <1>5, Zenon DEF Request
  <2>3. \/ req'[t] = [req[t] EXCEPT !.pc = "body"] /\ word'[req[t].backend].state # OPEN
        \/ /\ req'[t] = [req[t] EXCEPT !.pc = "done", !.result = "rejected"]
           /\ word' = word
    BY <1>5, <2>1, <2>2, Zenon DEF Allow, Goto, Reject, RouteOK, CLOSED, OPEN, HALFOPEN
  <2>4. \/ req'[t].pc = "body" /\ word'[req[t].backend].state # OPEN
        \/ req'[t].pc = "done" /\ word' = word
    BY <1>2, <1>5, <2>3, Zenon DEF Request
  <2>5. req'[t].backend = req[t].backend
    BY <1>2, <1>5, <2>3, Zenon DEF Request
  <2>6. ~ Record(t)
    BY <1>5, ZenonT(30) DEF Allow, Record
  <2>7. \A b \in Backends \ {req[t].backend} : Left(req'[t], b) = 0
    BY <2>5, Zenon DEF Left
  <2> QED
    BY <2>4, <2>6, <2>7, Zenon
<1>6. ASSUME Record(t)
      PROVE  ~ Allow(t) /\ req'[t].pc = "done" /\ \A b : Left(req'[t], b) = 0
  <2>1. PICK n : req'[t] = [req[t] EXCEPT !.pc = "done", !.recorded = @ + n]
    BY <1>6, Zenon DEF Record, Responded, RouteOK
  <2>2. req'[t].pc = "done"
    BY <1>2, <1>6, <2>1, Zenon DEF Request
  <2>3. ~ Allow(t)
    BY <1>6, ZenonT(30) DEF Allow, Record
  <2>4. \A b : Left(req'[t], b) = 0
    BY <2>2, Zenon DEF Left
  <2> QED
    BY <2>2, <2>3, <2>4, Zenon
<1> QED
  BY <1>2, <1>3, <1>4, <1>5, <1>6, Zenon

\* What ShedOK says of one backend.
Shed(b) ==
  /\ afterOpen[b] \in Nat
  /\ word[b].state = OPEN => afterOpen[b] + Cardinality(Pending(req, b)) <= AfterOpenMax
  /\ word[b].state # OPEN => afterOpen[b] = 0

\* ShedOK, before and after a step, is Shed of every backend.
LEMMA ShedEach ==
  /\ ShedOK <=> DOMAIN word = Backends /\ DOMAIN afterOpen = Backends /\ \A b \in Backends : Shed(b)
  /\ ShedOK' <=> DOMAIN word' = Backends /\ DOMAIN afterOpen' = Backends /\ \A b \in Backends : Shed(b)'
<1>1. ShedOK <=> DOMAIN word = Backends /\ DOMAIN afterOpen = Backends /\ \A b \in Backends : Shed(b)
  BY Zenon DEF ShedOK, Shed
<1>2. ShedOK' <=> DOMAIN word' = Backends /\ DOMAIN afterOpen' = Backends /\ \A b \in Backends : Shed(b)'
  BY Zenon DEF ShedOK, Shed
<1> QED
  BY <1>1, <1>2

\* The bound is an integer.
LEMMA AfterOpenMaxType == AfterOpenMax \in Int
BY TasksAssumption, FS_CardinalityType, MaxRetriesAssumption DEF AfterOpenMax

\* A backend whose breaker and count of sends stay, and that has no more sends
\* pending than before.
LEMMA ShedKept ==
  ASSUME NEW b, Shed(b), word'[b] = word[b], afterOpen'[b] = afterOpen[b],
         Cardinality(Pending(req', b)) <= Cardinality(Pending(req, b))
  PROVE  Shed(b)'
<1>1. Cardinality(Pending(req', b)) \in Nat /\ Cardinality(Pending(req, b)) \in Nat
  BY PendingFinite, Zenon
<1> QED
  BY <1>1, AfterOpenMaxType DEF Shed

\* The types of the sends left before and after a step.
LEMMA LeftBoth ==
  ASSUME RequestsOK, RequestsOK', server' = server, NEW t \in Tasks, NEW b
  PROVE  Left(req[t], b) \in 0 .. MaxSends /\ Left(req'[t], b) \in 0 .. MaxSends
<1>1. \A r : Inv(r)' <=> Inv(r)
  BY SameInv, Zenon
<1>2. req'[t] = NoRequest \/ (req'[t] \in Request /\ Inv(req'[t]))
  BY <1>1, Zenon DEF RequestsOK
<1>3. req[t] = NoRequest \/ (req[t] \in Request /\ Inv(req[t]))
  BY Zenon DEF RequestsOK
<1>4. Left(req[t], b) \in 0 .. MaxSends
  BY <1>3, LeftType, Zenon
<1>5. Left(req'[t], b) \in 0 .. MaxSends
  BY <1>2, LeftType, Zenon
<1> QED
  BY <1>4, <1>5

\* No step changes the server a request came to.
LEMMA ServerStays == [Next]_vars => server' = server
<1>1. ASSUME NEW t \in Tasks, Proceed(t) PROVE server' = server
  BY <1>1, ZenonT(30) DEF Proceed, config, Limit, FilterFails, Allow, Send, TimesOut, Backoff, Record, Done
<1>2. ASSUME NEW t \in Tasks,
             \/ \E method \in Methods, b \in Backends : Receive(t, method, b) \/ Refuse(t, method, b)
             \/ BodyRead(t) \/ BodyTooLarge(t) \/ BodyUnreadable(t) \/ NoConnection(t) \/ Fallback(t)
             \/ \E result \in {"ok", "5xx", "error"} : BackendAnswers(t, result)
             \/ ClientLeaves(t)
      PROVE  server' = server
  BY <1>2, ZenonT(30) DEF config, Receive, Refuse, BodyRead, BodyTooLarge, BodyUnreadable, NoConnection, Fallback,
                          BackendAnswers, ClientLeaves
<1>3. ASSUME Refill \/ (\E b \in Backends : OpenTimeout(b)) \/ UNCHANGED vars PROVE server' = server
  BY <1>3, NoRequestMoves, Zenon DEF config
<1> QED
  BY <1>1, <1>2, <1>3, Zenon DEF Next

\* The steps that neither send nor ask a breaker.
LEMMA ShedQuiet ==
  ASSUME RequestsOK, RequestsOK', server' = server, ShedOK, UNCHANGED <<word, afterOpen>>,
         NEW t \in Tasks, \A u \in Tasks \ {t} : req'[u] = req[u],
         \A b : Left(req'[t], b) <= Left(req[t], b)
  PROVE  ShedOK'
<1>1. MaxSends \in Nat
  BY MaxRetriesAssumption DEF MaxSends
<1>2. ASSUME NEW b \in Backends PROVE Shed(b)'
  <2>1. Left(req[t], b) \in 0 .. MaxSends /\ Left(req'[t], b) \in 0 .. MaxSends
    BY LeftBoth, Zenon
  <2>2. Left(req[t], b) \in Nat /\ Left(req'[t], b) \in Nat
    BY <1>1, <2>1
  <2>3. Cardinality(Pending(req', b)) <= Cardinality(Pending(req, b))
    BY <2>2, NoMorePending, Zenon
  <2>4. Shed(b)
    BY ShedEach, Zenon
  <2> QED
    BY <2>3, <2>4, ShedKept, Zenon
<1> QED
  BY <1>2, ShedEach, Zenon

\* The breaker is asked, or told an outcome.
LEMMA ShedAsked ==
  ASSUME RequestsOK, RequestsOK', RouteOK, server' = server, ShedOK, NEW t \in Tasks
  PROVE  Allow(t) \/ Record(t) => ShedOK'
<1>0. PICK c : c = req[t].backend
  OBVIOUS
<1>1. DOMAIN word = Backends /\ DOMAIN afterOpen = Backends /\ \A b \in Backends : Shed(b)
  BY ShedEach, Zenon
<1>2. MaxSends \in Nat
  BY MaxRetriesAssumption DEF MaxSends
<1>3. ASSUME Allow(t) \/ Record(t)
      PROVE  /\ req[t] \in Request /\ DOMAIN word' = Backends
             /\ \A b \in Backends \ {c} : word'[b] = word[b]
             /\ \A b : Left(req[t], b) = 0
             /\ Record(t) \/ word'[c].state = OPEN => req'[t].pc = "done"
             /\ Allow(t) /\ word'[c].state = OPEN => word[c].state = OPEN
             /\ \A b \in Backends \ {c} : Left(req'[t], b) = 0
  BY <1>0, <1>1, <1>3, BreakerAsked, Zenon
<1>4. ASSUME Allow(t) \/ Record(t)
      PROVE  /\ DOMAIN afterOpen' = Backends /\ \A b \in Backends \ {c} : afterOpen'[b] = afterOpen[b]
             /\ \A u \in Tasks \ {t} : req'[u] = req[u]
  BY <1>0, <1>1, <1>4, ZenonT(30) DEF Allow, Record, Goto, Reject, Responded, RouteOK
<1>5. ASSUME Allow(t) \/ Record(t) PROVE c \in Backends
  BY <1>0, <1>3, <1>5, Zenon DEF Request
<1>6. ASSUME Allow(t) PROVE afterOpen'[c] = IF word'[c].state = OPEN THEN afterOpen[c] ELSE 0
  BY <1>0, <1>1, <1>5, <1>6, Zenon DEF Allow
<1>7. ASSUME Record(t) PROVE afterOpen'[c] = IF word[c].state = OPEN THEN afterOpen[c] ELSE 0
  BY <1>0, <1>1, <1>5, <1>7, Zenon DEF Record
<1>8. ASSUME Record(t), word[c].state = OPEN PROVE word'[c].state = OPEN
  BY <1>0, <1>1, <1>5, <1>8, Zenon DEF Record, record_success, record_failure, breaker
<1>9. req'[t].pc = "done" => \A b : Left(req'[t], b) = 0
  BY Zenon DEF Left
<1>10. ASSUME Allow(t) \/ Record(t), NEW b \in Backends, Left(req'[t], b) = 0
       PROVE  /\ Cardinality(Pending(req', b)) <= Cardinality(Pending(req, b))
              /\ Cardinality(Pending(req', b)) <= AfterOpenMax
  <2>1. Left(req[t], b) = 0
    BY <1>3, <1>10, Zenon
  <2>2. Left(req[t], b) \in Nat /\ Left(req'[t], b) \in Nat /\ Left(req'[t], b) <= Left(req[t], b)
    BY <1>10, <2>1
  <2>3. \A u \in Tasks \ {t} : req'[u] = req[u]
    BY <1>4, <1>10, Zenon
  <2>4. Cardinality(Pending(req', b)) <= Cardinality(Pending(req, b))
    BY <2>2, <2>3, NoMorePending, Zenon
  <2>5. Cardinality(Pending(req', b)) <= AfterOpenMax
    BY <1>10, OthersPending, Zenon
  <2> QED
    BY <2>4, <2>5
<1>11. ASSUME Allow(t) \/ Record(t), NEW b \in Backends \ {c} PROVE Shed(b)'
  <2>1. Shed(b) /\ word'[b] = word[b] /\ afterOpen'[b] = afterOpen[b] /\ Left(req'[t], b) = 0
    BY <1>1, <1>3, <1>4, <1>11, Zenon
  <2>2. Cardinality(Pending(req', b)) <= Cardinality(Pending(req, b))
    BY <1>10, <1>11, <2>1, Zenon
  <2> QED
    BY <2>1, <2>2, ShedKept, Zenon
<1>12. ASSUME Allow(t) PROVE Shed(c)'
  <2>1. c \in Backends /\ Shed(c) /\ afterOpen'[c] = IF word'[c].state = OPEN THEN afterOpen[c] ELSE 0
    BY <1>1, <1>5, <1>6, <1>12, Zenon
  <2>2. CASE word'[c].state = OPEN
    <3>1. word[c].state = OPEN /\ Left(req'[t], c) = 0
      BY <1>3, <1>9, <1>12, <2>2, Zenon
    <3>2. Cardinality(Pending(req', c)) <= Cardinality(Pending(req, c))
      BY <1>10, <1>12, <2>1, <3>1, Zenon
    <3>3. Cardinality(Pending(req', c)) \in Nat /\ Cardinality(Pending(req, c)) \in Nat
      BY PendingFinite, Zenon
    <3> QED
      BY <2>1, <2>2, <3>1, <3>2, <3>3, AfterOpenMaxType DEF Shed
  <2>3. CASE word'[c].state # OPEN
    BY <2>1, <2>3 DEF Shed
  <2> QED
    BY <2>2, <2>3, Zenon
<1>13. ASSUME Record(t) PROVE Shed(c)'
  <2>1. c \in Backends /\ Shed(c) /\ afterOpen'[c] = IF word[c].state = OPEN THEN afterOpen[c] ELSE 0
    BY <1>1, <1>5, <1>7, <1>13, Zenon
  <2>2. Left(req'[t], c) = 0
    BY <1>3, <1>9, <1>13, Zenon
  <2>3. /\ Cardinality(Pending(req', c)) <= Cardinality(Pending(req, c))
        /\ Cardinality(Pending(req', c)) <= AfterOpenMax
    BY <1>10, <1>13, <2>1, <2>2, Zenon
  <2>4. Cardinality(Pending(req', c)) \in Nat /\ Cardinality(Pending(req, c)) \in Nat
    BY PendingFinite, Zenon
  <2>5. CASE word[c].state = OPEN
    <3>1. word'[c].state = OPEN
      BY <1>8, <1>13, <2>5, Zenon
    <3> QED
      BY <2>1, <2>3, <2>4, <2>5, <3>1, AfterOpenMaxType DEF Shed
  <2>6. CASE word[c].state # OPEN
    BY <2>1, <2>3, <2>4, <2>6, AfterOpenMaxType DEF Shed
  <2> QED
    BY <2>5, <2>6, Zenon
<1>14. ASSUME Allow(t) \/ Record(t) PROVE DOMAIN word' = Backends /\ DOMAIN afterOpen' = Backends
  BY <1>3, <1>4, <1>14, Zenon
<1> QED
  BY <1>11, <1>12, <1>13, <1>14, ShedEach, Zenon

\* A send, of an attempt or falling back.
LEMMA ShedSend ==
  ASSUME RequestsOK, RequestsOK', RouteOK, server' = server, ShedOK, NEW t \in Tasks
  PROVE  Send(t) \/ Fallback(t) => ShedOK'
<1>0. PICK c : c = req[t].backend
  OBVIOUS
<1>1. DOMAIN word = Backends /\ DOMAIN afterOpen = Backends /\ \A b \in Backends : Shed(b)
  BY ShedEach, Zenon
<1>2. MaxSends \in Nat
  BY MaxRetriesAssumption DEF MaxSends
<1>3. ASSUME NEW b PROVE /\ Left(req[t], b) \in 0 .. MaxSends /\ Left(req[t], b) \in Nat
                         /\ Left(req'[t], b) \in Nat
  <2>1. Left(req[t], b) \in 0 .. MaxSends /\ Left(req'[t], b) \in 0 .. MaxSends
    BY LeftBoth, Zenon
  <2> QED
    BY <1>2, <2>1
<1>4. ASSUME Send(t) \/ Fallback(t)
      PROVE  /\ c \in Backends /\ Left(req'[t], c) < Left(req[t], c)
             /\ \A b : b # c => Left(req'[t], b) = 0 /\ Left(req[t], b) = 0
  BY <1>0, <1>4, SendUsesOne, Zenon
<1>5. ASSUME Send(t) \/ Fallback(t) PROVE word' = word /\ \A u \in Tasks \ {t} : req'[u] = req[u]
  BY <1>5, Zenon DEF Send, Fallback, RouteOK, breaker
<1>6. ASSUME Send(t) \/ Fallback(t)
      PROVE  /\ DOMAIN afterOpen' = Backends /\ \A b \in Backends \ {c} : afterOpen'[b] = afterOpen[b]
             /\ afterOpen'[c] \in {afterOpen[c], afterOpen[c] + 1}
             /\ word[c].state # OPEN => afterOpen'[c] = afterOpen[c]
  BY <1>0, <1>1, <1>4, <1>6, Zenon DEF Send, Fallback, CountSend
<1>7. ASSUME Send(t) \/ Fallback(t) PROVE Shed(c)'
  <2>1. Cardinality(Pending(req', c)) + 1 <= Cardinality(Pending(req, c))
    BY <1>3, <1>4, <1>5, <1>7, OneLessPending, Zenon
  <2>2. Cardinality(Pending(req', c)) \in Nat /\ Cardinality(Pending(req, c)) \in Nat
    BY PendingFinite, Zenon
  <2>3. /\ Shed(c) /\ word' = word /\ afterOpen'[c] \in {afterOpen[c], afterOpen[c] + 1}
        /\ word[c].state # OPEN => afterOpen'[c] = afterOpen[c]
    BY <1>1, <1>4, <1>5, <1>6, <1>7, Zenon
  <2> QED
    BY <2>1, <2>2, <2>3, AfterOpenMaxType DEF Shed
<1>8. ASSUME Send(t) \/ Fallback(t), NEW b \in Backends \ {c} PROVE Shed(b)'
  <2>1. Left(req'[t], b) = 0 /\ Left(req[t], b) = 0
    BY <1>4, <1>8, Zenon
  <2>2. Left(req'[t], b) <= Left(req[t], b)
    BY <2>1
  <2>3. Cardinality(Pending(req', b)) <= Cardinality(Pending(req, b))
    BY <1>3, <1>5, <1>8, <2>2, NoMorePending, Zenon
  <2>4. Shed(b) /\ word'[b] = word[b] /\ afterOpen'[b] = afterOpen[b]
    BY <1>1, <1>5, <1>6, <1>8, Zenon
  <2> QED
    BY <2>3, <2>4, ShedKept, Zenon
<1>9. ASSUME Send(t) \/ Fallback(t) PROVE DOMAIN word' = Backends /\ DOMAIN afterOpen' = Backends
  BY <1>1, <1>5, <1>6, <1>9, Zenon
<1> QED
  BY <1>7, <1>8, <1>9, ShedEach, Zenon

\* Every step keeps the account of the sends to an open circuit.
LEMMA ShedStep == RequestsOK /\ RouteOK /\ ShedOK /\ [Next]_vars => ShedOK'
<1> SUFFICES ASSUME RequestsOK, RouteOK, ShedOK, [Next]_vars, RequestsOK', server' = server PROVE ShedOK'
  BY RequestStep, ServerStays, Zenon
<1>1. ASSUME NEW t \in Tasks, Allow(t) \/ Record(t) PROVE ShedOK'
  BY <1>1, ShedAsked, Zenon
<1>2. ASSUME NEW t \in Tasks, Send(t) \/ Fallback(t) PROVE ShedOK'
  BY <1>2, ShedSend, Zenon
<1>3. ASSUME NEW t \in Tasks,
             \/ \E method \in Methods, c \in Backends : Receive(t, method, c) \/ Refuse(t, method, c)
             \/ Limit(t) \/ FilterFails(t) \/ BodyRead(t) \/ Backoff(t) \/ Done(t) \/ ClientLeaves(t)
             \/ BodyTooLarge(t) \/ BodyUnreadable(t) \/ NoConnection(t) \/ TimesOut(t)
             \/ \E result \in {"ok", "5xx", "error"} : BackendAnswers(t, result)
      PROVE  ShedOK'
  <2>1. UNCHANGED <<word, afterOpen>> /\ \A u \in Tasks \ {t} : req'[u] = req[u]
    BY <1>3, ZenonT(30) DEF Receive, Refuse, Limit, FilterFails, BodyRead, Backoff, Done, ClientLeaves, BodyTooLarge,
                BodyUnreadable, NoConnection, TimesOut, BackendAnswers, breaker, RouteOK, Goto, Reject, Ended
  <2>2. \A b : Left(req'[t], b) <= Left(req[t], b)
    BY <1>3, NothingSent, Zenon
  <2> QED
    BY <2>1, <2>2, ShedQuiet, Zenon
<1>4. ASSUME Refill \/ (\E b \in Backends : OpenTimeout(b)) \/ UNCHANGED vars PROVE ShedOK'
  <2>1. req' = req /\ word' = word /\ afterOpen' = afterOpen
    BY <1>4, NoRequestMoves, Zenon
  <2> QED
    BY <2>1, Zenon DEF ShedOK
<1> QED
  BY <1>1, <1>2, <1>3, <1>4, ZenonT(30) DEF Next, Proceed

(***************************************************************************)
(* The circuit breaker and execute_with_retry together: once a breaker is  *)
(* open, its backend gets at most max_retries + 2 more sends from each     *)
(* request other than the one that opened it, for any number of requests,  *)
(* backends and retries, although a retry does not ask the breaker.        *)
(***************************************************************************)
THEOREM OpenCircuitSheds == Spec => []OpenShedsLoad
<1>1. Init => ShedOK
  <2> SUFFICES ASSUME Init PROVE ShedOK
    OBVIOUS
  <2>1. ClosedWord.state # OPEN
    BY DEF ClosedWord, pack_state, CLOSED, OPEN
  <2> QED
    BY <2>1 DEF Init, ShedOK
<1>2. ShedOK => OpenShedsLoad
  <2> SUFFICES ASSUME ShedOK, NEW b \in Backends PROVE afterOpen[b] <= AfterOpenMax
    BY DEF OpenShedsLoad
  <2>1. AfterOpenMax \in Nat
    <3>1. Cardinality(Tasks) \in Nat /\ Cardinality(Tasks) # 0
      BY TasksAssumption, FS_CardinalityType, FS_EmptySet
    <3>2. \A m, n \in Nat : m * n \in Nat
      OBVIOUS
    <3>3. Cardinality(Tasks) - 1 \in Nat /\ MaxRetries + 2 \in Nat
      BY <3>1, MaxRetriesAssumption
    <3> QED
      BY <3>2, <3>3 DEF AfterOpenMax
  <2>2. Cardinality(Pending(req, b)) \in Nat
    BY PendingFinite
  <2> QED
    BY <2>1, <2>2 DEF ShedOK
<1> QED
  BY <1>1, <1>2, RequestInit, RequestStep, ShedStep, PTL DEF Spec
=============================================================================
