---------------------------- MODULE ProxyServer ----------------------------
(***************************************************************************)
(* The accept loops of ProxyServer (proxy/server.rs) and the tasks that    *)
(* they spawn.  What a connection's requests do is RequestPath.            *)
(*                                                                         *)
(* serve_with_shutdown spawns a task that waits for the signal, then polls *)
(* active_connections until it is zero or 30 s are over, and notifies the  *)
(* accept loop.  The loop goes on accepting until it sees the notice.      *)
(***************************************************************************)
EXTENDS Naturals, FiniteSets

CONSTANTS
  Conns,   \* the clients, with one connection each
  Hosts    \* the host names they may ask for

VARIABLES
  via,      \* the serve function that runs, or "none"
  server,   \* the accept loop: "binding", "waiting", "spawning", "returned"
  conn,     \* each client's connection, as the server sees it
  active,   \* active_connections
  drain,    \* the shutdown task
  permit,   \* does shutdown_notify hold a permit?
  late,     \* history: the connections counted after the drain was over
  inner     \* SniResolver: the certificate of each host

svars == <<via, server, conn, active, drain, permit, late>>

\* What tells the serve functions apart: TLS on accept, a shutdown task, and
\* whether a failed accept ends the loop.
Policy(tls, graceful, fatal) == [tls |-> tls, graceful |-> graceful, fatal |-> fatal]

serve == Policy(FALSE, FALSE, TRUE)
serve_with_shutdown == Policy(FALSE, TRUE, TRUE)
serve_https == Policy(TRUE, FALSE, FALSE)
serve_https_h2 == Policy(TRUE, FALSE, FALSE)
serve_http2 == Policy(FALSE, FALSE, TRUE)

Serves == {"serve", "serve_with_shutdown", "serve_https", "serve_https_h2", "serve_http2"}

policy ==
  CASE via = "serve" -> serve
    [] via = "serve_with_shutdown" -> serve_with_shutdown
    [] via = "serve_https" -> serve_https
    [] via = "serve_https_h2" -> serve_https_h2
    [] via = "serve_http2" -> serve_http2

Open == {c \in Conns : conn[c] \in {"accepted", "handshake", "serving"}}

SInit ==
  /\ server = "binding"
  /\ conn = [c \in Conns |-> "closed"]
  /\ active = 0
  /\ drain = "none"
  /\ permit = FALSE
  /\ late = {}

Bind ==
  /\ server = "binding"
  /\ server' = "waiting"
  /\ drain' = IF policy.graceful THEN "signal" ELSE "none"
  /\ UNCHANGED <<via, conn, active, permit, late>>

\* Binding fails, or the loop ends with a failed accept: the function returns
\* an error.  The TLS loops log a failed accept and go on.
ReturnsError ==
  /\ server = "binding" \/ (server = "waiting" /\ policy.fatal)
  /\ server' = "returned"
  /\ UNCHANGED <<via, conn, active, drain, permit, late>>

\* A client connects, for the first time or again.
Accept(c) ==
  /\ server = "waiting" /\ conn[c] = "closed"
  /\ server' = "spawning"
  /\ conn' = [conn EXCEPT ![c] = "accepted"]
  /\ late' = late \ {c}
  /\ UNCHANGED <<via, active, drain, permit>>

\* The connection is counted and its task is spawned.
Spawn(c) ==
  /\ server = "spawning" /\ conn[c] = "accepted"
  /\ server' = "waiting"
  /\ conn' = [conn EXCEPT ![c] = IF policy.tls THEN "handshake" ELSE "serving"]
  /\ active' = IF policy.graceful THEN active + 1 ELSE active
  /\ late' = IF drain \in {"drained", "expired"} THEN late \cup {c} ELSE late
  /\ UNCHANGED <<via, drain, permit>>

\* The handshake needs a certificate for the host that the client names.
Handshake(c) ==
  /\ conn[c] = "handshake"
  /\ \E sni \in Hosts, to \in {"serving", "closed"} :
       /\ to = "serving" => sni \in DOMAIN inner
       /\ conn' = [conn EXCEPT ![c] = to]
  /\ UNCHANGED <<via, server, active, drain, permit, late>>

\* serve_connection returns and its task takes the connection off the count.
Ends(c) ==
  /\ conn[c] = "serving"
  /\ conn' = [conn EXCEPT ![c] = "closed"]
  /\ active' = IF policy.graceful THEN active - 1 ELSE active
  /\ UNCHANGED <<via, server, drain, permit, late>>

\* The shutdown_signal of the caller has completed.
SignalSeen ==
  /\ drain = "signal"
  /\ drain' = "draining"
  /\ UNCHANGED <<via, server, conn, active, permit, late>>

\* Faulty variant of DrainOver: the count is not looked at.
NotifyAtOnce ==
  /\ drain = "draining"
  /\ drain' = "drained"
  /\ permit' = TRUE
  /\ UNCHANGED <<via, server, conn, active, late>>

\* Faulty variant of DrainOver: notify_waiters, which a loop that is not waiting
\* misses.
NotifyWaiters ==
  /\ drain = "draining"
  /\ drain' = IF active = 0 THEN "drained" ELSE "expired"
  /\ permit' = (server = "waiting")
  /\ UNCHANGED <<via, server, conn, active, late>>

\* No connection is counted, or one is and the 30 s are over.
DrainOver ==
  /\ drain = "draining"
  /\ drain' = IF active = 0 THEN "drained" ELSE "expired"
  /\ permit' = TRUE
  /\ UNCHANGED <<via, server, conn, active, late>>

\* notify_one leaves a permit that the next notified() takes.
Notified ==
  /\ server = "waiting" /\ permit
  /\ server' = "returned"
  /\ permit' = FALSE
  /\ UNCHANGED <<via, conn, active, drain, late>>

ConnStep == \E c \in Conns : Accept(c) \/ Spawn(c) \/ Handshake(c) \/ Ends(c)

\* The tasks of one server, except for the signal.
SNext == Bind \/ ReturnsError \/ ConnStep \/ DrainOver \/ Notified
=============================================================================
