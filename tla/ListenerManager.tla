-------------------------- MODULE ListenerManager --------------------------
(***************************************************************************)
(* The shared listeners (proxy/listener_manager.rs): the map from ports to *)
(* the Gateways that use them, the accept task of every port, and the      *)
(* connections, each with a task that outlives the listener's.             *)
(*                                                                         *)
(* The write lock of the map is held for the whole of register_gateway,    *)
(* unregister_gateway and shutdown: each is one step.  The accept task has *)
(* the socket until it sees the cancellation, and may accept until then.   *)
(***************************************************************************)
EXTENDS Naturals, FiniteSets, Functions

CONSTANTS
  Ports, GatewayRefs,
  Clients    \* [speaks, whole]: HTTP/2 or not, its preface in one segment or not

VARIABLES
  listeners,     \* the map: port -> [protocol, gateways]
  tls_acceptor,  \* is the manager made by with_tls?
  socket,        \* each port's accept task: [state, protocol]
  lconn          \* a connection to one of the ports

lvars == <<listeners, tls_acceptor, socket, lconn>>

Protocols == {"HTTP", "HTTPS"}
NoTask == [state |-> "none"]
NoConn == [pc |-> "closed"]

LInit ==
  /\ listeners = << >>
  /\ tls_acceptor \in BOOLEAN
  /\ socket = [p \in Ports |-> NoTask]
  /\ lconn = NoConn

Joined(p, ref) == [listeners EXCEPT ![p].gateways = @ \cup {ref}]

Listed(p, protocol, ref) ==
  [q \in DOMAIN listeners \cup {p} |->
     IF q = p THEN [protocol |-> protocol, gateways |-> {ref}] ELSE listeners[q]]

\* The port is listening already: with the other protocol nothing changes.
Join(p, protocol, ref) ==
  /\ p \in DOMAIN listeners
  /\ listeners[p].protocol = protocol
  /\ listeners' = Joined(p, ref)
  /\ UNCHANGED <<tls_acceptor, socket, lconn>>

\* A new listener: HTTPS needs TLS, and the bind fails while the cancelled task
\* of an earlier listener has the port.
spawn_listener(p, protocol, ref) ==
  /\ p \notin DOMAIN listeners
  /\ protocol = "HTTPS" => tls_acceptor
  /\ socket[p] = NoTask
  /\ listeners' = Listed(p, protocol, ref)
  /\ socket' = [socket EXCEPT ![p] = [state |-> "accepting", protocol |-> protocol]]
  /\ UNCHANGED <<tls_acceptor, lconn>>

register_gateway(p, protocol, ref) == Join(p, protocol, ref) \/ spawn_listener(p, protocol, ref)

\* The last Gateway takes the port out of the map and cancels its task.
unregister_gateway(p, ref) ==
  /\ p \in DOMAIN listeners /\ ref \in listeners[p].gateways
  /\ IF listeners[p].gateways = {ref}
     THEN /\ listeners' = Restrict(listeners, DOMAIN listeners \ {p})
          /\ socket' = [socket EXCEPT ![p].state = "cancelled"]
     ELSE /\ listeners' = [listeners EXCEPT ![p].gateways = @ \ {ref}]
          /\ UNCHANGED socket
  /\ UNCHANGED <<tls_acceptor, lconn>>

shutdown ==
  /\ listeners # << >>
  /\ listeners' = << >>
  /\ socket' = [p \in Ports |-> IF p \in DOMAIN listeners THEN [socket[p] EXCEPT !.state = "cancelled"] ELSE socket[p]]
  /\ UNCHANGED <<tls_acceptor, lconn>>

\* Faulty variant of CancelSeen: the task waits for its connection to end.
AwaitConnection(p) ==
  /\ socket[p].state = "cancelled"
  /\ lconn # NoConn => lconn.port # p
  /\ socket' = [socket EXCEPT ![p] = NoTask]
  /\ UNCHANGED <<listeners, tls_acceptor, lconn>>

\* select! takes the cancellation, and the task drops the socket.
CancelSeen(p) ==
  /\ socket[p].state = "cancelled"
  /\ socket' = [socket EXCEPT ![p] = NoTask]
  /\ UNCHANGED <<listeners, tls_acceptor, lconn>>

-----------------------------------------------------------------------------
\* The accept task spawns the connection's task, with its own copy of the
\* protocol.
LAccept(p, client) ==
  /\ socket[p] # NoTask /\ lconn = NoConn
  /\ lconn' = [pc |-> "accepted", port |-> p, protocol |-> socket[p].protocol, client |-> client]
  /\ UNCHANGED <<listeners, tls_acceptor, socket>>

LServe(tls, http) ==
  /\ lconn' = [pc |-> "serving", port |-> lconn.port, protocol |-> lconn.protocol, client |-> lconn.client,
               tls |-> tls, http |-> http]
  /\ UNCHANGED <<listeners, tls_acceptor, socket>>

\* Faulty variant of serve_http_connection: the protocol is looked up in the map.
ServeByMap ==
  /\ lconn.pc = "accepted"
  /\ lconn.port \in DOMAIN listeners /\ listeners[lconn.port].protocol = "HTTP"
  /\ LServe(FALSE, IF lconn.client.speaks = "h2" /\ lconn.client.whole THEN "h2" ELSE "h1")

\* The first peek of at least one byte decides: 24 bytes that are the preface
\* make it HTTP/2.
serve_http_connection ==
  /\ lconn.pc = "accepted" /\ lconn.protocol = "HTTP"
  /\ LServe(FALSE, IF lconn.client.speaks = "h2" /\ lconn.client.whole THEN "h2" ELSE "h1")

\* ALPN negotiates the protocol.
serve_https_connection ==
  /\ lconn.pc = "accepted" /\ lconn.protocol = "HTTPS"
  /\ LServe(TRUE, lconn.client.speaks)

\* The handshake fails, or either side ends the connection.
LEnds ==
  /\ lconn # NoConn
  /\ lconn' = NoConn
  /\ UNCHANGED <<listeners, tls_acceptor, socket>>

ConnStep ==
  \/ \E p \in Ports, client \in Clients : LAccept(p, client)
  \/ serve_http_connection \/ serve_https_connection \/ LEnds

Registers ==
  \E p \in Ports, ref \in GatewayRefs, protocol \in Protocols : register_gateway(p, protocol, ref)

LNext ==
  \/ Registers
  \/ \E p \in Ports, ref \in GatewayRefs : unregister_gateway(p, ref)
  \/ shutdown
  \/ \E p \in Ports : CancelSeen(p)
  \/ ConnStep
=============================================================================
