------------------------- MODULE ProxyProcessProofs -------------------------
(***************************************************************************)
(* Theorems about the process: its listeners, the drain of the standalone  *)
(* server, the end of K8s mode and the certificates, for any ports,        *)
(* Gateways, clients, controllers, hosts and Secrets.  No fairness is      *)
(* used.                                                                   *)
(***************************************************************************)
EXTENDS ProxyProcess, Sequences, FiniteSetTheorems, TLAPS

\* The steps that change the listeners, their tasks or their connection are
\* those of the listener manager.
LEMMA OnlyManager == [Next]_vars => Manager!LNext \/ UNCHANGED lvars
<1> SUFFICES ASSUME [Next]_vars PROVE Manager!LNext \/ UNCHANGED lvars
  OBVIOUS
<1>1. CASE ServerStep
  BY <1>1 DEF ServerStep
<1>2. CASE ManagerStep
  BY <1>2 DEF ManagerStep
<1>3. CASE WatcherStep
  BY <1>3 DEF WatcherStep
<1>4. CASE ClassStep
  BY <1>4, SMTT(30) DEF ClassStep, Classed
<1>5. CASE ProcessStep
  BY <1>5, ZenonT(30) DEF ProcessStep, Signalled, ServerStops, ControllersStop, ControllerEnds, ServerExits, ControllersExit, CertLoaded
<1>6. CASE UNCHANGED vars
  BY <1>6 DEF vars
<1>7. QED
  BY <1>1, <1>2, <1>3, <1>4, <1>5, <1>6, SMTT(30) DEF Next

\* What the accept task and the connection's task do to the connection.
LEMMA ServedStep == ServedAsAccepted /\ (Manager!LNext \/ UNCHANGED lvars) => ServedAsAccepted'
<1> SUFFICES ASSUME ServedAsAccepted, Manager!LNext \/ UNCHANGED lvars PROVE ServedAsAccepted'
  OBVIOUS
<1>1. CASE UNCHANGED lconn
  BY <1>1, SMTT(30) DEF ServedAsAccepted
<1>2. ASSUME NEW p \in Ports, NEW client \in Clients, Manager!LAccept(p, client) PROVE ServedAsAccepted'
  BY <1>2, SMTT(30) DEF Manager!LAccept, ServedAsAccepted
<1>3. CASE Manager!serve_http_connection
  BY <1>3, SMTT(30) DEF Manager!serve_http_connection, Manager!LServe, ServedAsAccepted
<1>4. CASE Manager!serve_https_connection
  BY <1>4, SMTT(30) DEF Manager!serve_https_connection, Manager!LServe, ServedAsAccepted
<1>5. CASE Manager!LEnds
  BY <1>5 DEF Manager!LEnds, Manager!NoConn, ServedAsAccepted
<1>6. QED
  <2>1. CASE Manager!ConnStep
    BY <2>1, <1>2, <1>3, <1>4, <1>5, SMTT(30) DEF Manager!ConnStep
  <2>2. CASE Manager!LNext /\ ~ Manager!ConnStep
    BY <2>2, <1>1, Zenon DEF Manager!LNext, Manager!Registers, Manager!register_gateway, Manager!Join, Manager!spawn_listener,
                      Manager!unregister_gateway, Manager!shutdown, Manager!CancelSeen
  <2>3. CASE UNCHANGED lvars
    BY <2>3, <1>1 DEF lvars
  <2>4. QED
    BY <2>1, <2>2, <2>3, SMTT(30)

\* A connection is served with the protocol that its port had when it was
\* accepted, for any number of ports, Gateways and clients.
THEOREM AlwaysServedAsAccepted == Spec => []ServedAsAccepted
<1>1. Init => ServedAsAccepted
  BY DEF Init, Manager!LInit, Manager!NoConn, ServedAsAccepted
<1>2. ServedAsAccepted /\ [Next]_vars => ServedAsAccepted'
  BY OnlyManager, ServedStep
<1>3. QED
  BY <1>1, <1>2, PTL DEF Spec

-----------------------------------------------------------------------------
Task == [state : {"none"}] \cup [state : {"accepting", "cancelled"}, protocol : Manager!Protocols]

TasksOK == socket \in [Ports -> Task] /\ MapMatchesTasks

\* Every operation of the manager changes the map and the tasks together.
LEMMA TasksStep == TasksOK /\ (Manager!LNext \/ UNCHANGED lvars) => TasksOK'
<1> SUFFICES ASSUME TasksOK, Manager!LNext \/ UNCHANGED lvars PROVE TasksOK'
  OBVIOUS
<1> USE DEF TasksOK, MapMatchesTasks
<1>1. ASSUME NEW p \in Ports, NEW protocol \in Manager!Protocols, NEW ref \in GatewayRefs, Manager!Join(p, protocol, ref)
      PROVE  TasksOK'
  <2>1. DOMAIN listeners' = DOMAIN listeners /\ socket' = socket
    BY <1>1 DEF Manager!Join, Manager!Joined
  <2>2. QED
    BY <2>1
<1>2. ASSUME NEW p \in Ports, NEW protocol \in Manager!Protocols, NEW ref \in GatewayRefs,
             Manager!spawn_listener(p, protocol, ref)
      PROVE  TasksOK'
  <2>1. DOMAIN listeners' = DOMAIN listeners \cup {p}
    BY <1>2 DEF Manager!spawn_listener, Manager!Listed
  <2>2. socket' = [socket EXCEPT ![p] = [state |-> "accepting", protocol |-> protocol]]
    BY <1>2, SMTT(30) DEF Manager!spawn_listener
  <2>3. [state |-> "accepting", protocol |-> protocol] \in Task
    BY DEF Task
  <2>4. QED
    BY <2>1, <2>2, <2>3
<1>a. ASSUME NEW p \in Ports, p \in DOMAIN listeners
      PROVE  /\ [socket[p] EXCEPT !.state = "cancelled"] \in Task
             /\ [socket[p] EXCEPT !.state = "cancelled"].state = "cancelled"
  <2>1. socket[p] \in [state : {"accepting", "cancelled"}, protocol : Manager!Protocols]
    BY <1>a DEF Task
  <2>2. QED
    BY <2>1, SMTT(30) DEF Task
<1>3. ASSUME NEW p \in Ports, NEW ref \in GatewayRefs, Manager!unregister_gateway(p, ref)
      PROVE  TasksOK'
  <2>1. CASE listeners[p].gateways = {ref}
    <3>1. DOMAIN listeners' = DOMAIN listeners \ {p}
      BY <1>3, <2>1, SMTT(30) DEF Manager!unregister_gateway, Manager!Restrict
    <3>2. socket' = [socket EXCEPT ![p] = [socket[p] EXCEPT !.state = "cancelled"]] /\ p \in DOMAIN listeners
      BY <1>3, <2>1, SMTT(30) DEF Manager!unregister_gateway
    <3>3. QED
      BY <3>1, <3>2, <1>a
  <2>2. CASE listeners[p].gateways # {ref}
    <3>1. DOMAIN listeners' = DOMAIN listeners /\ socket' = socket
      BY <1>3, <2>2, SMTT(30) DEF Manager!unregister_gateway
    <3>2. QED
      BY <3>1, SMTT(30)
  <2>3. QED
    BY <2>1, <2>2, SMTT(30)
<1>4. CASE Manager!shutdown
  <2>1. listeners' = << >> /\ DOMAIN listeners' = {}
    BY <1>4 DEF Manager!shutdown
  <2>2. socket' = [p \in Ports |-> IF p \in DOMAIN listeners THEN [socket[p] EXCEPT !.state = "cancelled"] ELSE socket[p]]
    BY <1>4, SMTT(30) DEF Manager!shutdown
  <2>3. ASSUME NEW p \in Ports PROVE socket'[p] \in Task /\ socket'[p].state # "accepting"
    <3>1. CASE p \in DOMAIN listeners
      BY <3>1, <2>2, <1>a, Zenon
    <3>2. CASE p \notin DOMAIN listeners
      BY <3>2, <2>2
    <3>3. QED
      BY <3>1, <3>2
  <2>4. QED
    BY <2>1, <2>2, <2>3
<1>5. ASSUME NEW p \in Ports, Manager!CancelSeen(p) PROVE TasksOK'
  <2>1. socket' = [socket EXCEPT ![p] = [state |-> "none"]] /\ socket[p].state = "cancelled" /\ listeners' = listeners
    BY <1>5 DEF Manager!CancelSeen, Manager!NoTask
  <2>2. [state |-> "none"] \in Task
    BY DEF Task
  <2>3. QED
    BY <2>1, <2>2
<1>6. CASE Manager!ConnStep \/ UNCHANGED lvars
  BY <1>6 DEF Manager!ConnStep, Manager!LAccept, Manager!serve_http_connection, Manager!serve_https_connection,
              Manager!LServe, Manager!LEnds, lvars
<1>7. QED
  BY <1>1, <1>2, <1>3, <1>4, <1>5, <1>6, SMTT(30) DEF Manager!LNext, Manager!Registers, Manager!register_gateway

\* The map of ports and the accept tasks agree at all times, for any number of
\* ports and Gateways: the safety part of PortsReleased.
THEOREM MapAlwaysMatches == Spec => []MapMatchesTasks
<1>1. Init => TasksOK
  BY DEF Init, Manager!LInit, Manager!NoTask, TasksOK, MapMatchesTasks, Task
<1>2. TasksOK /\ [Next]_vars => TasksOK'
  BY OnlyManager, TasksStep
<1>3. TasksOK => MapMatchesTasks
  BY DEF TasksOK
<1>4. QED
  BY <1>1, <1>2, <1>3, PTL DEF Spec

-----------------------------------------------------------------------------
Serving == {c \in Conns : conn[c] = "serving"}

\* The accept loop has at most one connection that is not counted yet; the others
\* of a server with a shutdown task are counted, and when the drain has ended
\* with none, the ones of today have come since.
DrainOK ==
  /\ via \in Server!Serves \cup {"none"} /\ RunsServer(mode, via)
  /\ conn \in [Conns -> {"closed", "accepted", "handshake", "serving", "cut"}]
  /\ drain # "none" => via = "serve_with_shutdown"
  /\ Alive =>
       /\ server = "spawning" <=> \E c \in Conns : conn[c] = "accepted"
       /\ \A c, d \in Conns : conn[c] = "accepted" /\ conn[d] = "accepted" => c = d
       /\ via = "serve_with_shutdown" =>
            /\ \A c \in Conns : conn[c] # "handshake"
            /\ active = Cardinality(Serving)
       /\ drain = "drained" => Serving \subseteq late

\* A connection that joins or leaves the served ones changes their number by one.
LEMMA ServedOneMore ==
  ASSUME NEW S \in SUBSET Conns, NEW c \in Conns
  PROVE  /\ Cardinality(S) \in Nat
         /\ c \notin S => Cardinality(S \cup {c}) = Cardinality(S) + 1
         /\ c \in S => Cardinality(S \ {c}) = Cardinality(S) - 1
         /\ Cardinality(S) = 0 => S = {}
<1>1. IsFiniteSet(S)
  BY ConnsAssumption, FS_Subset, SMTT(30)
<1>2. QED
  BY <1>1, FS_CardinalityType, FS_AddElement, FS_RemoveElement, FS_EmptySet, Zenon

\* The steps of the server that its mode runs.
LEMMA DrainServer == DrainOK /\ ServerStep => DrainOK'
<1> SUFFICES ASSUME DrainOK, ServerStep PROVE DrainOK'
  OBVIOUS
<1>0. /\ Alive /\ Server!SNext /\ via \in Server!Serves /\ UNCHANGED <<mode, phase>>
      /\ Alive' <=> Alive
  BY DEF ServerStep, pvars, Alive, DrainOK
<1>p. /\ Server!policy.graceful <=> via = "serve_with_shutdown"
      /\ via = "serve_with_shutdown" => ~ Server!policy.tls
  BY <1>0 DEF Server!Serves, Server!policy, Server!serve, Server!serve_with_shutdown, Server!serve_https,
              Server!serve_https_h2, Server!serve_http2, Server!Policy
<1>1. CASE Server!Bind
  <2>1. server = "binding" /\ server' = "waiting" /\ UNCHANGED <<via, conn, active, late>>
    BY <1>1 DEF Server!Bind
  <2>2. drain' # "none" => via = "serve_with_shutdown"
    BY <1>1, <1>p, SMTT(30) DEF Server!Bind
  <2>3. drain' # "drained"
    BY <1>1 DEF Server!Bind
  <2>4. QED
    BY <1>0, <2>1, <2>2, <2>3, SMTT(30) DEF DrainOK, Serving
<1>2. CASE Server!ReturnsError
  BY <1>0, <1>2, SMTT(30) DEF Server!ReturnsError, DrainOK, Serving
<1>3. ASSUME NEW c \in Conns, Server!Accept(c) PROVE DrainOK'
  <2>1. /\ server = "waiting" /\ conn[c] = "closed" /\ server' = "spawning"
        /\ conn' = [conn EXCEPT ![c] = "accepted"] /\ late' = late \ {c} /\ UNCHANGED <<via, active, drain>>
    BY <1>3 DEF Server!Accept
  <2>2. Serving' = Serving /\ c \notin Serving
    BY <2>1, SMTT(30) DEF Serving, DrainOK
  <2>3. QED
    BY <1>0, <2>1, <2>2, SMTT(30) DEF DrainOK
<1>4. ASSUME NEW c \in Conns, Server!Spawn(c) PROVE DrainOK'
  <2>1. /\ server = "spawning" /\ conn[c] = "accepted" /\ server' = "waiting" /\ UNCHANGED <<via, drain>>
        /\ drain = "drained" => late' = late \cup {c}
        /\ drain # "drained" => drain' # "drained"
    BY <1>4, SMTT(30) DEF Server!Spawn
  <2>2. PICK to \in {"handshake", "serving"} :
          /\ conn' = [conn EXCEPT ![c] = to]
          /\ via = "serve_with_shutdown" => to = "serving" /\ active' = active + 1
    BY <1>4, <1>p, Zenon DEF Server!Spawn
  <2>3. /\ to = "serving" => Serving' = Serving \cup {c}
        /\ to = "handshake" => Serving' = Serving
        /\ c \notin Serving /\ Serving \in SUBSET Conns
    BY <2>1, <2>2, SMTT(30) DEF Serving, DrainOK
  <2>4. via = "serve_with_shutdown" => active' = Cardinality(Serving')
    BY <1>0, <2>2, <2>3, ServedOneMore, SMTT(30) DEF DrainOK
  <2>5. \A d \in Conns : conn'[d] # "accepted"
    BY <1>0, <2>1, <2>2, SMTT(30) DEF DrainOK
  <2>6. via = "serve_with_shutdown" => \A d \in Conns : conn'[d] # "handshake"
    BY <1>0, <2>1, <2>2, SMTT(30) DEF DrainOK
  <2>7. conn' \in [Conns -> {"closed", "accepted", "handshake", "serving", "cut"}]
    BY <2>2 DEF DrainOK
  <2>8. drain' = "drained" => Serving' \subseteq late'
    BY <1>0, <2>1, <2>3, SMTT(30) DEF DrainOK
  <2>9. QED
    BY <1>0, <2>1, <2>4, <2>5, <2>6, <2>7, <2>8, SMTT(30) DEF DrainOK
<1>5. ASSUME NEW c \in Conns, Server!Handshake(c) PROVE DrainOK'
  <2>1. conn[c] = "handshake" /\ UNCHANGED <<via, server, active, drain, late>>
    BY <1>5, SMTT(30) DEF Server!Handshake
  <2>2. PICK to \in {"serving", "closed"} : conn' = [conn EXCEPT ![c] = to]
    BY <1>5, ZenonT(30) DEF Server!Handshake
  <2>3. via # "serve_with_shutdown" /\ drain = "none"
    BY <1>0, <2>1, SMTT(30) DEF DrainOK
  <2>4. QED
    BY <1>0, <2>1, <2>2, <2>3 DEF DrainOK
<1>6. ASSUME NEW c \in Conns, Server!Ends(c) PROVE DrainOK'
  <2>1. /\ conn[c] = "serving" /\ conn' = [conn EXCEPT ![c] = "closed"]
        /\ via = "serve_with_shutdown" => active' = active - 1
        /\ UNCHANGED <<via, server, drain, late>>
    BY <1>6, <1>p DEF Server!Ends
  <2>2. Serving' = Serving \ {c} /\ c \in Serving /\ Serving \in SUBSET Conns
    BY <2>1, SMTT(30) DEF Serving, DrainOK
  <2>3. via = "serve_with_shutdown" => active' = Cardinality(Serving')
    BY <1>0, <2>1, <2>2, ServedOneMore DEF DrainOK
  <2>4. QED
    BY <1>0, <2>1, <2>2, <2>3, SMTT(30) DEF DrainOK
<1>7. CASE Server!DrainOver
  <2>1. /\ UNCHANGED <<via, server, conn, active, late>> /\ drain = "draining"
        /\ drain' = "drained" => active = 0
    BY <1>7, SMTT(30) DEF Server!DrainOver
  <2>2. Serving' = Serving /\ Serving \in SUBSET Conns
    BY <2>1, SMTT(30) DEF Serving
  <2>3. drain' = "drained" => Serving = {}
    <3>1. active = 0 => Serving = {}
      <4>1. active = Cardinality(Serving)
        BY <1>0, <2>1, SMTT(30) DEF DrainOK
      <4>2. QED
        BY <4>1, <2>2, FS_EmptySet, FS_Subset, ConnsAssumption, ZenonT(30)
    <3>2. QED
      BY <2>1, <3>1, SMTT(30)
  <2>4. QED
    BY <1>0, <2>1, <2>2, <2>3, SMTT(30) DEF DrainOK
<1>8. CASE Server!Notified
  BY <1>0, <1>8, SMTT(30) DEF Server!Notified, DrainOK, Serving
<1>9. QED
  BY <1>0, <1>1, <1>2, <1>3, <1>4, <1>5, <1>6, <1>7, <1>8, SMTT(30) DEF Server!SNext, Server!ConnStep

\* Every step keeps the count.  When the process has ended nobody counts.
LEMMA DrainStep == DrainOK /\ [Next]_vars => DrainOK'
<1> SUFFICES ASSUME DrainOK, [Next]_vars PROVE DrainOK'
  OBVIOUS
<1>1. CASE ServerStep
  BY <1>1, DrainServer, SMTT(30)
<1>2. CASE UNCHANGED <<svars, mode>> /\ (Alive' => Alive)
  BY <1>2, SMTT(30) DEF svars, DrainOK, Serving
<1>3. CASE ServerStops
  BY <1>3, SMTT(30) DEF ServerStops, Server!SignalSeen, pvars, Alive, DrainOK, Serving
<1>4. CASE ServerExits
  <2>1. ~ Alive' /\ UNCHANGED <<via, drain, mode>>
    BY <1>4, SMTT(30) DEF ServerExits, Alive
  <2>2. conn' \in [Conns -> {"closed", "accepted", "handshake", "serving", "cut"}]
    BY <1>4, SMTT(30) DEF ServerExits, Cut, DrainOK
  <2>3. QED
    BY <2>1, <2>2, SMTT(30) DEF DrainOK
<1>5. CASE ManagerStep \/ WatcherStep \/ ClassStep
  BY <1>5, <1>2, SMTT(30) DEF ManagerStep, WatcherStep, ClassStep, Classed, pvars, Alive
<1>6. CASE ProcessStep /\ ~ ServerStops /\ ~ ServerExits
  BY <1>6, <1>2, ZenonT(30) DEF ProcessStep, Signalled, ControllersStop, ControllerEnds, ControllersExit, CertLoaded, Alive
<1>7. CASE UNCHANGED vars
  BY <1>7, <1>2, SMTT(30) DEF vars, pvars, Alive
<1>8. QED
  BY <1>1, <1>3, <1>4, <1>5, <1>6, <1>7, SMTT(30) DEF Next

\* The proxy starts with no connection and nothing to drain.
LEMMA DrainInit == Init => DrainOK
<1> SUFFICES ASSUME Init PROVE DrainOK
  OBVIOUS
<1>1. Serving = {}
  BY DEF Init, Server!SInit, Serving
<1>2. QED
  BY <1>1, FS_EmptySet, SMTT(30) DEF Init, Server!SInit, DrainOK

\* A drain that has ended with no counted connection is followed by an exit that
\* cuts none but the ones that came since, for any number of clients: nothing
\* is served without being counted, and the loop that has returned holds none.
THEOREM DrainLosesNone == Spec => ServedUntilDrained
<1>1. DrainOK /\ [Next]_vars => [Exits /\ drain = "drained" => Server!Open \subseteq late]_vars
  <2> SUFFICES ASSUME DrainOK, Next, Exits, drain = "drained" PROVE Server!Open \subseteq late
    OBVIOUS
  <2>1. Alive /\ phase = "running" /\ phase' = "exited" /\ via = "serve_with_shutdown" /\ mode = "http"
    BY SMTT(30) DEF Exits, Alive, DrainOK, RunsServer
  <2>2. server = "returned"
    BY <2>1, ZenonT(30) DEF Next, ServerStep, ManagerStep, WatcherStep, ClassStep, Classed, ProcessStep, Signalled, ServerStops,
                ControllersStop, ControllerEnds, ServerExits, ControllersExit, CertLoaded, pvars
  <2>3. QED
    BY <2>1, <2>2, SMTT(30) DEF DrainOK, Serving, Server!Open
<1>2. QED
  BY <1>1, DrainInit, DrainStep, PTL DEF Spec, ServedUntilDrained

-----------------------------------------------------------------------------
\* The process stays in its mode, and with the serve function of that mode.
LEMMA ModeFixed ==
  ASSUME [Next]_vars, RunsServer(mode, via)
  PROVE  UNCHANGED <<mode, via>> /\ RunsServer(mode, via)'
<1>1. UNCHANGED <<mode, via>>
  BY Zenon DEF Next, ServerStep, ManagerStep, WatcherStep, ClassStep, Classed, ProcessStep, Signalled, ServerStops,
         ControllersStop, ControllerEnds, ServerExits, ControllersExit, CertLoaded, svars, pvars, vars,
         Server!SNext, Server!Bind, Server!ReturnsError, Server!ConnStep, Server!Accept, Server!Spawn, Server!Handshake,
         Server!Ends, Server!DrainOver, Server!Notified, Server!SignalSeen
<1>2. QED
  BY <1>1, SMTT(30) DEF RunsServer

\* What the end of K8s mode rests on: only run_controllers_only waits for
\* controllers, and it does so after its shutdown future has completed.
StoppingOK ==
  /\ RunsServer(mode, via)
  /\ phase = "stopping" => shutdown_signal

\* In K8s mode the process ends after a signal and after every controller, for
\* any set of controllers.
THEOREM ControllersAwaited == Spec => NoneLeftBehind
<1>1. Init => StoppingOK
  BY DEF Init, StoppingOK
<1>2. StoppingOK /\ [Next]_vars => StoppingOK'
  <2> SUFFICES ASSUME StoppingOK, [Next]_vars PROVE StoppingOK'
    OBVIOUS
  <2>2. phase' = "stopping" => shutdown_signal'
    BY ZenonT(30) DEF StoppingOK, shutdown_signal, Next, ServerStep, ManagerStep, WatcherStep, ClassStep, Classed, ProcessStep,
           Signalled, ServerStops, ControllersStop, ControllerEnds, ServerExits, ControllersExit, CertLoaded, pvars, vars
  <2>3. QED
    BY <2>2, ModeFixed, SMTT(30) DEF StoppingOK
<1>3. StoppingOK /\ [Next]_vars => [mode = "k8s" /\ phase' = "exited" => handles = {} /\ shutdown_signal]_vars
  BY Zenon DEF StoppingOK, RunsServer, UsesTls, Alive, Next, ServerStep, ManagerStep, WatcherStep, ClassStep, Classed,
         ProcessStep, Signalled, ServerStops, ControllersStop, ControllerEnds, ServerExits, ControllersExit, CertLoaded, pvars
<1>4. QED
  BY <1>1, <1>2, <1>3, PTL DEF Spec, NoneLeftBehind

-----------------------------------------------------------------------------
\* Every certificate of the resolver is for its host, and only the server's own
\* certificate makes a host known.
CertsOK ==
  /\ \A h \in DOMAIN inner : Watcher!Addable(h, inner[h])
  /\ RunsServer(mode, via) /\ (mode = "watched" => hostnames = {})

\* The two operations of the resolver.
LEMMA CertAdded ==
  ASSUME NEW host, NEW cert, CertsOK, Watcher!Addable(host, cert), inner' = Watcher!With(host, cert)
  PROVE  DOMAIN inner \subseteq DOMAIN inner' /\ \A h \in DOMAIN inner' : Watcher!Addable(h, inner'[h])
<1>1. inner' = [h \in DOMAIN inner \cup {host} |-> IF h = host THEN cert ELSE inner[h]]
  BY SMTT(30) DEF Watcher!With
<1>2. QED
  BY <1>1, SMTT(30) DEF CertsOK

\* What a step does to the certificates.
LEMMA CertsStep ==
  ASSUME CertsOK, [Next]_vars
  PROVE  CertsOK' /\ DOMAIN inner \subseteq DOMAIN inner'
<1>1. UNCHANGED <<mode, via>> /\ RunsServer(mode, via)'
  BY ModeFixed, SMTT(30) DEF CertsOK
<1>2. CASE UNCHANGED cvars
  BY <1>1, <1>2, SMTT(30) DEF cvars, CertsOK
<1>3. ASSUME NEW host \in Hosts, NEW cert \in Certs, CertLoaded(host, cert) PROVE CertsOK' /\ DOMAIN inner \subseteq DOMAIN inner'
  <2>1. mode # "watched"
    BY <1>3, SMTT(30) DEF CertLoaded, UsesTls, CertsOK, RunsServer
  <2>2. CASE Watcher!add_cert(host, cert)
    <3>1. Watcher!Addable(host, cert) /\ inner' = Watcher!With(host, cert)
      BY <2>2, SMTT(30) DEF Watcher!add_cert
    <3>2. QED
      BY <3>1, <2>1, <1>1, CertAdded, ZenonT(30) DEF CertsOK
  <2>3. QED
    BY <1>2, <1>3, <2>2, SMTT(30) DEF CertLoaded
<1>4. CASE WatcherStep
  <2>1. CASE Watcher!watch_tls_secrets
    <3> DEFINE secret == Head(events)
    <3>1. CASE Watcher!Usable(secret) /\ Watcher!update_cert(secret.host, secret.cert)
      <4>1. /\ Watcher!Addable(secret.host, secret.cert) /\ inner' = Watcher!With(secret.host, secret.cert)
            /\ UNCHANGED hostnames
        BY <3>1, SMTT(30) DEF Watcher!update_cert
      <4>2. QED
        BY <4>1, <1>1, CertAdded, ZenonT(30) DEF CertsOK
    <3>2. QED
      BY <2>1, <3>1, <1>2, ZenonT(30)
         DEF Watcher!watch_tls_secrets, Watcher!handle_secret_apply, Watcher!cvars, cvars
  <2>2. QED
    BY <1>4, <2>1, <1>2, ZenonT(30) DEF WatcherStep, Watcher!WNext, Watcher!SecretDeleted, Watcher!SecretApplied, Watcher!WatchLost,
                            Watcher!Listed, Watcher!cvars, cvars
<1>5. QED
  BY <1>2, <1>3, <1>4, ZenonT(30) DEF Next, ServerStep, ManagerStep, ClassStep, Classed, ProcessStep, Signalled, ServerStops,
       ControllersStop, ControllerEnds, ServerExits, ControllersExit, vars

\* The resolver starts with certificates that are for their hosts.
LEMMA CertsInit == Init => CertsOK
  BY DEF Init, Watcher!CInit, CertsOK

\* A host keeps a certificate that is valid for it, for any Secrets and any
\* order of their events, and whatever the watch loses.
THEOREM CertificatesStay == Spec => CertsStay
<1>1. CertsOK /\ [Next]_vars => [\A h \in DOMAIN inner : h \in DOMAIN inner' /\ Watcher!Addable(h, inner'[h])]_vars
  <2> SUFFICES ASSUME CertsOK, [Next]_vars, NEW h \in DOMAIN inner
               PROVE  h \in DOMAIN inner' /\ Watcher!Addable(h, inner'[h])
    BY Zenon
  <2>1. CertsOK' /\ DOMAIN inner \subseteq DOMAIN inner'
    BY CertsStep, Zenon
  <2>2. h \in DOMAIN inner'
    BY <2>1, Zenon
  <2>3. \A k \in DOMAIN inner' : Watcher!Addable(k, inner'[k])
    BY <2>1, Zenon DEF CertsOK
  <2>4. QED
    BY <2>2, <2>3, Zenon
<1>2. CertsOK /\ [Next]_vars => CertsOK'
  BY CertsStep, Zenon
<1>3. QED
  BY <1>1, <1>2, CertsInit, PTL DEF Spec, CertsStay

\* No number of Secrets and of changes makes get_acceptor know a host.
THEOREM SecretsNeverKnown == Spec => []SecretsNotKnown
<1>1. CertsOK /\ [Next]_vars => CertsOK'
  BY CertsStep
<1>2. CertsOK => SecretsNotKnown
  BY DEF CertsOK, SecretsNotKnown, Watcher!get_acceptor, Watcher!has_cert
<1>3. QED
  BY <1>1, <1>2, CertsInit, PTL DEF Spec
=============================================================================
