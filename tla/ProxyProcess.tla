---------------------------- MODULE ProxyProcess ----------------------------
(***************************************************************************)
(* The process (main.rs): its modes, signals and end, around the static    *)
(* server (ProxyServer) and its certificates (SniResolver), or the dynamic *)
(* listeners (ListenerManager).  What one mode runs does not touch what    *)
(* another does: each is followed by itself.                               *)
(*                                                                         *)
(*   "http"      standalone: serve_with_shutdown, then the controllers are *)
(*               aborted and main returns                                  *)
(*   "https"     standalone with RAUTA_TLS_CERT and RAUTA_TLS_KEY:         *)
(*               serve_https, and no signal handler                        *)
(*   "k8s"       RAUTA_K8S_MODE: the controllers, of which the one of the  *)
(*               GatewayClasses is here (GatewayClassController)           *)
(*   "listeners" the listener manager: that of K8s mode, where the Gateway *)
(*               controller only registers, or of another program          *)
(*   "library"   another program (the tests) calls one of the other serve  *)
(*               functions                                                 *)
(*   "watched"   another program runs the watcher of TLS Secrets, as the   *)
(*               documentation of secret_watcher.rs has it                 *)
(*                                                                         *)
(* When main returns, the runtime drops every task that still runs.        *)
(***************************************************************************)
EXTENDS Naturals, FiniteSets, Functions

CONSTANTS
  Conns, Ports, GatewayRefs, Clients, Hosts, Certs, SecretNames, SecretSpecs, MaxEvents,
  Classes, ClassSpecs, ControllerName,
  Controllers    \* the controller tasks that main spawns in K8s mode

\* The operating system bounds the connections of a process.
ASSUME ConnsAssumption == IsFiniteSet(Conns)

VARIABLES
  via, server, conn, active, drain, permit, late,     \* ProxyServer
  listeners, tls_acceptor, socket, lconn,             \* ListenerManager
  inner, hostnames, secrets, events, watching,        \* SniResolver, SecretWatcher
  classes, cqueue, ctask, cstatus,                    \* GatewayClassController
  mode,
  phase,      \* "running", "stopping" (K8s mode), "exited" or "killed"
  signal,     \* a signal has reached a handler
  ctrlc,      \* was the Ctrl-C handler installed?
  sigterm,    \* was the SIGTERM handler installed?
  handles     \* the controller tasks that main waits for

Server == INSTANCE ProxyServer
Manager == INSTANCE ListenerManager
Watcher == INSTANCE SecretWatcher
ClassController == INSTANCE GatewayClassController

svars == <<via, server, conn, active, drain, permit, late>>
lvars == <<listeners, tls_acceptor, socket, lconn>>
cvars == <<inner, hostnames>>
wvars == <<secrets, events, watching>>
kvars == <<classes, cqueue, ctask, cstatus>>
pvars == <<mode, phase, signal, ctrlc, sigterm, handles>>
vars == <<svars, lvars, cvars, wvars, kvars, pvars>>

\* The serve function that a mode runs; with listeners of a manager it is none.
RunsServer(m, v) ==
  \/ m = "http" /\ v = "serve_with_shutdown"
  \/ m = "https" /\ v = "serve_https"
  \/ m \in {"k8s", "listeners", "watched"} /\ v = "none"
  \/ m = "library" /\ v \in {"serve", "serve_http2", "serve_https_h2"}

\* Without a Kubernetes client no controller is spawned.
Init ==
  /\ mode \in {"http", "https", "k8s", "listeners", "library", "watched"}
  /\ via \in {v \in Server!Serves \cup {"none"} : RunsServer(mode, v)}
  /\ Server!SInit
  /\ Manager!LInit /\ (tls_acceptor => mode = "listeners")
  /\ Watcher!CInit
  /\ Watcher!WInit
  /\ ClassController!KInit
  /\ phase = "running"
  /\ signal = FALSE
  /\ ctrlc \in BOOLEAN /\ sigterm \in BOOLEAN
  /\ mode \notin {"http", "k8s"} => ~ ctrlc /\ ~ sigterm
  /\ handles \in IF mode = "k8s" THEN {Controllers, {}} ELSE {{}}

Alive == phase \in {"running", "stopping"}

-----------------------------------------------------------------------------
\* The handlers are installed when the shutdown future is first polled: at once
\* in K8s mode, by the shutdown task of serve_with_shutdown otherwise.  They
\* stay installed.
Handled(s) ==
  /\ mode = "k8s" \/ drain # "none"
  /\ IF s = "SIGINT" THEN ctrlc ELSE sigterm

\* A signal without a handler ends the process.
Signalled(s) ==
  /\ Alive
  /\ IF Handled(s) THEN signal' = TRUE /\ UNCHANGED phase
                   ELSE phase' = "killed" /\ UNCHANGED signal
  /\ UNCHANGED <<svars, lvars, cvars, wvars, kvars, mode, ctrlc, sigterm, handles>>

\* The future completes with either signal, or when the Ctrl-C handler cannot be
\* installed; without a SIGTERM handler that branch waits for good.
shutdown_signal == signal \/ ~ ctrlc

\* serve_with_shutdown's task sees the signal.
ServerStops ==
  /\ phase = "running" /\ mode = "http" /\ shutdown_signal
  /\ Server!SignalSeen
  /\ UNCHANGED <<lvars, cvars, wvars, kvars, pvars>>

\* run_controllers_only sees the signal.
ControllersStop ==
  /\ phase = "running" /\ mode = "k8s" /\ shutdown_signal
  /\ phase' = "stopping"
  /\ UNCHANGED <<svars, lvars, cvars, wvars, kvars, mode, signal, ctrlc, sigterm, handles>>

\* A controller's stream ends or its task panics.  Nothing asks it to.
ControllerEnds(t) ==
  /\ Alive /\ t \in handles
  /\ handles' = handles \ {t}
  /\ UNCHANGED <<svars, lvars, cvars, wvars, kvars, mode, phase, signal, ctrlc, sigterm>>

Cut == [c \in Conns |-> IF c \in Server!Open THEN "cut" ELSE conn[c]]

\* main returns: run_with_signal_handling once the server has returned.
ServerExits ==
  /\ phase = "running" /\ mode \in {"http", "https"} /\ server = "returned"
  /\ phase' = "exited"
  /\ conn' = Cut
  /\ UNCHANGED <<via, server, active, drain, permit, late, lvars, cvars, wvars, kvars, mode, signal, ctrlc, sigterm, handles>>

\* Faulty variant of ControllersExit: the tasks are aborted, as in the
\* standalone mode, and not awaited.
AbortControllers ==
  /\ phase = "stopping"
  /\ phase' = "exited"
  /\ UNCHANGED <<svars, lvars, cvars, wvars, kvars, mode, signal, ctrlc, sigterm, handles>>

\* "Wait for all controller tasks to complete"; the listeners are left alone.
ControllersExit ==
  /\ phase = "stopping" /\ handles = {}
  /\ phase' = "exited"
  /\ UNCHANGED <<svars, lvars, cvars, wvars, kvars, mode, signal, ctrlc, sigterm, handles>>

UsesTls == via \in {"serve_https", "serve_https_h2"}

\* The resolver gets its certificate before the server starts.  main returns an
\* error when the certificate cannot be used.
CertLoaded(host, cert) ==
  /\ Alive /\ UsesTls /\ server = "binding" /\ hostnames = {}
  /\ \/ Watcher!add_cert(host, cert) /\ UNCHANGED phase
     \/ ~ Watcher!Addable(host, cert) /\ mode = "https" /\ phase' = "exited" /\ UNCHANGED cvars
  /\ UNCHANGED <<svars, lvars, wvars, kvars, mode, signal, ctrlc, sigterm, handles>>

ServerStep ==
  /\ Alive /\ via # "none" /\ (UsesTls => hostnames # {})
  /\ Server!SNext
  /\ UNCHANGED <<lvars, cvars, wvars, kvars, pvars>>

WatcherStep == Alive /\ mode = "watched" /\ Watcher!WNext /\ UNCHANGED <<svars, lvars, kvars, pvars>>

ManagerStep == Alive /\ mode = "listeners" /\ Manager!LNext /\ UNCHANGED <<svars, cvars, wvars, kvars, pvars>>

ProcessStep ==
  \/ \E s \in {"SIGINT", "SIGTERM"} : Signalled(s)
  \/ ServerStops \/ ControllersStop \/ ServerExits \/ ControllersExit
  \/ \E t \in Controllers : ControllerEnds(t)
  \/ \E host \in Hosts, cert \in Certs : CertLoaded(host, cert)

\* The controller runs as long as its task, whatever the signals.
Classed(A) ==
  /\ Alive /\ mode = "k8s" /\ "gatewayclass" \in handles
  /\ A
  /\ UNCHANGED <<svars, lvars, cvars, wvars, pvars>>

ClassStep ==
  \E k \in Classes :
    \/ Alive /\ mode = "k8s" /\ ClassController!KEdits(k) /\ UNCHANGED <<svars, lvars, cvars, wvars, pvars>>
    \/ Classed(ClassController!CReconcile(k))

Next == ServerStep \/ ManagerStep \/ WatcherStep \/ ClassStep \/ ProcessStep

Watching(A) == Alive /\ mode = "watched" /\ A /\ UNCHANGED <<svars, lvars, kvars, pvars>>

Running(A) == Alive /\ via # "none" /\ A /\ UNCHANGED <<lvars, cvars, wvars, kvars, pvars>>

\* Tasks that can run do; select! polls its branches in random order, so that a
\* branch that is ready again and again is taken.  Nothing is assumed of
\* clients, signals or the end of controllers.  A watch that is lost lists again,
\* and the patch of a status does not fail for ever.
Fairness ==
  /\ WF_vars(ServerStops) /\ WF_vars(ControllersStop)
  /\ WF_vars(ServerExits) /\ WF_vars(ControllersExit)
  /\ WF_vars(Running(Server!Bind)) /\ WF_vars(Running(Server!DrainOver))
  /\ WF_vars(Running(\E c \in Conns : Server!Spawn(c)))
  /\ SF_vars(Running(Server!Notified))
  /\ \A p \in Ports : SF_vars(Alive /\ Manager!CancelSeen(p) /\ UNCHANGED <<svars, cvars, wvars, kvars, pvars>>)
  /\ WF_vars(Watching(Watcher!Listed)) /\ WF_vars(Watching(Watcher!watch_tls_secrets))
  /\ \A k \in Classes :
       WF_vars(Classed(ClassController!CReconcile(k))) /\ SF_vars(Classed(ClassController!set_accepted_status(k)))

Spec == Init /\ [][Next]_vars /\ Fairness

-----------------------------------------------------------------------------
Exits == phase = "running" /\ phase' = "exited"

\* "Graceful shutdown initiated - draining active connections": a standalone
\* server that ends after a signal cuts no connection, except after the 30 s or
\* one that it accepted while the drain was coming to its end.
ServedUntilDrained ==
  [][Exits /\ drain = "drained" => Server!Open \subseteq late]_vars

\* "Handles both SIGTERM (Kubernetes) and Ctrl-C (local development)": a
\* standalone HTTP server that has seen a signal ends, however many clients keep
\* connecting and however long their connections last.
ShutdownEnds ==
  mode = "http" /\ drain = "draining" ~> ~ Alive

\* In K8s mode main returns after a signal only, and leaves no controller behind.
NoneLeftBehind ==
  [][mode = "k8s" /\ phase' = "exited" => handles = {} /\ shutdown_signal]_vars

\* "Wait for all controller tasks to complete": in K8s mode a handled signal
\* ends the process once every controller has ended by itself, and not before.
\* Until then they go on: a GatewayClass of ours is accepted, in its last
\* generation, as long as its controller has not ended.
ExitAwaitsControllers ==
  /\ NoneLeftBehind
  /\ mode = "k8s" /\ signal /\ handles = {} ~> ~ Alive
  /\ \A k \in Classes, spec \in {s \in ClassSpecs : ClassController!should_accept(s)} :
       <>[](classes[k] = spec /\ Alive /\ "gatewayclass" \in handles) => <>[](cstatus[k] = spec)

MapMatchesTasks == \A p \in Ports : p \in DOMAIN listeners <=> socket[p].state = "accepting"

\* A port in the map has a task that accepts; the task of a port that has left
\* the map lets go of the socket, so that the port can be registered again.
PortsReleased ==
  /\ []MapMatchesTasks
  /\ \A p \in Ports : socket[p].state = "cancelled" ~> socket[p].state = "none" \/ ~ Alive

\* "If starts with HTTP/2 preface ..., use HTTP/2.  Otherwise, use HTTP/1.1": a
\* connection is served with the protocol that its port had when it was accepted,
\* also when the port is unregistered, and registered with another protocol,
\* during its handshake.  HTTP/2 is for clients that speak it; one that does gets
\* HTTP/1.1 only in clear text, when its preface comes in more than one segment.
ServedAsAccepted ==
  lconn.pc = "serving" =>
    /\ lconn.tls <=> lconn.protocol = "HTTPS"
    /\ lconn.http = "h2" => lconn.client.speaks = "h2"
    /\ lconn.http = "h1" /\ lconn.client.speaks = "h2" => ~ lconn.tls /\ ~ lconn.client.whole

\* No other Secret is for the host.
Sole(n, host) == \A m \in SecretNames \ {n} : secrets[m] # Watcher!Gone => secrets[m].host # host

\* A host never loses its certificate, nor gets one that is not for it.
CertsStay ==
  [][\A h \in DOMAIN inner : h \in DOMAIN inner' /\ Watcher!Addable(h, inner'[h])]_vars

\* get_acceptor answers None for every host that came from a Secret.
SecretsNotKnown == mode = "watched" => \A h \in Hosts : ~ Watcher!get_acceptor(h)

\* "Watches Kubernetes Secret resources and automatically updates certificates
\* when Secrets change": the certificate of a host that has one Secret, and a
\* usable one, is served in the end, whatever changes a broken watch has lost,
\* if the watch now and then lasts until all changes are handled.
\* Where there was another Secret for the host, its certificate can outlive it
\* until the watch lists again: deletions are only logged.  And a host never
\* loses its certificate, nor gets one that is not for it, not by a deletion and
\* not by a Secret that is broken.  get_acceptor, though, answers None for every
\* host that came from a Secret: update_cert takes its name to be known.
CertsFollow ==
  /\ \A n \in SecretNames, spec \in {s \in SecretSpecs : Watcher!Usable(s)} :
       /\ <>[](Alive /\ secrets[n] = spec /\ Sole(n, spec.host))
       /\ []<>(watching /\ events = << >>)
       /\ [] Sole(n, spec.host) \/ []<> ~ watching
       => <>[](Watcher!Resolves(spec.host) /\ inner[spec.host] = spec.cert)
  /\ CertsStay
  /\ []SecretsNotKnown
=============================================================================
