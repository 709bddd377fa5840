------------------------- MODULE GatewayController -------------------------
(***************************************************************************)
(* The Gateway controller (apis/gateway/gateway.rs) with the GatewayIndex  *)
(* it maintains and the listeners it registers (proxy/listener_manager.rs).*)
(*                                                                         *)
(* kube-runtime is external: an applied object is queued, a queued object  *)
(* is reconciled from a snapshot, an object is never reconciled twice at   *)
(* once, and Action::requeue queues it again later.  A deleted object has  *)
(* no finalizer, so that nothing is queued for it.  The status patch is an *)
(* update of the object itself; it queues the object again unless it is a  *)
(* no-op.  Secrets are read and not watched.  The controller never calls   *)
(* unregister_gateway or shutdown (ListenerManager has them).              *)
(***************************************************************************)
EXTENDS Sequences, FiniteSets

CONSTANTS
  Gateways,       \* the Gateway objects
  Ours,           \* the GatewayClass name of this controller
  GatewaySpecs,   \* GatewaySpecs[g]: the specs of Gateway g, [class, listeners];
                  \* a listener is [name, port, protocol, refs, kinds]
  Secrets         \* the Secrets that certificateRefs may name

VARIABLES
  gateways,   \* the Gateway objects of the cluster
  gqueue,     \* when each Gateway is reconciled next
  gtask,      \* the running reconcile of each Gateway
  gstatus,    \* each Gateway's status: [spec, resolved]
  secrets,    \* the Secrets that exist and have a tls.crt and a tls.key
  index,      \* the GatewayIndex
  listeners,  \* the active listeners, by port
  tls         \* is the ListenerManager made by with_tls?

gvars == <<gateways, gqueue, gtask, gstatus, secrets, index, listeners, tls>>

Absent == [absent |-> TRUE]
Idle == [pc |-> "idle"]

\* GatewayIndex::add and GatewayIndex::remove
add(g) == index' = index \cup {g}
remove(g) == index' = index \ {g}

-----------------------------------------------------------------------------
GInit ==
  /\ gateways = [g \in Gateways |-> Absent]
  /\ gqueue = [g \in Gateways |-> "none"]
  /\ gtask = [g \in Gateways |-> Idle]
  /\ gstatus = [g \in Gateways |-> Absent]
  /\ secrets = {}
  /\ index = {}
  /\ listeners = << >>
  /\ tls \in BOOLEAN

\* The user creates or edits a Gateway.
GatewayApplied(g, spec) ==
  /\ gateways[g] # spec
  /\ gateways' = [gateways EXCEPT ![g] = spec]
  /\ gqueue' = [gqueue EXCEPT ![g] = "now"]
  /\ UNCHANGED <<gtask, gstatus, secrets, index, listeners, tls>>

GatewayDeleted(g) ==
  /\ gateways[g] # Absent
  /\ gateways' = [gateways EXCEPT ![g] = Absent]
  /\ gstatus' = [gstatus EXCEPT ![g] = Absent]
  /\ UNCHANGED <<gqueue, gtask, secrets, index, listeners, tls>>

\* The user creates, completes, empties or deletes a Secret.
SecretChanges(n) ==
  /\ secrets' = IF n \in secrets THEN secrets \ {n} ELSE secrets \cup {n}
  /\ UNCHANGED <<gateways, gqueue, gtask, gstatus, index, listeners, tls>>

\* The requeue interval (300 s, 60 s after an error) is over.
GatewayRequeued(g) ==
  /\ gqueue[g] = "later"
  /\ gqueue' = [gqueue EXCEPT ![g] = "now"]
  /\ UNCHANGED <<gateways, gtask, gstatus, secrets, index, listeners, tls>>

Runnable(g) == gqueue[g] = "now" /\ gtask[g] = Idle

\* kube-runtime drops the request for an object that is gone.
GatewayGone(g) ==
  /\ Runnable(g) /\ gateways[g] = Absent
  /\ gqueue' = [gqueue EXCEPT ![g] = "none"]
  /\ UNCHANGED <<gateways, gtask, gstatus, secrets, index, listeners, tls>>

\* Faulty variant of NotOurs: the index keeps a Gateway that has changed class.
KeepInIndex(g) ==
  /\ Runnable(g) /\ gateways[g] # Absent /\ gateways[g].class # Ours
  /\ gqueue' = [gqueue EXCEPT ![g] = "none"]
  /\ UNCHANGED <<gateways, gtask, gstatus, secrets, index, listeners, tls>>

\* A Gateway of another class leaves the index; await_change.
NotOurs(g) ==
  /\ Runnable(g) /\ gateways[g] # Absent /\ gateways[g].class # Ours
  /\ gqueue' = [gqueue EXCEPT ![g] = "none"]
  /\ remove(g)
  /\ UNCHANGED <<gateways, gtask, gstatus, secrets, listeners, tls>>

\* A Gateway of our class enters the index before its listeners exist.
GatewayStart(g) ==
  /\ Runnable(g) /\ gateways[g] # Absent /\ gateways[g].class = Ours
  /\ gqueue' = [gqueue EXCEPT ![g] = "none"]
  /\ add(g)
  /\ gtask' = [gtask EXCEPT ![g] =
       [pc |-> "register", spec |-> gateways[g], todo |-> gateways[g].listeners,
        refs |-> [i \in DOMAIN gateways[g].listeners |-> gateways[g].listeners[i].refs], failed |-> {}]]
  /\ UNCHANGED <<gateways, gstatus, secrets, listeners, tls>>

-----------------------------------------------------------------------------
\* register_gateway holds the write lock of the listeners from the look-up to
\* the insertion, over the bind: it is one step.

Supported(l) == l.protocol \in {"HTTP", "HTTPS"}

Conflicts(l) == l.port \in DOMAIN listeners /\ listeners[l.port].protocol # l.protocol

Joins(l) == l.port \in DOMAIN listeners /\ listeners[l.port].protocol = l.protocol

MayBind(l) == l.port \notin DOMAIN listeners /\ (l.protocol = "HTTPS" => tls)

Registered(g, l) ==
  [p \in DOMAIN listeners \cup {l.port} |->
     IF p # l.port THEN listeners[p]
     ELSE [protocol |-> l.protocol,
           gateways |-> {<<g, l.name>>} \cup (IF p \in DOMAIN listeners THEN listeners[p].gateways ELSE {})]]

Registering(g) == gtask[g].pc = "register" /\ gtask[g].todo # << >>

NextListener(g) ==
  /\ gtask' = [gtask EXCEPT ![g].todo = Tail(@)]
  /\ UNCHANGED <<gateways, gqueue, gstatus, secrets, index, tls>>

\* The listener is added to an active port, or the port is bound.
ListenerRegistered(g) ==
  /\ Registering(g)
  /\ LET l == Head(gtask[g].todo) IN
       /\ Supported(l)
       /\ Joins(l) \/ MayBind(l)
       /\ listeners' = Registered(g, l)
  /\ NextListener(g)

\* "Continue with other listeners even if one fails": an unsupported protocol,
\* a port with the other protocol, HTTPS without TLS, or a bind that fails.
ListenerSkipped(g) ==
  /\ Registering(g)
  /\ LET l == Head(gtask[g].todo) IN ~ Supported(l) \/ Conflicts(l) \/ l.port \notin DOMAIN listeners
  /\ UNCHANGED listeners
  /\ NextListener(g)

-----------------------------------------------------------------------------
Requeue(g, when) ==
  gqueue' = [gqueue EXCEPT ![g] = IF @ = "now" THEN "now" ELSE when]

\* validate_certificate_refs runs for all listeners at once, and reads the
\* Secrets of a listener one after the other.
Validating(g, i) ==
  gtask[g].pc = "register" /\ gtask[g].todo = << >> /\ i \in DOMAIN gtask[g].refs /\ gtask[g].refs[i] # << >>

ResolvableRef(ref) == ref.core /\ ref.secret \in secrets

\* Faulty variant of CertRefResolved: one good Secret is enough.
FirstRefOnly(g, i) ==
  /\ Validating(g, i) /\ ResolvableRef(Head(gtask[g].refs[i]))
  /\ gtask' = [gtask EXCEPT ![g].refs[i] = << >>]
  /\ UNCHANGED <<gateways, gqueue, gstatus, secrets, index, listeners, tls>>

CertRefResolved(g, i) ==
  /\ Validating(g, i) /\ ResolvableRef(Head(gtask[g].refs[i]))
  /\ gtask' = [gtask EXCEPT ![g].refs[i] = Tail(@)]
  /\ UNCHANGED <<gateways, gqueue, gstatus, secrets, index, listeners, tls>>

\* A ref of another group or kind, a Secret that is missing or incomplete, or an
\* error of the API.
CertRefFails(g, i) ==
  /\ Validating(g, i)
  /\ gtask' = [gtask EXCEPT ![g].refs[i] = << >>, ![g].failed = @ \cup {i}]
  /\ UNCHANGED <<gateways, gqueue, gstatus, secrets, index, listeners, tls>>

Reporting(g) ==
  gtask[g].pc = "register" /\ gtask[g].todo = << >> /\ \A i \in DOMAIN gtask[g].refs : gtask[g].refs[i] = << >>

\* A listener without allowedRoutes.kinds allows HTTPRoute.
KindsSupported(l) == l.kinds # {} /\ l.kinds \subseteq {"HTTPRoute"}

\* What set_gateway_status reports: every listener is accepted and programmed,
\* and some have their references resolved.
Report(task) ==
  [spec |-> task.spec,
   resolved |-> {task.spec.listeners[i].name :
                   i \in {j \in DOMAIN task.spec.listeners :
                             j \notin task.failed /\ KindsSupported(task.spec.listeners[j])}}]

\* Faulty variant of StatusPatched: await_change instead of a requeue.
PatchedAndAwait(g) ==
  /\ Reporting(g) /\ gateways[g] # Absent
  /\ gstatus' = [gstatus EXCEPT ![g] = Report(gtask[g])]
  /\ gtask' = [gtask EXCEPT ![g] = Idle]
  /\ Requeue(g, "none")
  /\ UNCHANGED <<gateways, secrets, index, listeners, tls>>

\* The status goes with the generation of the snapshot; the merge patch has no
\* resource version and always applies.
StatusPatched(g) ==
  /\ Reporting(g) /\ gateways[g] # Absent
  /\ gstatus' = [gstatus EXCEPT ![g] = Report(gtask[g])]
  /\ gtask' = [gtask EXCEPT ![g] = Idle]
  /\ \E when \in {"now", "later"} : Requeue(g, when)
  /\ UNCHANGED <<gateways, secrets, index, listeners, tls>>

\* The patch fails (also because the Gateway is gone): error_policy.
StatusFails(g) ==
  /\ Reporting(g)
  /\ gtask' = [gtask EXCEPT ![g] = Idle]
  /\ Requeue(g, "later")
  /\ UNCHANGED <<gateways, gstatus, secrets, index, listeners, tls>>

Reconcile(g) ==
  \/ GatewayRequeued(g) \/ GatewayGone(g) \/ NotOurs(g) \/ GatewayStart(g)
  \/ ListenerRegistered(g) \/ ListenerSkipped(g) \/ StatusPatched(g) \/ StatusFails(g)
  \/ \E i \in DOMAIN (IF gtask[g] = Idle THEN << >> ELSE gtask[g].refs) : CertRefResolved(g, i) \/ CertRefFails(g, i)

GNext ==
  \/ \E g \in Gateways :
       \/ \E spec \in GatewaySpecs[g] : GatewayApplied(g, spec)
       \/ GatewayDeleted(g)
       \/ Reconcile(g)
  \/ \E n \in Secrets : SecretChanges(n)

\* The controller keeps running, and neither a bind nor a patch fails for ever.
GFairness ==
  \A g \in Gateways :
    WF_gvars(Reconcile(g)) /\ SF_gvars(ListenerRegistered(g)) /\ SF_gvars(StatusPatched(g))

GSpec == GInit /\ [][GNext]_gvars /\ GFairness

-----------------------------------------------------------------------------
ListenersOf(spec) == {spec.listeners[i] : i \in DOMAIN spec.listeners}

Holds(g, l) == l.port \in DOMAIN listeners /\ <<g, l.name>> \in listeners[l.port].gateways

\* The index follows the class of every Gateway that is not deleted.
IndexFollowsClass ==
  \A g \in Gateways :
    /\ (<>[](gateways[g] # Absent /\ gateways[g].class = Ours)) => <>[](g \in index)
    /\ (<>[](gateways[g] # Absent /\ gateways[g].class # Ours)) => <>[](g \notin index)

\* A listener that could not be registered is tried again: in the end every
\* listener of a Gateway holds its port, or the port has the other protocol, or
\* it needs TLS and there is none.
ListenersRetried ==
  \A g \in Gateways : \A spec \in GatewaySpecs[g] :
    spec.class = Ours /\ <>[](gateways[g] = spec) =>
      <>[](\A l \in ListenersOf(spec) :
             Supported(l) => Holds(g, l) \/ Conflicts(l) \/ (l.protocol = "HTTPS" /\ ~ tls))

\* "2. certificateRef.kind must be Secret, 3. Secret must exist": a listener with
\* a reference that stays unresolvable, or with a kind that is not supported, ends
\* up without ResolvedRefs, although no change of a Secret wakes the controller up
\* and the Secrets of a listener are read at different times.
UnresolvedReported ==
  \A g \in Gateways : \A spec \in GatewaySpecs[g] :
    \A l \in ListenersOf(spec) :
      /\ spec.class = Ours
      /\ <>[](gateways[g] = spec)
      /\ ~ KindsSupported(l) \/ \E i \in DOMAIN l.refs : <>[] ~ ResolvableRef(l.refs[i])
      => <>[](gstatus[g] # Absent /\ l.name \notin gstatus[g].resolved)
=============================================================================
