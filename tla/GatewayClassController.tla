----------------------- MODULE GatewayClassController -----------------------
(***************************************************************************)
(* The GatewayClass controller (apis/gateway/gateway_class.rs).  The       *)
(* scheduler of kube-runtime is external, as in GatewayController.  The    *)
(* API server does not let a GatewayClass change its controllerName.       *)
(***************************************************************************)
EXTENDS Naturals

CONSTANTS
  Classes,
  ClassSpecs,      \* [controller, generation]
  ControllerName   \* RAUTA_CONTROLLER_NAME

VARIABLES
  classes,    \* the GatewayClass objects of the cluster
  cqueue,     \* when each is reconciled next: "none", "later" or "now"
  ctask,      \* the snapshot that a running reconcile holds
  cstatus     \* the snapshot that the status accepts

kvars == <<classes, cqueue, ctask, cstatus>>

NoClass == [absent |-> TRUE]

KInit ==
  /\ classes = [k \in Classes |-> NoClass]
  /\ cqueue = [k \in Classes |-> "none"]
  /\ ctask = [k \in Classes |-> NoClass]
  /\ cstatus = [k \in Classes |-> NoClass]

ClassApplied(k, spec) ==
  /\ classes[k] # spec
  /\ classes[k] # NoClass => classes[k].controller = spec.controller
  /\ classes' = [classes EXCEPT ![k] = spec]
  /\ cqueue' = [cqueue EXCEPT ![k] = "now"]
  /\ UNCHANGED <<ctask, cstatus>>

ClassDeleted(k) ==
  /\ classes[k] # NoClass
  /\ classes' = [classes EXCEPT ![k] = NoClass]
  /\ cstatus' = [cstatus EXCEPT ![k] = NoClass]
  /\ UNCHANGED <<cqueue, ctask>>

ClassRequeued(k) ==
  /\ cqueue[k] = "later"
  /\ cqueue' = [cqueue EXCEPT ![k] = "now"]
  /\ UNCHANGED <<classes, ctask, cstatus>>

Due(k) == cqueue[k] = "now" /\ ctask[k] = NoClass

ClassGone(k) ==
  /\ Due(k) /\ classes[k] = NoClass
  /\ cqueue' = [cqueue EXCEPT ![k] = "none"]
  /\ UNCHANGED <<classes, ctask, cstatus>>

should_accept(spec) == spec.controller = ControllerName

\* reconcile, up to the patch of the status; another controller's class is left
\* alone and looked at again later.
ClassReconciled(k) ==
  /\ Due(k) /\ classes[k] # NoClass
  /\ \/ should_accept(classes[k]) /\ ctask' = [ctask EXCEPT ![k] = classes[k]] /\ cqueue' = [cqueue EXCEPT ![k] = "none"]
     \/ ~ should_accept(classes[k]) /\ cqueue' = [cqueue EXCEPT ![k] = "later"] /\ UNCHANGED ctask
  /\ UNCHANGED <<classes, cstatus>>

ClassTaskEnds(k) ==
  /\ ctask[k] # NoClass
  /\ ctask' = [ctask EXCEPT ![k] = NoClass]
  /\ cqueue' = [cqueue EXCEPT ![k] = IF @ = "now" THEN "now" ELSE "later"]
  /\ UNCHANGED classes

set_accepted_status(k) ==
  /\ classes[k] # NoClass
  /\ cstatus' = [cstatus EXCEPT ![k] = ctask[k]]
  /\ ClassTaskEnds(k)

\* The patch fails.
error_policy(k) == ClassTaskEnds(k) /\ UNCHANGED cstatus

CReconcile(k) ==
  ClassRequeued(k) \/ ClassGone(k) \/ ClassReconciled(k) \/ set_accepted_status(k) \/ error_policy(k)

KEdits(k) == ClassDeleted(k) \/ \E spec \in ClassSpecs : ClassApplied(k, spec)
=============================================================================
