--------------------------- MODULE BreakerManager ---------------------------
(***************************************************************************)
(* The CircuitBreakerManager in front of CircuitBreaker: the breaker of a  *)
(* backend is made by the first request for it.  The map is read without a *)
(* lock and written under write_lock; here it has the one backend that the *)
(* tasks use.  remove_backend is for tests and is left out: an entry       *)
(* stays, so that record_success and record_failure find it.               *)
(***************************************************************************)
EXTENDS CircuitBreaker

VARIABLES
  breakers,     \* has the map an entry for the backend?
  write_lock,   \* the task that holds the lock, if any
  missed        \* the tasks whose lock-free look-up has found nothing

mvars == <<vars, breakers, write_lock, missed>>

MInit ==
  /\ Init
  /\ breakers = FALSE
  /\ write_lock = {}
  /\ missed = {}

\* get_breaker, without an entry.
Miss(t) ==
  /\ pc[t] = "idle" /\ t \notin missed
  /\ ~ breakers
  /\ missed' = missed \cup {t}
  /\ UNCHANGED <<vars, breakers, write_lock>>

Lock(t) ==
  /\ t \in missed /\ write_lock = {}
  /\ write_lock' = {t}
  /\ UNCHANGED <<vars, breakers, missed>>

\* Faulty variant of get_breaker: a new breaker, without a second look.
NoDoubleCheck(t) ==
  /\ t \in write_lock
  /\ Goto(t, "allow")
  /\ breakers' = TRUE
  /\ packed' = ClosedWord /\ lastFailure' = NeverFailed
  /\ write_lock' = {} /\ missed' = missed \ {t}
  /\ UNCHANGED <<cur, stamp, probes, streak>>

\* "Double-check after acquiring write lock": the breaker is made if it is still
\* missing.  The task goes on to the allow_request of the breaker.
get_breaker(t) ==
  /\ t \in write_lock
  /\ Goto(t, "allow")
  /\ breakers' = TRUE
  /\ IF breakers THEN UNCHANGED <<packed, lastFailure>>
                 ELSE packed' = ClosedWord /\ lastFailure' = NeverFailed
  /\ write_lock' = {} /\ missed' = missed \ {t}
  /\ UNCHANGED <<cur, stamp, probes, streak>>

\* The look-up finds the breaker.
allow_request(t) == breakers /\ t \notin missed /\ Begin(t) /\ UNCHANGED <<breakers, write_lock, missed>>
record_success(t) == breakers /\ EndSuccess(t) /\ UNCHANGED <<breakers, write_lock, missed>>
record_failure(t) == breakers /\ EndFailure(t) /\ UNCHANGED <<breakers, write_lock, missed>>

Kept(A) == A /\ UNCHANGED <<breakers, write_lock, missed>>

Arrive(t) == Miss(t) \/ Lock(t) \/ get_breaker(t) \/ allow_request(t)

Leave(t) == record_success(t) \/ record_failure(t) \/ Kept(Abandon(t))

MNext ==
  \/ Kept(Tick)
  \/ \E t \in Threads :
       Arrive(t) \/ Leave(t) \/ Kept(Local(t)) \/ Kept(CasOk(t)) \/ Kept(CasFails(t))

(***************************************************************************)
(* Fairness: time passes, requests for the backend keep coming, a task is  *)
(* scheduled and gets the lock it waits for, and a weak compare-and-swap   *)
(* does not fail spuriously for ever.  A request ends in some way, by an   *)
(* answer, an error or its client leaving: an assumption on the            *)
(* environment, since the code has no timeout on forwarding unless the     *)
(* route configures one.                                                   *)
(***************************************************************************)
MFairness ==
  /\ WF_mvars(Kept(Tick))
  /\ \A t \in Threads :
       /\ WF_mvars(Arrive(t))
       /\ SF_mvars(Lock(t))
       /\ WF_mvars(Kept(Local(t)))
       /\ WF_mvars(Leave(t))
       /\ WF_mvars(Kept(CasOk(t) \/ CasFails(t)))
       /\ SF_mvars(Kept(CasOk(t)))

MSafety == MInit /\ [][MNext]_mvars

MSpec == MSafety /\ MFairness
=============================================================================
