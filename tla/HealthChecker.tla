--------------------------- MODULE HealthChecker ----------------------------
(***************************************************************************)
(* Active health checking of one backend: HealthChecker of                 *)
(* control/src/proxy/health_checker.rs.  Every add_route that names the    *)
(* backend calls start_checking, and every start_checking spawns one more  *)
(* check_backend_loop, so that several loops probe the backend and update  *)
(* its one BackendHealthState.  A probe is a TCP connect with a timeout,   *)
(* and its result is recorded some time after the connect has ended.       *)
(***************************************************************************)
EXTENDS Integers, Sequences, SequencesExt

CONSTANTS
  Loops,                \* the loops that start_checking may spawn
  UnhealthyThreshold,   \* unhealthy_threshold (3)
  HealthyThreshold      \* healthy_threshold (2)

ASSUME UnhealthyThresholdAssumption == UnhealthyThreshold \in Nat \ {0}
ASSUME HealthyThresholdAssumption == HealthyThreshold \in Nat \ {0}

VARIABLES
  status,      \* the backend's HealthStatus
  successes,   \* consecutive_successes, up to HealthyThreshold
  failures,    \* consecutive_failures, up to UnhealthyThreshold
  reachable,   \* whether the backend accepts connections
  cancelled,   \* the cancellation token
  loops,       \* where each loop is
  recent       \* history: the latest recorded results, oldest first

hvars == <<status, successes, failures, reachable, cancelled, loops, recent>>

state == <<status, successes, failures>>

Memory == IF UnhealthyThreshold > HealthyThreshold THEN UnhealthyThreshold ELSE HealthyThreshold

Saturate(n, bound) == IF n < bound THEN n + 1 ELSE n

Remember(ok) == recent' = Append(IF Len(recent) = Memory THEN Tail(recent) ELSE recent, ok)

-----------------------------------------------------------------------------
\* Faulty variant of record_success: the failures are not reset.
SuccessKeepsFailures ==
  /\ successes' = Saturate(successes, HealthyThreshold)
  /\ status' = IF successes' >= HealthyThreshold THEN "Healthy" ELSE status
  /\ UNCHANGED failures

record_success ==
  /\ successes' = Saturate(successes, HealthyThreshold)
  /\ failures' = 0
  /\ status' = IF successes' >= HealthyThreshold THEN "Healthy" ELSE status

record_failure ==
  /\ failures' = Saturate(failures, UnhealthyThreshold)
  /\ successes' = 0
  /\ status' = IF failures' >= UnhealthyThreshold THEN "Unhealthy" ELSE status

-----------------------------------------------------------------------------
HInit ==
  /\ status = "Healthy"
  /\ successes = 0
  /\ failures = 0
  /\ reachable \in BOOLEAN
  /\ cancelled = FALSE
  /\ loops = [l \in Loops |-> "off"]
  /\ recent = << >>

Goto(l, label) == loops' = [loops EXCEPT ![l] = label]

\* start_checking, with health checking enabled: the state of a backend that is
\* tracked already is kept, and one more loop is spawned.
start_checking(l) ==
  /\ loops[l] = "off"
  /\ Goto(l, "wait")
  /\ UNCHANGED <<state, reachable, cancelled, recent>>

\* The interval ticks and the loop connects.
ProbeStart(l) ==
  /\ loops[l] = "wait"
  /\ Goto(l, "probing")
  /\ UNCHANGED <<state, reachable, cancelled, recent>>

\* The connect succeeds, fails or times out.
ProbeResult(l) ==
  /\ loops[l] = "probing"
  /\ Goto(l, IF reachable THEN "succeeded" ELSE "failed")
  /\ UNCHANGED <<state, reachable, cancelled, recent>>

RecordSuccess(l) ==
  /\ loops[l] = "succeeded"
  /\ record_success
  /\ Remember(TRUE)
  /\ Goto(l, "wait")
  /\ UNCHANGED <<reachable, cancelled>>

\* Faulty variant of RecordFailure: the loop ends on a failed probe.
FailureEndsLoop(l) ==
  /\ loops[l] = "failed"
  /\ record_failure
  /\ Remember(FALSE)
  /\ Goto(l, "done")
  /\ UNCHANGED <<reachable, cancelled>>

RecordFailure(l) ==
  /\ loops[l] = "failed"
  /\ record_failure
  /\ Remember(FALSE)
  /\ Goto(l, "wait")
  /\ UNCHANGED <<reachable, cancelled>>

\* Faulty variant of Exit: the token is not watched once the loop runs.
NeverExit(l) ==
  /\ cancelled
  /\ loops[l] = "off"
  /\ Goto(l, "done")
  /\ UNCHANGED <<state, reachable, cancelled, recent>>

\* The loop sees the cancellation token while it waits for the interval.
Exit(l) ==
  /\ cancelled
  /\ loops[l] = "wait"
  /\ Goto(l, "done")
  /\ UNCHANGED <<state, reachable, cancelled, recent>>

shutdown ==
  /\ ~ cancelled
  /\ cancelled' = TRUE
  /\ UNCHANGED <<state, reachable, loops, recent>>

\* The backend goes down or comes back.
Flip ==
  /\ reachable' = ~ reachable
  /\ UNCHANGED <<state, cancelled, loops, recent>>

Step(l) == ProbeStart(l) \/ ProbeResult(l) \/ RecordSuccess(l) \/ RecordFailure(l)

HNext ==
  \/ shutdown \/ Flip
  \/ \E l \in Loops : start_checking(l) \/ Step(l) \/ Exit(l)

HSpec == HInit /\ [][HNext]_hvars

(***************************************************************************)
(* The interval ticks and a probe ends (it has a timeout).  select! polls  *)
(* its branches in random order, so that a cancelled loop does not choose  *)
(* the interval for ever.                                                  *)
(***************************************************************************)
FairSpec == HSpec /\ \A l \in Loops : WF_hvars(Step(l)) /\ SF_hvars(Exit(l))

-----------------------------------------------------------------------------
\* The values of the health state and of the loops.
HTypeOK ==
  /\ status \in {"Healthy", "Unhealthy"}
  /\ successes \in 0 .. HealthyThreshold
  /\ failures \in 0 .. UnhealthyThreshold
  /\ reachable \in BOOLEAN
  /\ cancelled \in BOOLEAN
  /\ loops \in [Loops -> {"off", "wait", "probing", "succeeded", "failed", "done"}]
  /\ recent \in Seq(BOOLEAN) /\ Len(recent) <= Memory

Latest(n) == SubSeq(recent', Len(recent') - n + 1, Len(recent'))

\* "Consecutive failures before marking unhealthy", "Consecutive successes
\* before marking healthy": the status changes only when the latest results,
\* recorded by whichever loops, all say so.
ChangesOnStreak ==
  [][/\ status = "Healthy" /\ status' = "Unhealthy" =>
          /\ Len(recent') >= UnhealthyThreshold
          /\ ToSet(Latest(UnhealthyThreshold)) = {FALSE}
     /\ status = "Unhealthy" /\ status' = "Healthy" =>
          /\ Len(recent') >= HealthyThreshold
          /\ ToSet(Latest(HealthyThreshold)) = {TRUE}]_hvars

Checked == ~ cancelled /\ \E l \in Loops : loops[l] # "off"

\* The status of a backend that stays reachable, or unreachable, while it is
\* checked agrees with that in the end, and stays so: late results of probes
\* that were started before cannot flap it for ever.
StatusConverges ==
  /\ <>[](reachable /\ Checked) => <>[](status = "Healthy")
  /\ <>[](~ reachable /\ Checked) => <>[](status = "Unhealthy")

\* "Stop all health checking tasks gracefully": after shutdown every loop that
\* was started ends.
ShutdownStops == \A l \in Loops : cancelled /\ loops[l] # "off" ~> loops[l] = "done"
=============================================================================
