---------------------------- MODULE BreakerWord -----------------------------
(***************************************************************************)
(* The packed word of control/src/proxy/circuit_breaker.rs: the state of   *)
(* the circuit and its three 16-bit counters, and the words that the       *)
(* operations compute from a loaded word.                                  *)
(***************************************************************************)
EXTENDS Integers

CONSTANTS
  Threshold,     \* failure_threshold
  HalfOpenMax,   \* half_open_max_requests
  CounterMod     \* 2^16 in the code: the packed counters are masked with 0xFFFF

ASSUME ThresholdAssumption == Threshold \in Nat \ {0}
ASSUME HalfOpenMaxAssumption == HalfOpenMax \in Nat \ {0}
ASSUME CounterModAssumption == CounterMod \in Nat /\ CounterMod > HalfOpenMax

CLOSED == "Closed"
OPEN == "Open"
HALFOPEN == "HalfOpen"
States == {CLOSED, OPEN, HALFOPEN}

Counter == 0 .. CounterMod - 1

Word == [state : States, failures : Counter, successes : Counter, reqs : Counter]

pack_state(s, f, su, r) ==
  [state |-> s, failures |-> f % CounterMod,
   successes |-> su % CounterMod, reqs |-> r % CounterMod]

ClosedWord == pack_state(CLOSED, 0, 0, 0)

\* allow_request on an Open word whose timeout has elapsed: the caller is
\* counted as the first probe.
ProbeWord == pack_state(HALFOPEN, 0, 0, 1)

\* allow_request on a Half-Open word with a free probe slot.
AdmitWord(w) == pack_state(HALFOPEN, w.failures, w.successes, w.reqs + 1)

\* record_success on a Closed or a Half-Open word.
SuccessWord(w) ==
  IF w.state = HALFOPEN /\ w.successes + 1 < HalfOpenMax
  THEN pack_state(HALFOPEN, w.failures, w.successes + 1, w.reqs)
  ELSE ClosedWord

\* Faulty variants of FailureWord: the circuit trips one failure late, or one
\* failure early.
LateTripWord(w) ==
  IF w.state = HALFOPEN
  THEN pack_state(OPEN, 0, 0, 0)
  ELSE pack_state(IF w.failures + 1 > Threshold THEN OPEN ELSE CLOSED, w.failures + 1, 0, 0)

EarlyTripWord(w) ==
  IF w.state = HALFOPEN
  THEN pack_state(OPEN, 0, 0, 0)
  ELSE pack_state(IF w.failures + 2 >= Threshold THEN OPEN ELSE CLOSED, w.failures + 1, 0, 0)

\* record_failure on a Closed or a Half-Open word.
FailureWord(w) ==
  IF w.state = HALFOPEN
  THEN pack_state(OPEN, 0, 0, 0)
  ELSE pack_state(IF w.failures + 1 >= Threshold THEN OPEN ELSE CLOSED,
                  w.failures + 1, 0, 0)
=============================================================================
