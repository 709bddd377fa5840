--------------------------- MODULE BreakerMachine ---------------------------
(***************************************************************************)
(* What a circuit breaker promises, without threads and without time:      *)
(* every operation is one atomic transition of the state word.  The module *)
(* CircuitBreaker, where threads load the word, compute, and then compare  *)
(* and swap, is shown to implement this machine.                           *)
(***************************************************************************)
EXTENDS BreakerWord

VARIABLE packed

Init == packed = ClosedWord

StartProbing ==
  /\ packed.state = OPEN
  /\ packed' = ProbeWord

AdmitProbe ==
  /\ packed.state = HALFOPEN
  /\ packed.reqs < HalfOpenMax
  /\ packed' = AdmitWord(packed)

RecordSuccess ==
  /\ packed.state # OPEN
  /\ packed' = SuccessWord(packed)

RecordFailure ==
  /\ packed.state # OPEN
  /\ packed' = FailureWord(packed)

Next == StartProbing \/ AdmitProbe \/ RecordSuccess \/ RecordFailure

Spec == Init /\ [][Next]_packed
=============================================================================
