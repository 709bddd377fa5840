--------------------------- MODULE CircuitBreaker ---------------------------
(***************************************************************************)
(* The lock-free circuit breaker of control/src/proxy/circuit_breaker.rs,  *)
(* as it is used by concurrent request tasks for one backend.  A task asks *)
(* allow_request; when admitted it forwards its request and then reports   *)
(* record_success or record_failure, or nothing at all (BodyTooLarge, a    *)
(* future dropped because the client went away).  Every atomic access of   *)
(* the code is one step here, so every interleaving of loads,              *)
(* compare-and-swaps and stores is explored.                               *)
(*                                                                         *)
(* last_failure_us is kept as the AGE of the stamp, which saturates at     *)
(* Timeout: the code only ever compares that age with the timeout.         *)
(***************************************************************************)
EXTENDS BreakerWord

CONSTANTS
  Threads,     \* request tasks of one backend
  Timeout,     \* the open timeout, in clock ticks
  MayAbandon   \* whether an admitted request may end without a recorded outcome

ASSUME TimeoutAssumption == Timeout \in Nat \ {0}
ASSUME MayAbandonAssumption == MayAbandon \in BOOLEAN

VARIABLES
  packed,        \* the AtomicU64 of state and counters
  lastFailure,   \* last_failure_us, as an age; NeverFailed stands for 0
  pc,            \* where each task is
  cur,           \* the word each task loaded (current)
  stamp,         \* the stamp each task holds in a local, as an age
  probes,        \* history: requests admitted since the circuit became Half-Open
  streak         \* history: failures recorded since the last success or Close

vars == <<packed, lastFailure, pc, cur, stamp, probes, streak>>

NeverFailed == -1
Stamp == NeverFailed .. Timeout

PC == {"idle", "allow", "stamp", "reset", "admit", "inflight", "success",
       "successCas", "clear", "store", "failure", "failureCas"}

Init ==
  /\ packed = ClosedWord
  /\ lastFailure = NeverFailed
  /\ pc = [t \in Threads |-> "idle"]
  /\ cur = [t \in Threads |-> ClosedWord]
  /\ stamp = [t \in Threads |-> NeverFailed]
  /\ probes = 0
  /\ streak = 0

Goto(t, l) == pc' = [pc EXCEPT ![t] = l]

\* The task is done with its loaded word and its stamp.
Finish(t, l) ==
  /\ Goto(t, l)
  /\ cur' = [cur EXCEPT ![t] = ClosedWord]
  /\ stamp' = [stamp EXCEPT ![t] = NeverFailed]

\* A successful compare_exchange_weak by t.
Cas(t, new) ==
  /\ packed = cur[t]
  /\ packed' = new

-----------------------------------------------------------------------------
\* allow_request

Begin(t) ==
  /\ pc[t] = "idle"
  /\ Goto(t, "allow")
  /\ UNCHANGED <<packed, lastFailure, cur, stamp, probes, streak>>

\* Faulty variants of AllowLoad: one probe slot too many; an Open circuit that
\* is never asked whether it should be reset.
ExtraSlotLoad(t) ==
  /\ pc[t] = "allow"
  /\ \/ /\ packed.state = CLOSED
        /\ Finish(t, "inflight")
     \/ /\ packed.state # CLOSED
        /\ packed.state = HALFOPEN => packed.reqs <= HalfOpenMax
        /\ Goto(t, IF packed.state = OPEN THEN "stamp" ELSE "admit")
        /\ cur' = [cur EXCEPT ![t] = packed]
        /\ UNCHANGED stamp
     \/ /\ packed.state = HALFOPEN
        /\ packed.reqs > HalfOpenMax
        /\ Finish(t, "idle")
  /\ UNCHANGED <<packed, lastFailure, probes, streak>>

NeverResetLoad(t) ==
  /\ pc[t] = "allow"
  /\ \/ /\ packed.state = CLOSED
        /\ Finish(t, "inflight")
     \/ /\ packed.state = HALFOPEN
        /\ packed.reqs < HalfOpenMax
        /\ Goto(t, "admit")
        /\ cur' = [cur EXCEPT ![t] = packed]
        /\ UNCHANGED stamp
     \/ /\ packed.state # CLOSED
        /\ packed.state = HALFOPEN => packed.reqs >= HalfOpenMax
        /\ Finish(t, "idle")
  /\ UNCHANGED <<packed, lastFailure, probes, streak>>

AllowLoad(t) ==
  /\ pc[t] = "allow"
  /\ \/ /\ packed.state = CLOSED
        /\ Finish(t, "inflight")
     \/ /\ packed.state = OPEN
        /\ Goto(t, "stamp")
        /\ cur' = [cur EXCEPT ![t] = packed]
        /\ UNCHANGED stamp
     \/ /\ packed.state = HALFOPEN
        /\ packed.reqs < HalfOpenMax
        /\ Goto(t, "admit")
        /\ cur' = [cur EXCEPT ![t] = packed]
        /\ UNCHANGED stamp
     \/ /\ packed.state = HALFOPEN
        /\ packed.reqs >= HalfOpenMax
        /\ Finish(t, "idle")
  /\ UNCHANGED <<packed, lastFailure, probes, streak>>

\* should_attempt_reset loads last_failure_us; 0 means no reset.
LoadStamp(t) ==
  /\ pc[t] = "stamp"
  /\ \/ /\ lastFailure = NeverFailed
        /\ Finish(t, "idle")
     \/ /\ lastFailure # NeverFailed
        /\ Goto(t, "reset")
        /\ stamp' = [stamp EXCEPT ![t] = lastFailure]
        /\ UNCHANGED cur
  /\ UNCHANGED <<packed, lastFailure, probes, streak>>

\* ... then reads the clock.
ResetRefused(t) ==
  /\ pc[t] = "reset"
  /\ stamp[t] < Timeout
  /\ Finish(t, "idle")
  /\ UNCHANGED <<packed, lastFailure, probes, streak>>

\* An elapsed timeout stays elapsed, so the clock reading and the
\* compare-and-swap that follows it are one step.
ResetCas(t) ==
  /\ pc[t] = "reset"
  /\ stamp[t] >= Timeout
  /\ Cas(t, ProbeWord)
  /\ probes' = 1
  /\ Finish(t, "inflight")
  /\ UNCHANGED <<lastFailure, streak>>

AdmitCas(t) ==
  /\ pc[t] = "admit"
  /\ Cas(t, AdmitWord(cur[t]))
  /\ probes' = probes + 1
  /\ Finish(t, "inflight")
  /\ UNCHANGED <<lastFailure, streak>>

\* compare_exchange_weak fails, because the word changed or spuriously; the
\* loop loads the word again.
CasFails(t) ==
  /\ \/ pc[t] = "reset" /\ stamp[t] >= Timeout /\ Finish(t, "allow")
     \/ pc[t] = "admit" /\ Finish(t, "allow")
     \/ pc[t] = "successCas" /\ Finish(t, "success")
     \/ pc[t] = "failureCas" /\ Finish(t, "failure")
  /\ UNCHANGED <<packed, lastFailure, probes, streak>>

-----------------------------------------------------------------------------
\* The request ends: with an outcome to record, or with none.

EndSuccess(t) ==
  /\ pc[t] = "inflight"
  /\ Goto(t, "success")
  /\ UNCHANGED <<packed, lastFailure, cur, stamp, probes, streak>>

\* record_failure first reads the clock.
EndFailure(t) ==
  /\ pc[t] = "inflight"
  /\ Goto(t, "store")
  /\ stamp' = [stamp EXCEPT ![t] = 0]
  /\ UNCHANGED <<packed, lastFailure, cur, probes, streak>>

Abandon(t) ==
  /\ MayAbandon
  /\ pc[t] = "inflight"
  /\ Goto(t, "idle")
  /\ UNCHANGED <<packed, lastFailure, cur, stamp, probes, streak>>

-----------------------------------------------------------------------------
\* record_success

SuccessLoad(t) ==
  /\ pc[t] = "success"
  /\ \/ /\ packed.state = OPEN
        /\ Finish(t, "idle")
     \/ /\ packed.state # OPEN
        /\ Goto(t, "successCas")
        /\ cur' = [cur EXCEPT ![t] = packed]
        /\ UNCHANGED stamp
  /\ UNCHANGED <<packed, lastFailure, probes, streak>>

SuccessCas(t) ==
  /\ pc[t] = "successCas"
  /\ Cas(t, SuccessWord(cur[t]))
  /\ Finish(t, IF cur[t].state = HALFOPEN /\ packed'.state = CLOSED THEN "clear" ELSE "idle")
  /\ streak' = 0
  /\ UNCHANGED <<lastFailure, probes>>

\* The store of last_failure_us that follows the closing compare-and-swap.
ClearStamp(t) ==
  /\ pc[t] = "clear"
  /\ lastFailure' = NeverFailed
  /\ Finish(t, "idle")
  /\ UNCHANGED <<packed, probes, streak>>

-----------------------------------------------------------------------------
\* record_failure

FailureStore(t) ==
  /\ pc[t] = "store"
  /\ lastFailure' = stamp[t]
  /\ Finish(t, "failure")
  /\ UNCHANGED <<packed, probes, streak>>

FailureLoad(t) ==
  /\ pc[t] = "failure"
  /\ \/ /\ packed.state = OPEN
        /\ Finish(t, "idle")
     \/ /\ packed.state # OPEN
        /\ Goto(t, "failureCas")
        /\ cur' = [cur EXCEPT ![t] = packed]
        /\ UNCHANGED stamp
  /\ UNCHANGED <<packed, lastFailure, probes, streak>>

FailureCas(t) ==
  /\ pc[t] = "failureCas"
  /\ Cas(t, FailureWord(cur[t]))
  /\ streak' = IF streak < Threshold THEN streak + 1 ELSE streak
  /\ Finish(t, "idle")
  /\ UNCHANGED <<lastFailure, probes>>

-----------------------------------------------------------------------------
\* The clock advances: every stamp ages.

Age(a) == IF a = NeverFailed \/ a = Timeout THEN a ELSE a + 1

Tick ==
  /\ lastFailure' = Age(lastFailure)
  /\ stamp' = [t \in Threads |-> Age(stamp[t])]
  /\ UNCHANGED <<packed, pc, cur, probes, streak>>

CasOk(t) == ResetCas(t) \/ AdmitCas(t) \/ SuccessCas(t) \/ FailureCas(t)

\* The steps a task takes without waiting for anyone.
Local(t) ==
  \/ AllowLoad(t) \/ LoadStamp(t) \/ ResetRefused(t)
  \/ SuccessLoad(t) \/ ClearStamp(t)
  \/ FailureStore(t) \/ FailureLoad(t)

End(t) == EndSuccess(t) \/ EndFailure(t) \/ Abandon(t)

Next ==
  \/ Tick
  \/ \E t \in Threads : Begin(t) \/ Local(t) \/ CasOk(t) \/ CasFails(t) \/ End(t)

Spec == Init /\ [][Next]_vars

-----------------------------------------------------------------------------
Machine == INSTANCE BreakerMachine WITH packed <- packed

\* The values of every variable: the word stays a well-formed packed word and
\* each task is at a known place of the three operations.
TypeOK ==
  /\ packed \in Word
  /\ lastFailure \in Stamp
  /\ pc \in [Threads -> PC]
  /\ cur \in [Threads -> Word]
  /\ stamp \in [Threads -> Stamp]
  /\ probes \in Nat
  /\ streak \in 0 .. Threshold

\* A Half-Open circuit lets at most half_open_max_requests requests through
\* before it closes or reopens, however the tasks in allow_request interleave.
ProbeLimit == packed.state = HALFOPEN => probes <= HalfOpenMax

\* "Consecutive failures before opening circuit": a Closed circuit has seen
\* fewer than failure_threshold failures in a row, no failure being lost to a
\* concurrent record_failure.
TripsAtThreshold == packed.state = CLOSED => streak < Threshold

\* A Closed circuit opens only on its failure_threshold-th failure in a row: a
\* record_success that other tasks raced with is never undone by them.
OpensOnStreak ==
  [][packed.state = CLOSED /\ packed'.state = OPEN => streak' = Threshold]_vars

\* The operations, for all their loads and retries, act as atomic transitions
\* of the circuit: every step is a step of the machine or leaves it alone.
AtomicTransitions == Machine!Spec

SlotsLost == packed.reqs = HalfOpenMax /\ \A t \in Threads : pc[t] # "inflight"

\* "Automatic recovery testing": an Open circuit is eventually probed, unless
\* the ClearStamp of an earlier Close wipes the stamp of the failure that
\* opened it; then nothing is left to time the reset.  A Half-Open circuit
\* closes, reopens, or has given every probe slot to requests that ended
\* without recording an outcome.
CircuitRecovers ==
  /\ packed.state = OPEN /\ lastFailure # NeverFailed
       ~> packed.state # OPEN \/ lastFailure = NeverFailed
  /\ packed.state = HALFOPEN ~> packed.state # HALFOPEN \/ SlotsLost

\* "Testing recovery - limited requests allowed": a Half-Open circuit
\* eventually closes or reopens.
HalfOpenResolves == packed.state = HALFOPEN ~> packed.state # HALFOPEN
=============================================================================
