---------------------------- MODULE CircuitBreaker ----------------------------
(***************************************************************************)
(* The failure counter of internal/deletion/circuit_breaker.go as a value: *)
(* its methods are operators on a record.  Every method holds the mutex    *)
(* for its whole body, so each is one atomic step of its caller.  The      *)
(* threshold is a parameter; the last error only fills a message and is    *)
(* left out.                                                               *)
(***************************************************************************)
EXTENDS Integers

\* NewCircuitBreaker replaces a threshold that is not positive by 1.
Threshold(maxFailures) == IF maxFailures <= 0 THEN 1 ELSE maxFailures

NewCircuitBreaker == [consecutive |-> 0, open |-> FALSE]

Allow(cb) == ~cb.open

RecordSuccess(cb) == NewCircuitBreaker

\* Mutant: it opens one failure late.
RecordFailureLate(cb, maxFailures) ==
  [consecutive |-> cb.consecutive + 1,
   open        |-> cb.open \/ cb.consecutive + 1 > Threshold(maxFailures)]

RecordFailure(cb, maxFailures) ==
  [consecutive |-> cb.consecutive + 1,
   open        |-> cb.open \/ cb.consecutive + 1 >= Threshold(maxFailures)]
===============================================================================
