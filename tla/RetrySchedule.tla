--------------------------- MODULE RetrySchedule ---------------------------
(***************************************************************************)
(* The delays a job waits out between its attempts (cpp/src/manager.cpp,   *)
(* backoff_for and the call in handle_failure).                            *)
(***************************************************************************)
EXTENDS Naturals, Sequences

CONSTANTS
  Delays,       \* what initial_ms and max_ms may be configured to
  MaxFailures   \* bound on the failures of a job

ASSUME ScheduleAssumption == Delays \subseteq Nat \ {0} /\ MaxFailures \in Nat

VARIABLES
  initial_ms, max_ms,   \* config.retry_backoff_initial_ms and _max_ms
  delays                \* the delay after each failure so far

rvars == <<initial_ms, max_ms, delays>>

(* The configuration refuses an initial delay above the maximum.  *)
RInit ==
  /\ initial_ms \in Delays /\ max_ms \in Delays /\ initial_ms <= max_ms
  /\ delays = <<>>

(* Mutant: one doubling too many is not cut off.  *)
backoff_for_unclamped(attempts) ==
  LET delay[i \in 0..(attempts - 1)] ==
        IF i = 0 THEN initial_ms
        ELSE IF delay[i - 1] < max_ms THEN 2 * delay[i - 1] ELSE delay[i - 1]
  IN  delay[attempts - 1]

(* The loop doubles, attempts - 1 times, while it is below the maximum; the  *)
(* last doubling may pass it and is cut off.                                 *)
backoff_for(attempts) ==
  LET delay[i \in 0..(attempts - 1)] ==
        IF i = 0 THEN initial_ms
        ELSE IF delay[i - 1] < max_ms THEN 2 * delay[i - 1] ELSE delay[i - 1]
      last == delay[attempts - 1]
  IN  IF last > max_ms THEN max_ms ELSE last

(* handle_failure() below the ceiling: the attempt is counted first.  *)
ScheduleRetry ==
  /\ Len(delays) < MaxFailures
  /\ delays' = Append(delays, backoff_for(Len(delays) + 1))
  /\ UNCHANGED <<initial_ms, max_ms>>

RSpec == RInit /\ [][ScheduleRetry]_rvars

(* Two to the n.  *)
Power[n \in Nat] == IF n = 0 THEN 1 ELSE 2 * Power[n - 1]

(* The n-th delay is the initial one doubled n - 1 times, or the maximum     *)
(* where that would be more: exponential, bounded, and never shrinking       *)
(* (L2-RTY-005; manager.cpp:138-152).                                        *)
BackoffExact ==
  \A n \in DOMAIN delays :
    LET doubled == initial_ms * Power[n - 1]
    IN  delays[n] = IF doubled < max_ms THEN doubled ELSE max_ms
=============================================================================
