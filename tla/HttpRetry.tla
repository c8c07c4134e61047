------------------------------- MODULE HttpRetry -------------------------------
(***************************************************************************)
(* The retry policy that the command line and the dashboard share: which   *)
(* outcome of an attempt is tried again, for which method, how often and   *)
(* after which delay.  Pure operators; the modules whose processes send    *)
(* requests EXTEND this one.                                               *)
(***************************************************************************)
EXTENDS Naturals

CONSTANT MaxAttempts      \* retry.maxAttempts; 3 unless a caller says otherwise

HardCap == 10             \* MAX_ATTEMPTS_HARD_CAP
ASSUME RetryAssumption == MaxAttempts \in 1..HardCap

Methods == {"GET", "PUT", "DELETE", "POST", "PATCH"}
Idempotent(method) == method \in {"GET", "PUT", "DELETE"}

\* How an attempt ends, as its sender sees it: "timeout" is the 15 s abort,
\* "network" a fetch that failed, "early" a 408 or 425, which the server sends
\* before it does anything, "throttled" a 429, "gateway" a 502, 503 or 504,
\* "error" every other answer that is not ok, and to the command line also one
\* whose body says retry_after_seconds: 0, which no server of the repository sends.
Outcomes == {"ok", "timeout", "network", "early", "throttled", "gateway", "error"}

Classified(outcome) ==
    CASE outcome = "timeout"              -> "timeout"
      [] outcome = "network"              -> "network"
      [] outcome = "throttled"            -> "429"
      [] outcome \in {"early", "gateway"} -> "5xx"
      [] OTHER                            -> "none"

\* The gate against replaying a mutation looks at answers from 500 on only: a
\* timeout, a failed fetch and a 408 are replayed whatever the method.
Retries(method, outcome, attempt) ==
    LET reason       == Classified(outcome)
        unsafeReplay == reason = "5xx" /\ outcome = "gateway" /\ ~Idempotent(method)
    IN  reason # "none" /\ ~unsafeReplay /\ attempt < MaxAttempts

(***************************************************************************)
(* Delays, in milliseconds.  The jitter is at most a fifth either way.     *)
(***************************************************************************)
BaseDelay == 250
CapDelay  == 2000
Timeout   == 15000        \* DEFAULT_TIMEOUT_MS of one attempt

LongestBackoff(attempt) ==
    LET doubled == BaseDelay * 2 ^ (attempt - 1)
        base    == IF doubled < CapDelay THEN doubled ELSE CapDelay
    IN  base + base \div 5

\* From the moment one attempt reaches the server to the end of the last one,
\* when no answer names a Retry-After.
Span[n \in 0..HardCap] ==
    IF n = 0 THEN 0
    ELSE Span[n - 1] + Timeout + (IF n = 1 THEN 0 ELSE LongestBackoff(n - 1))
================================================================================
