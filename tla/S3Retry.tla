-------------------------------- MODULE S3Retry --------------------------------
(***************************************************************************)
(* utils/s3.rs: the retry configuration of the S3 client, under one        *)
(* operation on one object.  External, from how the code configures it:    *)
(* the SDK makes up to max_attempts attempts; by default it retries a      *)
(* transient status or no response after a backoff from 0 up to            *)
(* max_backoff and does not retry 429; the last classifier by priority     *)
(* decides; an explicit delay is capped at max_backoff.  Times are units.  *)
(***************************************************************************)
EXTENDS Naturals

CONSTANTS
    DefaultMaxBackoff,      \* the SDK's 20 s
    Delays,                 \* min_delay_ms and jitter_ms values
    MaxAttempts             \* max_attempts values go up to this

VARIABLES
    tuning,         \* S3ClientTuning: [max_attempts, min_delay, jitter], min_delay 0 without rate_limited_retry
    attempt,        \* attempts made
    answer,         \* the answer to the last one
    waited,         \* the delay before the last attempt
    outcome         \* "running", "ok" or "failed"

rvars == <<tuning, attempt, answer, waited, outcome>>

Transient == {500, 502, 503, 504}
NoResponse == 0
Answers == Transient \union {200, 404, 429, NoResponse}

Larger(a, b) == IF a > b THEN a ELSE b
Lesser(a, b) == IF a < b THEN a ELSE b

RateLimited == tuning.min_delay > 0

\* Mutant of MaxBackoff: the cap of the SDK is left as it is.
MaxBackoffDefault(t) == DefaultMaxBackoff

MaxBackoff(t) == IF t.min_delay = 0 THEN DefaultMaxBackoff ELSE Larger(t.min_delay + t.jitter, DefaultMaxBackoff)

\* The set of explicit delays of classify_retry, {} for NoActionIndicated.
classify_retry(t, status) ==
    IF t.min_delay > 0 /\ status \in Transient \union {429} THEN t.min_delay .. t.min_delay + t.jitter ELSE {}

\* What the SDK waits before the next attempt: run_after the transient classifier.
RetryDelays(t, status) ==
    IF classify_retry(t, status) # {} THEN {Lesser(d, MaxBackoff(t)) : d \in classify_retry(t, status)}
    ELSE IF status \in Transient \union {NoResponse} THEN 0 .. MaxBackoff(t) ELSE {}

RInit ==
    /\ tuning \in [max_attempts : 1 .. MaxAttempts, min_delay : Delays, jitter : Delays]
    /\ attempt = 0 /\ answer = 200 /\ waited = 0 /\ outcome = "running"

Send(delay) ==
    /\ attempt' = attempt + 1 /\ waited' = delay
    /\ \E a \in Answers :
        /\ answer' = a
        /\ outcome' = IF a = 200 THEN "ok"
                      ELSE IF RetryDelays(tuning, a) = {} \/ attempt + 1 >= tuning.max_attempts THEN "failed"
                      ELSE "running"
    /\ UNCHANGED tuning

First == attempt = 0 /\ Send(0)
Retry == outcome = "running" /\ attempt > 0 /\ \E d \in RetryDelays(tuning, answer) : Send(d)

RNext == First \/ Retry
RSpec == RInit /\ [][RNext]_rvars

(* An operation throttled with 429 is given up only after max_attempts.    *)
ThrottledIsRetried ==
    outcome = "failed" /\ answer = 429 /\ RateLimited => attempt = tuning.max_attempts
=============================================================================
