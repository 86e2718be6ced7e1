---------------------------- MODULE ShlRatelimit ----------------------------
(***************************************************************************)
(* shl_ratelimit_test() of src/shl_util.c, set up by SHL_RATELIMIT_INIT(), *)
(* against a clock that moves while and between the calls.                 *)
(***************************************************************************)
EXTENDS Integers, Sequences

CONSTANTS
    Interval,   \* r->interval, not 0 (which would set no limit)
    Burst,      \* r->burst, not 0
    MaxTime     \* time of the clock (bound of the model)

VARIABLES
    now,      \* shl_now(CLOCK_MONOTONIC), never 0
    begin,    \* r->begin
    num,      \* r->num
    granted   \* the times of the calls that returned true since the last reset

vars == <<now, begin, num, granted>>

Tick == now < MaxTime /\ now' = now + 1 /\ UNCHANGED <<begin, num, granted>>

Expired == begin = 0 \/ begin + Interval < now

\* Mutant of Counted: a new interval does not start from zero.
CountedSoFar == num

\* The calls that count against the burst.
Counted == IF Expired THEN 0 ELSE num

\* The call returns false, and changes nothing.
Refused == Counted >= Burst

shl_ratelimit_test ==
    /\ ~Refused
    /\ begin' = IF Expired THEN now ELSE begin
    /\ num' = Counted + 1
    /\ granted' = Append(granted, now)
    /\ UNCHANGED now

SHL_RATELIMIT_RESET ==
    /\ begin' = 0 /\ num' = 0
    /\ granted' = << >>
    /\ UNCHANGED now

Init == now = 1 /\ begin = 0 /\ num = 0 /\ granted = << >>

Next == Tick \/ shl_ratelimit_test \/ SHL_RATELIMIT_RESET

\* Wherever an interval is laid, at most two bursts are granted in it, which
\* is what windows that start with the first call after a pause allow; and a
\* call is refused only if a whole burst was granted during the last interval.
RateLimited ==
    /\ \A i, j \in 1..Len(granted) :
           j - i >= 2 * Burst => granted[j] - granted[i] > Interval
    /\ Refused => /\ Len(granted) >= Burst
                  /\ granted[Len(granted) - Burst + 1] >= now - Interval
=============================================================================
