------------------------------ MODULE RateLimiter ------------------------------
(***************************************************************************)
(* RedisRateLimiter.hit for the location updates of each user              *)
(* (core/rate_limit.py): a counter in Redis whose first increment is       *)
(* followed by an EXPIRE.  Time is only the counter's expiry, which may    *)
(* come at any moment once it is set.                                      *)
(***************************************************************************)
EXTENDS Naturals

CONSTANTS
    Callers,    \* users, each limited by a key of its own
    Limit       \* hits allowed while a counter lives

VARIABLES
    counter,    \* the value of each key; 0 is no key
    expiring,   \* the keys that have a TTL
    hit         \* what each caller's INCR has returned

limiter == <<counter, expiring, hit>>

LimiterInit ==
    /\ counter = [u \in Callers |-> 0]
    /\ expiring = {}
    /\ hit = [u \in Callers |-> 0]

\* INCR keeps the TTL of a key.
Incr(u) ==
    /\ counter' = [counter EXCEPT ![u] = @ + 1]
    /\ hit' = [hit EXCEPT ![u] = counter[u] + 1]
    /\ UNCHANGED expiring

\* A slip that LimitedRecovers and CounterExpires catch: EXPIRE only renews a TTL.
ExpireRenew(u) == UNCHANGED <<counter, expiring, hit>>

\* EXPIRE of a key that exists.
Expire(u) ==
    /\ expiring' = expiring \cup {u}
    /\ UNCHANGED <<counter, hit>>

\* The TTL runs out.
Lapse(u) ==
    /\ u \in expiring
    /\ counter' = [counter EXCEPT ![u] = 0]
    /\ expiring' = expiring \ {u}
    /\ UNCHANGED hit

Allowed(u) == hit[u] <= Limit
================================================================================
