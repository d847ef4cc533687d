---------------------------- MODULE RedisCounter ----------------------------
(***************************************************************************)
(* One Redis key that holds a counter, and the commands redis.service.ts   *)
(* sends to it.  Redis runs each command atomically; two commands of one   *)
(* caller are two round trips.  Time is in coarse ticks.                   *)
(***************************************************************************)
EXTENDS Integers

Persistent == -1       \* the ttl of a key that never expires

\* A key that does not exist counts as 0 and has no life left.
Absent == [val |-> 0, ttl |-> 0]
Present(k) == k.ttl # 0

CounterType == [val : Int, ttl : {Persistent} \cup Nat]

Counter(v, t) == [val |-> v, ttl |-> t]

\* INCR and DECR create a missing key without an expiry, and keep the expiry
\* of one that exists.
Life(k) == IF Present(k) THEN k.ttl ELSE Persistent
INCR(k) == Counter(k.val + 1, Life(k))
DECR(k) == Counter(k.val - 1, Life(k))

\* EXPIRE does nothing to a missing key.
EXPIRE(k, t) == IF Present(k) THEN Counter(k.val, t) ELSE k

\* SET drops the expiry.
SET(v) == Counter(v, Persistent)

\* One tick: a key whose time is up is gone.
Elapse(k) == IF k.ttl = 1 THEN Absent
             ELSE IF k.ttl > 1 THEN Counter(k.val, k.ttl - 1)
             ELSE k
=============================================================================
