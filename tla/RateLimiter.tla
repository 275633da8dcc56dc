------------------------------ MODULE RateLimiter ------------------------------
(***************************************************************************)
(* The limiter of middleware/ratelimit.go: one counter per key (client     *)
(* address and route) and minute, kept in Redis by all servers together,   *)
(* and in a map of the server itself whenever the Redis call fails.        *)
(*                                                                         *)
(* A request fixes its minute when it forms the Redis key and may be       *)
(* counted after that minute is over; a reply may be lost after the        *)
(* counter was raised, and the request is then counted a second time, in   *)
(* the map.  The map is guarded by a mutex, so counting in it is one step. *)
(***************************************************************************)
EXTENDS Naturals, FiniteSets, Functions

CONSTANTS
    Servers,     \* server processes (a restarted server is another one)
    Keys,        \* client address and route
    Requests,    \* slots for requests being limited at one time
    Limit,       \* requests per key and minute
    Capacity,    \* size of the map from which stale buckets are dropped (512)
    UseRedis,    \* FALSE when no Redis is configured
    MaxMinute,   \* bound: last minute
    MaxAsked     \* bound: MaxAsked[k] requests of key k in all

ASSUME LimiterAssumption ==
    /\ Limit \in Nat \ {0} /\ Capacity \in Nat \ {0}
    /\ UseRedis \in BOOLEAN /\ MaxMinute \in Nat /\ MaxAsked \in [Keys -> Nat]
    /\ IsFiniteSet(Servers) /\ IsFiniteSet(Keys) /\ IsFiniteSet(Requests)

Minutes == 0..MaxMinute

VARIABLES
    minute,    \* the clock, truncated to minutes
    redis,     \* redis[k][m]: the counter of key k and minute m, 0 when not there
    touched,   \* touched[k][m]: the minute in which that counter was last raised
    local,     \* local[s]: the map of server s, from some keys to buckets
    req,       \* req[r]: what request r is doing
    asked,     \* asked[k][m]: requests that took minute m for theirs
    admitted,  \* admitted[k][m]: requests let through in minute m
    fellBack   \* fellBack[k][m]: servers whose own map counted in minute m

limiterVars == <<minute, redis, touched, local, req, asked, admitted, fellBack>>

Buckets == [window : Minutes, count : Nat]

EmptyMap == [k \in {} |-> [window |-> 0, count |-> 0]]

Idle == [phase |-> "idle"]

InFlight(phases, counts) == [phase : phases, server : Servers, key : Keys,
                             window : Minutes, count : counts]

ZeroCounts == [k \in Keys |-> [m \in Minutes |-> 0]]

Init == /\ minute = 0
        /\ redis = ZeroCounts /\ touched = ZeroCounts
        /\ local = [s \in Servers |-> EmptyMap]
        /\ req = [r \in Requests |-> Idle]
        /\ asked = ZeroCounts /\ admitted = ZeroCounts
        /\ fellBack = [k \in Keys |-> [m \in Minutes |-> {}]]

At(r, phase) == req[r].phase = phase

Asks(k, m) == asked' = [asked EXCEPT ![k][m] = @ + 1]

Total(counts) == FoldFunction(+, 0, counts)

\* increment, up to the call: the key is formed from the minute of this moment.
Arrive(r) ==
    /\ At(r, "idle")
    /\ \E s \in Servers, k \in Keys :
          /\ Total(asked[k]) < MaxAsked[k]
          /\ req' = [req EXCEPT ![r] =
                       [phase |-> IF UseRedis THEN "redis" ELSE "local", server |-> s, key |-> k,
                        window |-> minute, count |-> 0]]
          /\ Asks(k, minute)
    /\ UNCHANGED <<minute, redis, touched, local, admitted, fellBack>>

\* The pipeline of INCR and EXPIRE, executed by Redis as one transaction.
RedisIncrements(k, m) ==
    /\ redis' = [redis EXCEPT ![k][m] = @ + 1]
    /\ touched' = [touched EXCEPT ![k][m] = minute]

RedisCounts(r) ==
    /\ At(r, "redis")
    /\ RedisIncrements(req[r].key, req[r].window)
    /\ req' = [req EXCEPT ![r].phase = "decide",
                          ![r].count = redis[req[r].key][req[r].window] + 1]
    /\ UNCHANGED <<minute, local, asked, admitted, fellBack>>

\* Mutant: the error is dropped and the request goes on with a count of 0.
FallBackUncounted(r) == req' = [req EXCEPT ![r].phase = "decide"]

FallBack(r) == req' = [req EXCEPT ![r].phase = "local"]

\* The counter was raised, but the reply is lost or comes too late.
RedisReplyLost(r) ==
    /\ At(r, "redis")
    /\ RedisIncrements(req[r].key, req[r].window)
    /\ FallBack(r)
    /\ UNCHANGED <<minute, local, asked, admitted, fellBack>>

RedisFails(r) ==
    /\ At(r, "redis")
    /\ FallBack(r)
    /\ UNCHANGED <<minute, redis, touched, local, asked, admitted, fellBack>>

-------------------------------------------------------------------------------
(* incrementLocal: under the mutex.                                        *)

\* Mutant: stale buckets are dropped one entry late.
CleanupOneLate(buckets) ==
    IF Cardinality(DOMAIN buckets) <= Capacity THEN buckets
    ELSE [k \in { j \in DOMAIN buckets : ~(buckets[j].window < minute) } |-> buckets[k]]

\* Mutant: a full map is emptied.
CleanupAll(buckets) ==
    IF Cardinality(DOMAIN buckets) < Capacity THEN buckets ELSE EmptyMap

cleanupLocal(buckets) ==
    IF Cardinality(DOMAIN buckets) < Capacity THEN buckets
    ELSE [k \in { j \in DOMAIN buckets : ~(buckets[j].window < minute) } |-> buckets[k]]

\* Mutant: a bucket goes on counting in the next minute.
CountNoReset(buckets, k) == IF k \in DOMAIN buckets THEN buckets[k].count + 1 ELSE 1

\* The count of this request: one more than the bucket of this minute.
CountIn(buckets, k) ==
    IF k \in DOMAIN buckets /\ buckets[k].window = minute THEN buckets[k].count + 1 ELSE 1

IncrementLocal(r) ==
    /\ At(r, "local")
    /\ LET s == req[r].server
           k == req[r].key
           kept == cleanupLocal(local[s])
           count == CountIn(kept, k)
       IN /\ local' = [local EXCEPT ![s] =
                         [j \in DOMAIN kept \cup {k} |->
                            IF j = k THEN [window |-> minute, count |-> count] ELSE kept[j]]]
          /\ req' = [req EXCEPT ![r].phase = "decide", ![r].window = minute, ![r].count = count]
          /\ IF req[r].window = minute THEN UNCHANGED asked ELSE Asks(k, minute)
          /\ fellBack' = [fellBack EXCEPT ![k][minute] = @ \cup {s}]
    /\ UNCHANGED <<minute, redis, touched, admitted>>

\* The rest of the middleware: 429 when the count is over the limit.
Decide(r) ==
    /\ At(r, "decide")
    /\ admitted' = IF req[r].count > Limit THEN admitted
                   ELSE [admitted EXCEPT ![req[r].key][req[r].window] = @ + 1]
    /\ req' = [req EXCEPT ![r] = Idle]
    /\ UNCHANGED <<minute, redis, touched, local, asked, fellBack>>

-------------------------------------------------------------------------------
\* EXPIRE: two minutes after a counter was last raised Redis forgets it.
RedisExpires ==
    /\ \E k \in Keys, m \in Minutes :
          /\ redis[k][m] > 0 /\ minute >= touched[k][m] + 2
          /\ redis' = [redis EXCEPT ![k][m] = 0]
    /\ UNCHANGED <<minute, touched, local, req, asked, admitted, fellBack>>

\* go-redis gives a call up after a few seconds, so no call is still out when
\* the minute after its own ends.
NextMinute ==
    /\ minute < MaxMinute
    /\ \A r \in Requests : At(r, "redis") => req[r].window = minute
    /\ minute' = minute + 1
    /\ UNCHANGED <<redis, touched, local, req, asked, admitted, fellBack>>

Next == \/ \E r \in Requests : \/ Arrive(r) \/ RedisCounts(r) \/ RedisReplyLost(r)
                               \/ RedisFails(r) \/ IncrementLocal(r) \/ Decide(r)
        \/ RedisExpires
        \/ NextMinute

Spec == Init /\ [][Next]_limiterVars

-------------------------------------------------------------------------------
\* The shape of the state; a request is decided only once it has been counted.
TypeOK ==
    /\ minute \in Minutes
    /\ redis \in [Keys -> [Minutes -> Nat]] /\ touched \in [Keys -> [Minutes -> Minutes]]
    /\ DOMAIN local = Servers
    /\ \A s \in Servers : DOMAIN local[s] \subseteq Keys
                            /\ \A k \in DOMAIN local[s] : local[s][k] \in Buckets
    /\ req \in [Requests -> {Idle} \cup InFlight({"redis", "local"}, {0})
                                   \cup InFlight({"decide"}, Nat \ {0})]
    /\ asked \in [Keys -> [Minutes -> Nat]] /\ admitted \in [Keys -> [Minutes -> Nat]]
    /\ fellBack \in [Keys -> [Minutes -> SUBSET Servers]]

\* However the Redis calls fail or are answered late, and whatever is dropped
\* from the maps, a key gets no more requests through in a minute than the limit
\* once by Redis and once by each server that fell back to its own map for this
\* key and minute: while Redis answers, the limit is exact.
AdmittedWithinLimit ==
    \A k \in Keys, m \in Minutes :
        admitted[k][m] <=
            Limit * ((IF UseRedis THEN 1 ELSE 0) + Cardinality(fellBack[k][m]))

\* A request is refused only in a minute in which its key asked more often than
\* the limit: what was counted in the minutes before, by Redis or in a map, is
\* never held against it.
RefusedOnlyWhenBusy ==
    \A r \in Requests :
        At(r, "decide") /\ req[r].count > Limit
            => asked[req[r].key][req[r].window] > Limit

\* Beyond the threshold a map holds only buckets of one minute, the last one it
\* counted in: quiet keys are forgotten and cannot pile up.
StaleBucketsBounded ==
    \A s \in Servers :
        Cardinality(DOMAIN local[s]) > Capacity =>
            \A j, k \in DOMAIN local[s] : local[s][j].window = local[s][k].window
===============================================================================
