--------------------------- MODULE RateLimiterProofs ---------------------------
(***************************************************************************)
(* The rate limiter, proved for any number of servers, keys and requests,  *)
(* any limit and any sequence of lost replies and failed calls.            *)
(***************************************************************************)
EXTENDS RateLimiter, FiniteSetTheorems, TLAPS

-------------------------------------------------------------------------------
(* Types.                                                                  *)

Flights == InFlight({"redis", "local"}, {0}) \cup InFlight({"decide"}, Nat \ {0})

LEMMA FlightTyped ==
    ASSUME TypeOK, NEW r \in Requests, req[r].phase # "idle"
    PROVE  /\ req[r] \in Flights
           /\ req[r].phase \in {"redis", "local", "decide"}
           /\ req[r].server \in Servers /\ req[r].key \in Keys /\ req[r].window \in Minutes
           /\ req[r].count \in Nat
           /\ req[r].phase = "decide" => req[r].count \in Nat \ {0}
           /\ req[r].phase \in {"redis", "local"} => req[r].count = 0
<1>1. req[r] \in {Idle} \cup Flights
  BY DEF TypeOK, Flights
<1>2. req[r] \in Flights
  BY <1>1 DEF Idle
<1>3. QED
  BY <1>2 DEF Flights, InFlight

LEMMA RequestChanged ==
    ASSUME TypeOK, NEW r \in Requests, NEW new \in {Idle} \cup Flights,
           req' = [req EXCEPT ![r] = new]
    PROVE  /\ req' \in [Requests -> {Idle} \cup InFlight({"redis", "local"}, {0})
                                          \cup InFlight({"decide"}, Nat \ {0})]
           /\ req'[r] = new
           /\ \A p \in Requests : p # r => req'[p] = req[p]
BY DEF TypeOK, Flights

LEMMA CounterRaised ==
    ASSUME NEW counts, counts \in [Keys -> [Minutes -> Nat]], NEW k \in Keys, NEW m \in Minutes
    PROVE  /\ [counts EXCEPT ![k][m] = @ + 1] \in [Keys -> [Minutes -> Nat]]
           /\ \A j \in Keys, n \in Minutes :
                [counts EXCEPT ![k][m] = @ + 1][j][n]
                   = IF j = k /\ n = m THEN counts[j][n] + 1 ELSE counts[j][n]
OBVIOUS

LEMMA MovesOn ==
    ASSUME TypeOK, NEW r \in Requests, req[r].phase # "idle"
    PROVE  /\ [req[r] EXCEPT !.phase = "local"]
                = [phase |-> "local", server |-> req[r].server, key |-> req[r].key,
                   window |-> req[r].window, count |-> req[r].count]
           /\ \A count : [req[r] EXCEPT !.phase = "decide", !.count = count]
                = [phase |-> "decide", server |-> req[r].server, key |-> req[r].key,
                   window |-> req[r].window, count |-> count]
           /\ \A window, count :
                [req[r] EXCEPT !.phase = "decide", !.window = window, !.count = count]
                = [phase |-> "decide", server |-> req[r].server, key |-> req[r].key,
                   window |-> window, count |-> count]
<1>1. PICK phases, counts : req[r] \in InFlight(phases, counts)
  BY FlightTyped DEF Flights
<1>2. req[r] = [phase |-> req[r].phase, server |-> req[r].server, key |-> req[r].key,
                window |-> req[r].window, count |-> req[r].count]
  BY <1>1 DEF InFlight
<1> DEFINE f(phase, window, count) ==
      [phase |-> phase, server |-> req[r].server, key |-> req[r].key,
       window |-> window, count |-> count]
<1>3. [req[r] EXCEPT !.phase = "local"] = f("local", req[r].window, req[r].count)
  BY <1>1 DEF InFlight
<1>4. ASSUME NEW count
      PROVE  [req[r] EXCEPT !.phase = "decide", !.count = count]
                = f("decide", req[r].window, count)
  <2>1. [req[r] EXCEPT !.phase = "decide"] = f("decide", req[r].window, req[r].count)
    BY <1>1 DEF InFlight
  <2>2. [f("decide", req[r].window, req[r].count) EXCEPT !.count = count]
          = f("decide", req[r].window, count)
    OBVIOUS
  <2>3. [req[r] EXCEPT !.phase = "decide", !.count = count]
          = [[req[r] EXCEPT !.phase = "decide"] EXCEPT !.count = count]
    BY <1>1 DEF InFlight
  <2>4. QED
    BY <2>1, <2>2, <2>3
<1>5. ASSUME NEW window, NEW count
      PROVE  [req[r] EXCEPT !.phase = "decide", !.window = window, !.count = count]
                = f("decide", window, count)
  <2>1. [req[r] EXCEPT !.phase = "decide"] = f("decide", req[r].window, req[r].count)
    BY <1>1 DEF InFlight
  <2>2. [f("decide", req[r].window, req[r].count) EXCEPT !.window = window]
          = f("decide", window, req[r].count)
    OBVIOUS
  <2>3. [f("decide", window, req[r].count) EXCEPT !.count = count] = f("decide", window, count)
    OBVIOUS
  <2>4. [req[r] EXCEPT !.phase = "decide", !.window = window, !.count = count]
          = [[[req[r] EXCEPT !.phase = "decide"] EXCEPT !.window = window] EXCEPT !.count = count]
    BY <1>1 DEF InFlight
  <2>5. QED
    BY <2>1, <2>2, <2>3, <2>4
<1>6. QED
  BY <1>3, <1>4, <1>5

LEMMA BucketsTyped ==
    ASSUME TypeOK, NEW s \in Servers, NEW k \in DOMAIN local[s]
    PROVE  /\ k \in Keys /\ local[s][k] \in Buckets
           /\ local[s][k].window \in Minutes /\ local[s][k].count \in Nat
BY DEF TypeOK, Buckets

-------------------------------------------------------------------------------
(* What each step does, with the types of what it writes.                  *)

\* Only request r changes, to the record new.
Turns(r, new) ==
    /\ req' \in [Requests -> {Idle} \cup InFlight({"redis", "local"}, {0})
                                     \cup InFlight({"decide"}, Nat \ {0})]
    /\ req'[r] = new
    /\ \A p \in Requests : p # r => req'[p] = req[p]

Raises(counts, later, k, m) ==
    /\ later \in [Keys -> [Minutes -> Nat]]
    /\ \A j \in Keys, n \in Minutes :
          later[j][n] = IF j = k /\ n = m THEN counts[j][n] + 1 ELSE counts[j][n]

LEMMA ArriveDoes ==
    ASSUME TypeOK, NEW r \in Requests, Arrive(r)
    PROVE  /\ req[r].phase = "idle"
           /\ \E s \in Servers, k \in Keys, phase \in {"redis", "local"} :
                /\ Turns(r, [phase |-> phase, server |-> s, key |-> k,
                             window |-> minute, count |-> 0])
                /\ Raises(asked, asked', k, minute)
           /\ UNCHANGED <<minute, redis, touched, local, admitted>>
<1>1. PICK s \in Servers, k \in Keys, phase \in {"redis", "local"} :
        /\ req' = [req EXCEPT ![r] = [phase |-> phase, server |-> s, key |-> k,
                                      window |-> minute, count |-> 0]]
        /\ asked' = [asked EXCEPT ![k][minute] = @ + 1]
  BY DEF Arrive, Asks
<1> DEFINE new == [phase |-> phase, server |-> s, key |-> k, window |-> minute, count |-> 0]
<1>2. minute \in Minutes /\ asked \in [Keys -> [Minutes -> Nat]]
  BY DEF TypeOK
<1>3. new \in Flights
  BY <1>2 DEF Flights, InFlight
<1>4. Turns(r, new)
  BY <1>1, <1>3, RequestChanged DEF Turns
<1>5. Raises(asked, asked', k, minute)
  BY <1>1, <1>2, CounterRaised DEF Raises
<1>6. QED
  BY <1>4, <1>5 DEF Arrive, At

\* A reply that is lost or an error sends the request to the map.
LEMMA FallBackDoes ==
    ASSUME TypeOK, NEW r \in Requests, At(r, "redis"), FallBack(r)
    PROVE  Turns(r, [phase |-> "local", server |-> req[r].server, key |-> req[r].key,
                     window |-> req[r].window, count |-> 0])
<1> DEFINE new == [phase |-> "local", server |-> req[r].server, key |-> req[r].key,
                   window |-> req[r].window, count |-> 0]
<1>1. req[r].phase = "redis"
  BY DEF At
<1>2. req' = [req EXCEPT ![r] = new]
  BY <1>1, MovesOn, FlightTyped DEF FallBack
<1>3. new \in Flights
  BY <1>1, FlightTyped DEF Flights, InFlight
<1>4. QED
  BY <1>2, <1>3, RequestChanged DEF Turns

LEMMA IncrementDoes ==
    ASSUME TypeOK, NEW r \in Requests, At(r, "redis"), RedisIncrements(req[r].key, req[r].window)
    PROVE  /\ Raises(redis, redis', req[r].key, req[r].window)
           /\ touched' \in [Keys -> [Minutes -> Minutes]]
<1>1. /\ req[r].key \in Keys /\ req[r].window \in Minutes /\ minute \in Minutes
      /\ redis \in [Keys -> [Minutes -> Nat]] /\ touched \in [Keys -> [Minutes -> Minutes]]
  BY FlightTyped DEF At, TypeOK
<1>2. QED
  BY <1>1, CounterRaised DEF RedisIncrements, Raises

LEMMA RedisCountsDoes ==
    ASSUME TypeOK, NEW r \in Requests, RedisCounts(r)
    PROVE  /\ req[r].phase = "redis"
           /\ Turns(r, [phase |-> "decide", server |-> req[r].server, key |-> req[r].key,
                        window |-> req[r].window,
                        count |-> redis[req[r].key][req[r].window] + 1])
           /\ Raises(redis, redis', req[r].key, req[r].window)
           /\ touched' \in [Keys -> [Minutes -> Minutes]]
           /\ UNCHANGED <<minute, local, asked, admitted>>
<1> DEFINE n == redis[req[r].key][req[r].window] + 1
           new == [phase |-> "decide", server |-> req[r].server, key |-> req[r].key,
                   window |-> req[r].window, count |-> n]
<1>1. At(r, "redis") /\ req[r].phase = "redis"
  BY DEF RedisCounts, At
<1>2. n \in Nat \ {0}
  <2>1. redis[req[r].key][req[r].window] \in Nat
    BY <1>1, FlightTyped DEF TypeOK
  <2>2. QED
    BY <2>1
<1>3. req' = [req EXCEPT ![r] = new]
  <2>1. req' = [req EXCEPT ![r] = [req[r] EXCEPT !.phase = "decide", !.count = n]]
    BY <1>1, FlightTyped DEF RedisCounts, TypeOK
  <2> HIDE DEF n
  <2>2. [req[r] EXCEPT !.phase = "decide", !.count = n] = new
    BY <1>1, MovesOn
  <2>3. QED
    BY <2>1, <2>2
<1>4. new \in Flights
  <2> HIDE DEF n
  <2>1. QED
    BY <1>1, <1>2, FlightTyped DEF Flights, InFlight
<1>5. Turns(r, new)
  <2> HIDE DEF n
  <2>1. QED
    BY <1>3, <1>4, RequestChanged DEF Turns
<1>6. QED
  BY <1>1, <1>5, IncrementDoes DEF RedisCounts

LEMMA DecideDoes ==
    ASSUME TypeOK, NEW r \in Requests, Decide(r)
    PROVE  /\ Turns(r, Idle)
           /\ admitted' \in [Keys -> [Minutes -> Nat]]
           /\ UNCHANGED <<minute, redis, touched, local, asked>>
<1>1. req[r].phase = "decide" /\ req[r].key \in Keys /\ req[r].window \in Minutes
  BY FlightTyped DEF Decide, At
<1>2. admitted \in [Keys -> [Minutes -> Nat]]
  BY DEF TypeOK
<1>3. [admitted EXCEPT ![req[r].key][req[r].window] = @ + 1] \in [Keys -> [Minutes -> Nat]]
  BY <1>1, <1>2, CounterRaised
<1>4. Turns(r, Idle)
  BY RequestChanged DEF Decide, Turns
<1>5. QED
  BY <1>2, <1>3, <1>4 DEF Decide

-------------------------------------------------------------------------------
(* The maps.                                                               *)

LocalCount(s, k, m) ==
    IF k \in DOMAIN local[s] /\ local[s][k].window = m THEN local[s][k].count ELSE 0

LEMMA LocalCountTyped ==
    ASSUME TypeOK, NEW s \in Servers, NEW k, NEW m
    PROVE  LocalCount(s, k, m) \in Nat
BY BucketsTyped DEF LocalCount

\* A cleanup drops buckets and changes none; beyond the threshold it keeps no
\* bucket of an earlier minute.
LEMMA CleanupKeeps ==
    ASSUME TypeOK, NEW s \in Servers
    PROVE  LET kept == cleanupLocal(local[s])
           IN /\ DOMAIN kept \subseteq DOMAIN local[s]
              /\ \A j \in DOMAIN kept : kept[j] = local[s][j]
              /\ Cardinality(DOMAIN local[s]) < Capacity
                   \/ \A j \in DOMAIN kept : ~(local[s][j].window < minute)
BY DEF cleanupLocal

LEMMA IncrementLocalDoes ==
    ASSUME TypeOK, NEW r \in Requests, IncrementLocal(r)
    PROVE  \E n \in Nat \ {0}, kept \in SUBSET DOMAIN local[req[r].server] :
             LET s == req[r].server
                 k == req[r].key
             IN /\ req[r].phase = "local" /\ s \in Servers /\ k \in Keys
                /\ n <= LocalCount(s, k, minute) + 1
                /\ Turns(r, [phase |-> "decide", server |-> s, key |-> k,
                             window |-> minute, count |-> n])
                /\ DOMAIN local' = Servers
                /\ \A p \in Servers : p # s => local'[p] = local[p]
                /\ DOMAIN local'[s] = kept \cup {k}
                /\ local'[s][k] = [window |-> minute, count |-> n]
                /\ \A j \in kept : j # k => local'[s][j] = local[s][j]
                /\ Cardinality(DOMAIN local[s]) < Capacity
                     \/ \A j \in kept : ~(local[s][j].window < minute)
                /\ IF req[r].window = minute THEN UNCHANGED asked
                   ELSE Raises(asked, asked', k, minute)
                /\ UNCHANGED <<minute, redis, touched, admitted>>
<1> DEFINE s == req[r].server
           k == req[r].key
           map == cleanupLocal(local[s])
           kept == DOMAIN map
           n == CountIn(map, k)
           new == [phase |-> "decide", server |-> s, key |-> k, window |-> minute, count |-> n]
           bucket == [window |-> minute, count |-> n]
           later == [j \in kept \cup {k} |-> IF j = k THEN bucket ELSE map[j]]
<1>1. /\ req[r].phase = "local" /\ s \in Servers /\ k \in Keys /\ minute \in Minutes
      /\ asked \in [Keys -> [Minutes -> Nat]] /\ DOMAIN local = Servers
  BY FlightTyped DEF IncrementLocal, At, TypeOK
<1>2. /\ kept \subseteq DOMAIN local[s]
      /\ \A j \in kept : map[j] = local[s][j]
      /\ Cardinality(DOMAIN local[s]) < Capacity \/ \A j \in kept : ~(local[s][j].window < minute)
  BY <1>1, CleanupKeeps
<1>3. /\ local' = [local EXCEPT ![s] = later]
      /\ req' = [req EXCEPT ![r].phase = "decide", ![r].window = minute, ![r].count = n]
      /\ IF req[r].window = minute THEN UNCHANGED asked ELSE Asks(k, minute)
      /\ UNCHANGED <<minute, redis, touched, admitted>>
  BY DEF IncrementLocal
<1> HIDE DEF map
<1>4. n \in Nat \ {0} /\ n <= LocalCount(s, k, minute) + 1
  <2>1. CASE k \in kept /\ map[k].window = minute
    <3>1. n = local[s][k].count + 1 /\ LocalCount(s, k, minute) = local[s][k].count
      BY <1>2, <2>1 DEF CountIn, LocalCount
    <3>2. local[s][k].count \in Nat
      BY <1>1, <1>2, <2>1, BucketsTyped
    <3>3. QED
      BY <3>1, <3>2
  <2>2. CASE ~(k \in kept /\ map[k].window = minute)
    <3>1. n = 1
      BY <2>2 DEF CountIn
    <3>2. LocalCount(s, k, minute) \in Nat
      BY <1>1, LocalCountTyped
    <3>3. QED
      BY <3>1, <3>2
  <2>3. QED
    BY <2>1, <2>2
<1> HIDE DEF n
<1>5. Turns(r, new)
  <2>1. req' = [req EXCEPT ![r] = [req[r] EXCEPT !.phase = "decide", !.window = minute,
                                                 !.count = n]]
    BY <1>1, <1>3, FlightTyped DEF TypeOK
  <2>2. req' = [req EXCEPT ![r] = new]
    BY <1>1, <2>1, MovesOn
  <2>3. new \in Flights
    BY <1>1, <1>4 DEF Flights, InFlight
  <2>4. QED
    BY <2>2, <2>3, RequestChanged DEF Turns
<1>6. ASSUME req[r].window # minute PROVE Raises(asked, asked', k, minute)
  <2>1. asked' = [asked EXCEPT ![k][minute] = @ + 1]
    BY <1>3, <1>6 DEF Asks
  <2> HIDE DEF k
  <2>2. QED
    BY <1>1, <2>1, CounterRaised DEF Raises
<1>7. /\ DOMAIN local' = Servers /\ local'[s] = later
      /\ \A p \in Servers : p # s => local'[p] = local[p]
  BY <1>1, <1>3
<1>8. /\ DOMAIN later = kept \cup {k} /\ later[k] = bucket
      /\ \A j \in kept : j # k => later[j] = local[s][j]
  BY <1>2
<1> HIDE DEF later, kept
<1>9. QED
  BY <1>1, <1>2, <1>3, <1>4, <1>5, <1>6, <1>7, <1>8

-------------------------------------------------------------------------------
(* Requests on their way to a counter.                                     *)

ForRedis(q, k, m) == q.phase = "redis" /\ q.key = k /\ q.window = m

ForServer(q, s, k, m) ==
    q.phase \in {"redis", "local"} /\ q.server = s /\ q.key = k /\ q.window = m

AtRedis(k, m) == { r \in Requests : ForRedis(req[r], k, m) }

AtServer(s, k, m) == { r \in Requests : ForServer(req[r], s, k, m) }

One(b) == IF b THEN 1 ELSE 0

\* When one element comes or goes.
LEMMA OneChanges ==
    ASSUME NEW S \in SUBSET Requests, NEW T \in SUBSET Requests, NEW r \in Requests,
           \A p \in Requests : p # r => (p \in S <=> p \in T)
    PROVE  /\ Cardinality(S) \in Nat /\ Cardinality(T) \in Nat
           /\ Cardinality(T) + One(r \in S) = Cardinality(S) + One(r \in T)
<1>1. IsFiniteSet(S) /\ IsFiniteSet(T) /\ IsFiniteSet(S \ {r})
  BY LimiterAssumption, FS_Subset
<1>2. Cardinality(S) \in Nat /\ Cardinality(T) \in Nat /\ Cardinality(S \ {r}) \in Nat
  BY <1>1, FS_CardinalityType
<1>3. S \ {r} = T \ {r}
  OBVIOUS
<1>4. Cardinality(S \ {r}) = IF r \in S THEN Cardinality(S) - 1 ELSE Cardinality(S)
  BY <1>1, FS_RemoveElement
<1>5. Cardinality(T \ {r}) = IF r \in T THEN Cardinality(T) - 1 ELSE Cardinality(T)
  BY <1>1, FS_RemoveElement
<1> DEFINE c == Cardinality(S \ {r})
<1>6. Cardinality(S) = c + One(r \in S)
  BY <1>2, <1>4 DEF One
<1>7. Cardinality(T) = c + One(r \in T)
  <2>1. c = Cardinality(T \ {r})
    BY <1>3
  <2>2. QED
    BY <1>2, <1>5, <2>1 DEF One
<1>8. One(r \in S) \in Nat /\ One(r \in T) \in Nat /\ c \in Nat
  BY <1>2 DEF One
<1> HIDE DEF c
<1>9. QED
  BY <1>2, <1>6, <1>7, <1>8

LEMMA SomeoneThere ==
    ASSUME NEW S \in SUBSET Requests, NEW r \in S
    PROVE  Cardinality(S) \in Nat /\ Cardinality(S) >= 1
<1>1. Cardinality({}) + One(r \in S) = Cardinality(S) + One(r \in {})
        \/ \E p \in S : p # r
  <2>1. SUFFICES ASSUME \A p \in S : p = r
                 PROVE  Cardinality({}) + One(r \in S) = Cardinality(S) + One(r \in {})
    OBVIOUS
  <2>2. QED
    BY <2>1, OneChanges
<1>2. IsFiniteSet(S) /\ Cardinality(S) \in Nat
  BY LimiterAssumption, FS_Subset, FS_CardinalityType
<1>3. Cardinality(S) # 0
  BY <1>2, FS_EmptySet
<1>4. QED
  BY <1>2, <1>3

\* How the counts of waiting requests change when request r turns to new.
LEMMA WaitingChanges ==
    ASSUME TypeOK, NEW r \in Requests, NEW new, Turns(r, new), NEW k, NEW m, NEW s
    PROVE  /\ Cardinality(AtRedis(k, m)) \in Nat /\ Cardinality(AtRedis(k, m)') \in Nat
           /\ Cardinality(AtServer(s, k, m)) \in Nat /\ Cardinality(AtServer(s, k, m)') \in Nat
           /\ Cardinality(AtRedis(k, m)') + One(ForRedis(req[r], k, m))
                = Cardinality(AtRedis(k, m)) + One(ForRedis(new, k, m))
           /\ Cardinality(AtServer(s, k, m)') + One(ForServer(req[r], s, k, m))
                = Cardinality(AtServer(s, k, m)) + One(ForServer(new, s, k, m))
<1>1. \A p \in Requests : p # r =>
         /\ p \in AtRedis(k, m) <=> p \in AtRedis(k, m)'
         /\ p \in AtServer(s, k, m) <=> p \in AtServer(s, k, m)'
  BY DEF Turns, AtRedis, AtServer
<1>2. /\ r \in AtRedis(k, m) <=> ForRedis(req[r], k, m)
      /\ r \in AtRedis(k, m)' <=> ForRedis(new, k, m)
      /\ r \in AtServer(s, k, m) <=> ForServer(req[r], s, k, m)
      /\ r \in AtServer(s, k, m)' <=> ForServer(new, s, k, m)
  BY DEF Turns, AtRedis, AtServer
<1>3. /\ AtRedis(k, m) \subseteq Requests /\ AtRedis(k, m)' \subseteq Requests
      /\ AtServer(s, k, m) \subseteq Requests /\ AtServer(s, k, m)' \subseteq Requests
  BY DEF AtRedis, AtServer
<1>4. /\ Cardinality(AtRedis(k, m)) \in Nat /\ Cardinality(AtRedis(k, m)') \in Nat
      /\ Cardinality(AtRedis(k, m)') + One(r \in AtRedis(k, m))
            = Cardinality(AtRedis(k, m)) + One(r \in AtRedis(k, m)')
  BY <1>1, <1>3, OneChanges
<1>5. /\ Cardinality(AtServer(s, k, m)) \in Nat /\ Cardinality(AtServer(s, k, m)') \in Nat
      /\ Cardinality(AtServer(s, k, m)') + One(r \in AtServer(s, k, m))
            = Cardinality(AtServer(s, k, m)) + One(r \in AtServer(s, k, m)')
  BY <1>1, <1>3, OneChanges
<1>6. /\ One(r \in AtRedis(k, m)) = One(ForRedis(req[r], k, m))
      /\ One(r \in AtRedis(k, m)') = One(ForRedis(new, k, m))
      /\ One(r \in AtServer(s, k, m)) = One(ForServer(req[r], s, k, m))
      /\ One(r \in AtServer(s, k, m)') = One(ForServer(new, s, k, m))
  BY <1>2 DEF One
<1>7. QED
  BY <1>4, <1>5, <1>6

-------------------------------------------------------------------------------
(* The type invariant.                                                     *)

LEMMA FallbackNoted ==
    ASSUME TypeOK, NEW r \in Requests, IncrementLocal(r)
    PROVE  /\ fellBack' \in [Keys -> [Minutes -> SUBSET Servers]]
           /\ \A k \in Keys, m \in Minutes : fellBack[k][m] \subseteq fellBack'[k][m]
           /\ req[r].server \in fellBack'[req[r].key][minute]
<1>1. PICK s \in Servers, k0 \in Keys, now \in Minutes :
        s = req[r].server /\ k0 = req[r].key /\ now = minute
  BY FlightTyped DEF IncrementLocal, At, TypeOK
<1>2. fellBack' = [fellBack EXCEPT ![k0][now] = @ \cup {s}]
  BY <1>1 DEF IncrementLocal
<1>3. fellBack \in [Keys -> [Minutes -> SUBSET Servers]]
  BY DEF TypeOK
<1>4. /\ fellBack' \in [Keys -> [Minutes -> SUBSET Servers]]
      /\ \A k \in Keys, m \in Minutes :
            fellBack'[k][m] = IF k = k0 /\ m = now THEN fellBack[k][m] \cup {s}
                              ELSE fellBack[k][m]
  BY <1>2, <1>3
<1>5. QED
  BY <1>1, <1>4

LEMMA ExpiryDoes ==
    ASSUME TypeOK, RedisExpires
    PROVE  /\ redis' \in [Keys -> [Minutes -> Nat]]
           /\ \A k \in Keys, m \in Minutes : redis'[k][m] <= redis[k][m]
           /\ UNCHANGED <<minute, touched, local, req, asked, admitted>>
<1>1. PICK j \in Keys, n \in Minutes : redis' = [redis EXCEPT ![j][n] = 0]
  BY DEF RedisExpires
<1>2. redis \in [Keys -> [Minutes -> Nat]]
  BY DEF TypeOK
<1>3. \A k \in Keys, m \in Minutes : redis'[k][m] = IF k = j /\ m = n THEN 0 ELSE redis[k][m]
  BY <1>1, <1>2
<1>4. redis' \in [Keys -> [Minutes -> Nat]]
  BY <1>1, <1>2
<1>5. \A k \in Keys, m \in Minutes : redis[k][m] \in Nat
  BY <1>2
<1>6. QED
  BY <1>3, <1>4, <1>5 DEF RedisExpires

\* A server that fell back in a minute has done so for good.
LEMMA FallbacksStay ==
    ASSUME TypeOK, [Next]_limiterVars
    PROVE  /\ fellBack' \in [Keys -> [Minutes -> SUBSET Servers]]
           /\ \A k \in Keys, m \in Minutes : fellBack[k][m] \subseteq fellBack'[k][m]
<1>1. CASE UNCHANGED fellBack
  BY <1>1 DEF TypeOK
<1>2. ASSUME NEW r \in Requests, IncrementLocal(r)
      PROVE  /\ fellBack' \in [Keys -> [Minutes -> SUBSET Servers]]
             /\ \A k \in Keys, m \in Minutes : fellBack[k][m] \subseteq fellBack'[k][m]
  BY <1>2, FallbackNoted
<1>3. QED
  BY <1>1, <1>2 DEF Next, limiterVars, Arrive, RedisCounts, RedisReplyLost, RedisFails,
                    Decide, RedisExpires, NextMinute

LEMMA TypeHoldsAtFirst ==
    ASSUME Init
    PROVE  TypeOK
<1>1. 0 \in Minutes
  BY LimiterAssumption DEF Minutes
<1>2. ZeroCounts \in [Keys -> [Minutes -> Nat]] /\ ZeroCounts \in [Keys -> [Minutes -> Minutes]]
  BY <1>1 DEF ZeroCounts
<1>3. DOMAIN EmptyMap = {}
  BY DEF EmptyMap
<1>4. QED
  BY <1>1, <1>2, <1>3 DEF Init, TypeOK

LEMMA IncrementLocalTyped ==
    ASSUME TypeOK, NEW r \in Requests, IncrementLocal(r)
    PROVE  TypeOK'
<1> DEFINE s == req[r].server
           k == req[r].key
<1>1. PICK n \in Nat \ {0}, kept \in SUBSET DOMAIN local[s] :
        /\ s \in Servers /\ k \in Keys
        /\ Turns(r, [phase |-> "decide", server |-> s, key |-> k,
                     window |-> minute, count |-> n])
        /\ DOMAIN local' = Servers
        /\ \A p \in Servers : p # s => local'[p] = local[p]
        /\ DOMAIN local'[s] = kept \cup {k}
        /\ local'[s][k] = [window |-> minute, count |-> n]
        /\ \A j \in kept : j # k => local'[s][j] = local[s][j]
        /\ IF req[r].window = minute THEN UNCHANGED asked
           ELSE Raises(asked, asked', k, minute)
        /\ UNCHANGED <<minute, redis, touched, admitted>>
  BY IncrementLocalDoes
<1>2. [window |-> minute, count |-> n] \in Buckets
  BY DEF TypeOK, Buckets
<1> HIDE DEF s, k
<1>3. \A p \in Servers : DOMAIN local'[p] \subseteq Keys
                            /\ \A j \in DOMAIN local'[p] : local'[p][j] \in Buckets
  <2>1. SUFFICES ASSUME NEW p \in Servers
                 PROVE  DOMAIN local'[p] \subseteq Keys
                        /\ \A j \in DOMAIN local'[p] : local'[p][j] \in Buckets
    OBVIOUS
  <2>2. CASE p # s
    BY <1>1, <2>2 DEF TypeOK
  <2>3. CASE p = s
    BY <1>1, <1>2, <2>3 DEF TypeOK
  <2>4. QED
    BY <2>2, <2>3
<1>4. asked' \in [Keys -> [Minutes -> Nat]]
  BY <1>1 DEF TypeOK, Raises
<1>5. QED
  BY <1>1, <1>3, <1>4, FallbackNoted DEF TypeOK, Turns

LEMMA TypeIsKept ==
    ASSUME TypeOK, [Next]_limiterVars
    PROVE  TypeOK'
<1>0. fellBack' \in [Keys -> [Minutes -> SUBSET Servers]]
  BY FallbacksStay
<1>1. ASSUME NEW r \in Requests, Arrive(r)
      PROVE  TypeOK'
  BY <1>0, <1>1, ArriveDoes DEF TypeOK, Turns, Raises
<1>2. ASSUME NEW r \in Requests, RedisCounts(r)
      PROVE  TypeOK'
  BY <1>0, <1>2, RedisCountsDoes DEF TypeOK, Turns, Raises
<1>3. ASSUME NEW r \in Requests, RedisReplyLost(r)
      PROVE  TypeOK'
  BY <1>0, <1>3, FallBackDoes, IncrementDoes DEF RedisReplyLost, TypeOK, Turns, Raises
<1>4. ASSUME NEW r \in Requests, RedisFails(r)
      PROVE  TypeOK'
  BY <1>0, <1>4, FallBackDoes DEF RedisFails, TypeOK, Turns
<1>5. ASSUME NEW r \in Requests, IncrementLocal(r)
      PROVE  TypeOK'
  BY <1>5, IncrementLocalTyped
<1>6. ASSUME NEW r \in Requests, Decide(r)
      PROVE  TypeOK'
  BY <1>0, <1>6, DecideDoes DEF TypeOK, Turns
<1>7. CASE RedisExpires
  BY <1>0, <1>7, ExpiryDoes DEF TypeOK
<1>8. CASE NextMinute
  <2>1. minute' \in Minutes
    BY <1>8, LimiterAssumption DEF NextMinute, TypeOK, Minutes
  <2>2. QED
    BY <1>0, <1>8, <2>1 DEF NextMinute, TypeOK
<1>9. CASE UNCHANGED limiterVars
  BY <1>9 DEF limiterVars, TypeOK
<1>10. QED
  BY <1>0, <1>1, <1>2, <1>3, <1>4, <1>5, <1>6, <1>7, <1>8, <1>9 DEF Next

-------------------------------------------------------------------------------
(* Stale buckets.  No bucket is of a minute to come, so the cleanup, which *)
(* keeps what is not older than this minute, keeps buckets of this minute. *)

NotAhead ==
    \A s \in Servers : \A k \in DOMAIN local[s] : local[s][k].window <= minute

Bounded == NotAhead /\ StaleBucketsBounded

LEMMA IncrementLocalBounded ==
    ASSUME TypeOK, Bounded, NEW r \in Requests, IncrementLocal(r)
    PROVE  Bounded'
<1> DEFINE s == req[r].server
           k == req[r].key
<1>1. PICK n \in Nat \ {0}, kept \in SUBSET DOMAIN local[s] :
        /\ s \in Servers /\ k \in Keys
        /\ DOMAIN local' = Servers
        /\ \A p \in Servers : p # s => local'[p] = local[p]
        /\ DOMAIN local'[s] = kept \cup {k}
        /\ local'[s][k] = [window |-> minute, count |-> n]
        /\ \A j \in kept : j # k => local'[s][j] = local[s][j]
        /\ Cardinality(DOMAIN local[s]) < Capacity
             \/ \A j \in kept : ~(local[s][j].window < minute)
        /\ UNCHANGED minute
  BY IncrementLocalDoes
<1> HIDE DEF s, k
<1>2. minute \in Nat /\ \A p \in Servers : \A j \in DOMAIN local[p] : local[p][j].window \in Nat
  <2>1. minute \in Minutes /\ Minutes \subseteq Nat
    BY LimiterAssumption DEF TypeOK, Minutes
  <2>2. QED
    BY <2>1, BucketsTyped
<1>3. local'[s][k].window = minute
  BY <1>1
<1>4. NotAhead'
  <2>1. SUFFICES ASSUME NEW p \in Servers, NEW j \in DOMAIN local'[p]
                 PROVE  local'[p][j].window <= minute
    BY <1>1 DEF NotAhead
  <2>2. CASE p = s /\ j = k
    BY <1>2, <1>3, <2>2
  <2>3. CASE ~(p = s /\ j = k)
    <3>1. j \in DOMAIN local[p] /\ local'[p][j] = local[p][j]
      BY <1>1, <2>3
    <3>2. QED
      BY <3>1 DEF Bounded, NotAhead
  <2>4. QED
    BY <2>2, <2>3
<1>5. ASSUME NEW p \in Servers, Cardinality(DOMAIN local'[p]) > Capacity,
             NEW i \in DOMAIN local'[p], NEW j \in DOMAIN local'[p]
      PROVE  local'[p][i].window = local'[p][j].window
  <2>1. CASE p # s
    <3>1. local'[p] = local[p]
      BY <1>1, <2>1
    <3>2. QED
      BY <1>5, <3>1 DEF Bounded, StaleBucketsBounded
  <2>2. CASE p = s
    <3>1. IsFiniteSet(DOMAIN local[s]) /\ IsFiniteSet(kept)
      BY <1>1, LimiterAssumption, FS_Subset DEF TypeOK
    <3>2. /\ Cardinality(kept) \in Nat /\ Cardinality(DOMAIN local[s]) \in Nat
          /\ Cardinality(kept) <= Cardinality(DOMAIN local[s])
      BY <3>1, FS_Subset, FS_CardinalityType
    <3>3. Cardinality(kept \cup {k}) <= Cardinality(kept) + 1
      <4>1. Cardinality(kept \cup {k}) = IF k \in kept THEN Cardinality(kept)
                                         ELSE Cardinality(kept) + 1
        BY <3>1, FS_AddElement
      <4>2. QED
        BY <3>2, <4>1
    <3>4. Cardinality(kept \cup {k}) \in Nat
      <4>1. IsFiniteSet(kept \cup {k})
        BY <3>1, FS_AddElement
      <4>2. QED
        BY <4>1, FS_CardinalityType
    <3>5. Cardinality(kept \cup {k}) > Capacity
      BY <1>1, <1>5, <2>2
    <3>6. ~(Cardinality(DOMAIN local[s]) < Capacity)
      BY <3>2, <3>3, <3>4, <3>5, LimiterAssumption
    <3>7. \A h \in kept : local[s][h].window = minute
      <4>1. SUFFICES ASSUME NEW h \in kept
                     PROVE  local[s][h].window = minute
        OBVIOUS
      <4>2. ~(local[s][h].window < minute) /\ local[s][h].window <= minute
        BY <1>1, <3>6 DEF Bounded, NotAhead
      <4>3. local[s][h].window \in Nat
        BY <1>1, <1>2
      <4>4. QED
        BY <1>2, <4>2, <4>3
    <3>8. \A h \in kept \cup {k} : local'[s][h].window = minute
      BY <1>1, <1>3, <3>7
    <3>9. QED
      BY <1>1, <2>2, <3>8
  <2>3. QED
    BY <2>1, <2>2
<1>6. StaleBucketsBounded'
  BY <1>1, <1>5 DEF StaleBucketsBounded
<1>7. QED
  BY <1>4, <1>6 DEF Bounded

LEMMA BoundedAtFirst ==
    ASSUME Init
    PROVE  Bounded
<1>1. DOMAIN EmptyMap = {}
  BY DEF EmptyMap
<1>2. \A s \in Servers : DOMAIN local[s] = {}
  BY <1>1 DEF Init
<1>3. QED
  BY <1>2 DEF Bounded, NotAhead, StaleBucketsBounded

LEMMA BoundedIsKept ==
    ASSUME TypeOK, Bounded, [Next]_limiterVars
    PROVE  Bounded'
<1>1. ASSUME UNCHANGED <<local, minute>>
      PROVE  Bounded'
  BY <1>1 DEF Bounded, NotAhead, StaleBucketsBounded
<1>2. ASSUME NEW r \in Requests, IncrementLocal(r)
      PROVE  Bounded'
  BY <1>2, IncrementLocalBounded
<1>3. CASE NextMinute
  <2>1. \A s \in Servers : \A k \in DOMAIN local[s] : local[s][k].window \in Nat
    BY BucketsTyped, LimiterAssumption DEF Minutes
  <2>2. minute \in Nat /\ minute' = minute + 1 /\ local' = local
    BY <1>3, LimiterAssumption DEF NextMinute, TypeOK, Minutes
  <2>3. NotAhead'
    BY <2>1, <2>2 DEF Bounded, NotAhead
  <2>4. StaleBucketsBounded'
    BY <2>2 DEF Bounded, StaleBucketsBounded
  <2>5. QED
    BY <2>3, <2>4 DEF Bounded
<1>4. QED
  BY <1>1, <1>2, <1>3
  DEF Next, Arrive, RedisCounts, RedisReplyLost, RedisFails, Decide, RedisExpires, limiterVars

-------------------------------------------------------------------------------
(* Counters.  A request that took a minute for its own is counted for it   *)
(* at most once by Redis and once by its server, so each counter, with the *)
(* requests still on their way to it, stays within what was asked.         *)

RedisWithinAsked ==
    \A k \in Keys, m \in Minutes : redis[k][m] + Cardinality(AtRedis(k, m)) <= asked[k][m]

MapsWithinAsked ==
    \A s \in Servers, k \in Keys, m \in Minutes :
        LocalCount(s, k, m) + Cardinality(AtServer(s, k, m)) <= asked[k][m]

CountsWithinAsked ==
    \A r \in Requests :
        At(r, "decide") => req[r].count <= asked[req[r].key][req[r].window]

Honest == RedisWithinAsked /\ MapsWithinAsked /\ CountsWithinAsked

LEMMA WaitingTyped ==
    ASSUME NEW s, NEW k, NEW m
    PROVE  Cardinality(AtRedis(k, m)) \in Nat /\ Cardinality(AtServer(s, k, m)) \in Nat
<1>1. AtRedis(k, m) \subseteq Requests /\ AtServer(s, k, m) \subseteq Requests
  BY DEF AtRedis, AtServer
<1>2. QED
  BY <1>1, LimiterAssumption, FS_Subset, FS_CardinalityType

\* No count is larger than before, no one joins the waiting, and no request
\* comes to its decision.
LEMMA QuietSteps ==
    ASSUME TypeOK, TypeOK', Honest,
           \A k \in Keys, m \in Minutes : redis'[k][m] <= redis[k][m],
           UNCHANGED <<local, req, asked>>
    PROVE  Honest'
<1>1. /\ \A k, m : AtRedis(k, m)' = AtRedis(k, m)
      /\ \A s, k, m : AtServer(s, k, m)' = AtServer(s, k, m)
      /\ \A s, k, m : LocalCount(s, k, m)' = LocalCount(s, k, m)
  BY DEF AtRedis, AtServer, LocalCount
<1>2. RedisWithinAsked'
  <2>1. SUFFICES ASSUME NEW k \in Keys, NEW m \in Minutes
                 PROVE  redis'[k][m] + Cardinality(AtRedis(k, m)') <= asked'[k][m]
    BY DEF RedisWithinAsked
  <2>2. /\ redis[k][m] \in Nat /\ redis'[k][m] \in Nat /\ asked[k][m] \in Nat
        /\ Cardinality(AtRedis(k, m)) \in Nat
    <3>1. /\ redis \in [Keys -> [Minutes -> Nat]] /\ redis' \in [Keys -> [Minutes -> Nat]]
          /\ asked \in [Keys -> [Minutes -> Nat]]
      BY DEF TypeOK
    <3>2. QED
      BY <3>1, WaitingTyped
  <2>3. redis[k][m] + Cardinality(AtRedis(k, m)) <= asked[k][m]
    BY DEF Honest, RedisWithinAsked
  <2>4. QED
    BY <1>1, <2>2, <2>3
<1>3. MapsWithinAsked'
  BY <1>1 DEF Honest, MapsWithinAsked
<1>4. CountsWithinAsked'
  BY DEF Honest, CountsWithinAsked, At
<1>5. QED
  BY <1>2, <1>3, <1>4 DEF Honest

AskedGrows == \A k \in Keys, m \in Minutes : asked[k][m] <= asked'[k][m]

LEMMA AskedTyped ==
    ASSUME TypeOK, TypeOK', NEW k \in Keys, NEW m \in Minutes
    PROVE  /\ redis[k][m] \in Nat /\ redis'[k][m] \in Nat
           /\ asked[k][m] \in Nat /\ asked'[k][m] \in Nat
<1>1. /\ redis \in [Keys -> [Minutes -> Nat]] /\ redis' \in [Keys -> [Minutes -> Nat]]
      /\ asked \in [Keys -> [Minutes -> Nat]] /\ asked' \in [Keys -> [Minutes -> Nat]]
  BY DEF TypeOK
<1>2. QED
  BY <1>1

LEMMA RaisingGrows ==
    ASSUME TypeOK, TypeOK',
           UNCHANGED asked \/ \E k \in Keys, m \in Minutes : Raises(asked, asked', k, m)
    PROVE  AskedGrows
<1>1. SUFFICES ASSUME NEW j \in Keys, NEW n \in Minutes
               PROVE  asked[j][n] <= asked'[j][n]
  BY DEF AskedGrows
<1>2. asked[j][n] \in Nat
  BY AskedTyped
<1>3. asked'[j][n] \in {asked[j][n], asked[j][n] + 1}
  BY DEF Raises
<1>4. QED
  BY <1>2, <1>3

\* A request that is not on its way to Redis after the step.
LEMMA RedisWaitsLess ==
    ASSUME TypeOK, NEW r \in Requests, NEW new, Turns(r, new), new.phase # "redis",
           NEW k, NEW m
    PROVE  /\ Cardinality(AtRedis(k, m)) \in Nat /\ Cardinality(AtRedis(k, m)') \in Nat
           /\ Cardinality(AtRedis(k, m)') <= Cardinality(AtRedis(k, m))
           /\ ForRedis(req[r], k, m)
                => Cardinality(AtRedis(k, m)') + 1 = Cardinality(AtRedis(k, m))
<1> DEFINE c == Cardinality(AtRedis(k, m))
           d == Cardinality(AtRedis(k, m)')
           left == One(ForRedis(req[r], k, m))
           came == One(ForRedis(new, k, m))
<1>1. c \in Nat /\ d \in Nat /\ d + left = c + came
  BY WaitingChanges
<1>2. came = 0
  BY DEF One, ForRedis
<1>3. left \in {0, 1} /\ (ForRedis(req[r], k, m) => left = 1)
  BY DEF One
<1> HIDE DEF c, d, left, came
<1>4. d <= c /\ (left = 1 => d + 1 = c)
  BY <1>1, <1>2, <1>3
<1>5. QED
  BY <1>1, <1>3, <1>4 DEF c, d

\* A request that is on its way to a map after the step only if it was before.
LEMMA ServerWaitsLess ==
    ASSUME TypeOK, NEW r \in Requests, NEW new, Turns(r, new),
           NEW s, NEW k, NEW m, ForServer(new, s, k, m) => ForServer(req[r], s, k, m)
    PROVE  /\ Cardinality(AtServer(s, k, m)) \in Nat /\ Cardinality(AtServer(s, k, m)') \in Nat
           /\ Cardinality(AtServer(s, k, m)') <= Cardinality(AtServer(s, k, m))
           /\ new.phase = "decide" /\ ForServer(req[r], s, k, m)
                => Cardinality(AtServer(s, k, m)') + 1 = Cardinality(AtServer(s, k, m))
<1> DEFINE c == Cardinality(AtServer(s, k, m))
           d == Cardinality(AtServer(s, k, m)')
           left == One(ForServer(req[r], s, k, m))
           came == One(ForServer(new, s, k, m))
<1>1. c \in Nat /\ d \in Nat /\ d + left = c + came
  BY WaitingChanges
<1>2. came \in {0, 1} /\ (new.phase = "decide" => came = 0)
  BY DEF One, ForServer
<1>3. left \in {0, 1} /\ (ForServer(req[r], s, k, m) => left = 1)
  BY DEF One
<1>4. came = 1 => left = 1
  BY DEF One
<1> HIDE DEF c, d, left, came
<1>5. d <= c /\ (left = 1 /\ came = 0 => d + 1 = c)
  BY <1>1, <1>2, <1>3, <1>4
<1>6. QED
  BY <1>1, <1>2, <1>3, <1>5 DEF c, d

LEMMA RedisStays ==
    ASSUME TypeOK, TypeOK', RedisWithinAsked, AskedGrows, UNCHANGED redis,
           NEW r \in Requests, NEW new, Turns(r, new), new.phase # "redis"
    PROVE  RedisWithinAsked'
<1>1. SUFFICES ASSUME NEW k \in Keys, NEW m \in Minutes
               PROVE  redis'[k][m] + Cardinality(AtRedis(k, m)') <= asked'[k][m]
  BY DEF RedisWithinAsked
<1>2. redis[k][m] + Cardinality(AtRedis(k, m)) <= asked[k][m] /\ asked[k][m] <= asked'[k][m]
  BY DEF RedisWithinAsked, AskedGrows
<1>3. /\ Cardinality(AtRedis(k, m)) \in Nat /\ Cardinality(AtRedis(k, m)') \in Nat
      /\ Cardinality(AtRedis(k, m)') <= Cardinality(AtRedis(k, m))
  BY RedisWaitsLess
<1>4. QED
  BY <1>2, <1>3, AskedTyped

LEMMA RedisCountedOnce ==
    ASSUME TypeOK, TypeOK', RedisWithinAsked, UNCHANGED asked,
           NEW r \in Requests, NEW new, Turns(r, new), new.phase # "redis",
           req[r].phase = "redis", Raises(redis, redis', req[r].key, req[r].window)
    PROVE  RedisWithinAsked'
<1>1. SUFFICES ASSUME NEW k \in Keys, NEW m \in Minutes
               PROVE  redis'[k][m] + Cardinality(AtRedis(k, m)') <= asked'[k][m]
  BY DEF RedisWithinAsked
<1>2. redis[k][m] + Cardinality(AtRedis(k, m)) <= asked[k][m]
  BY DEF RedisWithinAsked
<1>3. /\ Cardinality(AtRedis(k, m)) \in Nat /\ Cardinality(AtRedis(k, m)') \in Nat
      /\ Cardinality(AtRedis(k, m)') <= Cardinality(AtRedis(k, m))
      /\ req[r].key = k /\ req[r].window = m
            => Cardinality(AtRedis(k, m)') + 1 = Cardinality(AtRedis(k, m))
  BY RedisWaitsLess DEF ForRedis
<1>4. redis'[k][m] = IF k = req[r].key /\ m = req[r].window THEN redis[k][m] + 1 ELSE redis[k][m]
  BY DEF Raises
<1>5. CASE k = req[r].key /\ m = req[r].window
  BY <1>2, <1>3, <1>4, <1>5, AskedTyped
<1>6. CASE ~(k = req[r].key /\ m = req[r].window)
  BY <1>2, <1>3, <1>4, <1>6, AskedTyped
<1>7. QED
  BY <1>5, <1>6

LEMMA MapsStay ==
    ASSUME TypeOK, TypeOK', MapsWithinAsked, AskedGrows, UNCHANGED local,
           NEW r \in Requests, NEW new, Turns(r, new),
           \A s, k, m : ForServer(new, s, k, m) => ForServer(req[r], s, k, m)
    PROVE  MapsWithinAsked'
<1>1. SUFFICES ASSUME NEW s \in Servers, NEW k \in Keys, NEW m \in Minutes
               PROVE  LocalCount(s, k, m)' + Cardinality(AtServer(s, k, m)') <= asked'[k][m]
  BY DEF MapsWithinAsked
<1>2. /\ LocalCount(s, k, m) + Cardinality(AtServer(s, k, m)) <= asked[k][m]
      /\ asked[k][m] <= asked'[k][m]
  BY DEF MapsWithinAsked, AskedGrows
<1>3. /\ Cardinality(AtServer(s, k, m)) \in Nat /\ Cardinality(AtServer(s, k, m)') \in Nat
      /\ Cardinality(AtServer(s, k, m)') <= Cardinality(AtServer(s, k, m))
  BY ServerWaitsLess
<1>4. LocalCount(s, k, m)' = LocalCount(s, k, m) /\ LocalCount(s, k, m) \in Nat
  BY LocalCountTyped DEF LocalCount
<1>5. QED
  BY <1>2, <1>3, <1>4, AskedTyped

LEMMA CountsStay ==
    ASSUME TypeOK, TypeOK', CountsWithinAsked, AskedGrows,
           NEW r \in Requests, NEW new, Turns(r, new),
           new.phase = "decide" => new.count <= asked'[new.key][new.window]
    PROVE  CountsWithinAsked'
<1>1. SUFFICES ASSUME NEW p \in Requests, req'[p].phase = "decide"
               PROVE  req'[p].count <= asked'[req'[p].key][req'[p].window]
  BY DEF CountsWithinAsked, At
<1>2. CASE p = r
  BY <1>1, <1>2 DEF Turns
<1>3. CASE p # r
  <2>1. req'[p] = req[p] /\ req[p].phase = "decide"
    BY <1>1, <1>3 DEF Turns
  <2>2. req[p].count \in Nat /\ req[p].key \in Keys /\ req[p].window \in Minutes
    BY <2>1, FlightTyped
  <2>3. req[p].count <= asked[req[p].key][req[p].window]
    BY <2>1 DEF CountsWithinAsked, At
  <2>4. asked[req[p].key][req[p].window] <= asked'[req[p].key][req[p].window]
    BY <2>2 DEF AskedGrows
  <2>5. QED
    BY <2>1, <2>2, <2>3, <2>4, AskedTyped
<1>4. QED
  BY <1>2, <1>3

LEMMA ArriveHonest ==
    ASSUME TypeOK, TypeOK', Honest, NEW r \in Requests, Arrive(r)
    PROVE  Honest'
<1>1. PICK s0 \in Servers, k0 \in Keys, phase \in {"redis", "local"} :
        /\ Turns(r, [phase |-> phase, server |-> s0, key |-> k0,
                     window |-> minute, count |-> 0])
        /\ Raises(asked, asked', k0, minute)
  BY ArriveDoes
<1> DEFINE new == [phase |-> phase, server |-> s0, key |-> k0, window |-> minute, count |-> 0]
<1>2. req[r].phase = "idle" /\ UNCHANGED <<minute, redis, local>> /\ minute \in Minutes
  BY ArriveDoes DEF TypeOK
<1>3. AskedGrows
  BY <1>1, <1>2, RaisingGrows
<1>4. /\ new.phase = phase /\ new.server = s0 /\ new.key = k0 /\ new.window = minute
      /\ new.phase # "decide" /\ Turns(r, new)
  BY <1>1
<1> HIDE DEF new
<1>5. RedisWithinAsked'
  <2>1. SUFFICES ASSUME NEW k \in Keys, NEW m \in Minutes
                 PROVE  redis'[k][m] + Cardinality(AtRedis(k, m)') <= asked'[k][m]
    BY DEF RedisWithinAsked
  <2> DEFINE c == Cardinality(AtRedis(k, m))
             d == Cardinality(AtRedis(k, m)')
             left == One(ForRedis(req[r], k, m))
             came == One(ForRedis(new, k, m))
  <2>2. c \in Nat /\ d \in Nat /\ d + left = c + came
    BY <1>4, WaitingChanges
  <2>3. left = 0
    BY <1>2 DEF One, ForRedis
  <2>4. came \in {0, 1} /\ (came = 1 => k = k0 /\ m = minute)
    BY <1>4 DEF One, ForRedis
  <2>5. asked'[k][m] = IF k = k0 /\ m = minute THEN asked[k][m] + 1 ELSE asked[k][m]
    BY <1>1 DEF Raises
  <2>6. redis[k][m] + c <= asked[k][m] /\ redis'[k][m] = redis[k][m]
    BY <1>2 DEF Honest, RedisWithinAsked
  <2> HIDE DEF c, d, left, came
  <2>7. redis'[k][m] + d <= asked'[k][m]
    BY <2>2, <2>3, <2>4, <2>5, <2>6, AskedTyped
  <2>8. QED
    BY <2>7 DEF d
<1>6. MapsWithinAsked'
  <2>1. SUFFICES ASSUME NEW s \in Servers, NEW k \in Keys, NEW m \in Minutes
                 PROVE  LocalCount(s, k, m)' + Cardinality(AtServer(s, k, m)') <= asked'[k][m]
    BY DEF MapsWithinAsked
  <2> DEFINE c == Cardinality(AtServer(s, k, m))
             d == Cardinality(AtServer(s, k, m)')
             left == One(ForServer(req[r], s, k, m))
             came == One(ForServer(new, s, k, m))
             n == LocalCount(s, k, m)
  <2>2. c \in Nat /\ d \in Nat /\ d + left = c + came
    BY <1>4, WaitingChanges
  <2>3. left = 0
    BY <1>2 DEF One, ForServer
  <2>4. came \in {0, 1} /\ (came = 1 => k = k0 /\ m = minute)
    BY <1>4 DEF One, ForServer
  <2>5. asked'[k][m] = IF k = k0 /\ m = minute THEN asked[k][m] + 1 ELSE asked[k][m]
    BY <1>1 DEF Raises
  <2>6. n \in Nat /\ n + c <= asked[k][m]
    BY LocalCountTyped DEF Honest, MapsWithinAsked
  <2>7. LocalCount(s, k, m)' = n
    BY <1>2 DEF LocalCount
  <2> HIDE DEF c, d, left, came, n
  <2>8. n + d <= asked'[k][m]
    BY <2>2, <2>3, <2>4, <2>5, <2>6, AskedTyped
  <2>9. QED
    BY <2>7, <2>8 DEF d
<1>7. CountsWithinAsked'
  BY <1>3, <1>4, CountsStay DEF Honest
<1>8. QED
  BY <1>5, <1>6, <1>7 DEF Honest

LEMMA RedisCountsHonest ==
    ASSUME TypeOK, TypeOK', Honest, NEW r \in Requests, RedisCounts(r)
    PROVE  Honest'
<1> DEFINE k0 == req[r].key
           m0 == req[r].window
           new == [phase |-> "decide", server |-> req[r].server, key |-> k0,
                   window |-> m0, count |-> redis[k0][m0] + 1]
<1>1. /\ req[r].phase = "redis" /\ Turns(r, new) /\ Raises(redis, redis', k0, m0)
      /\ UNCHANGED <<minute, local, asked>>
  BY RedisCountsDoes
<1>2. k0 \in Keys /\ m0 \in Minutes
  BY <1>1, FlightTyped
<1>3. AskedGrows
  BY <1>1, RaisingGrows
<1>4. /\ new.phase = "decide" /\ new.key = k0 /\ new.window = m0
      /\ new.count = redis[k0][m0] + 1
  OBVIOUS
<1> HIDE DEF new
<1>5. redis[k0][m0] + 1 <= asked'[k0][m0]
  <2>1. redis[k0][m0] + Cardinality(AtRedis(k0, m0)) <= asked[k0][m0]
    BY <1>2 DEF Honest, RedisWithinAsked
  <2>2. r \in AtRedis(k0, m0) /\ AtRedis(k0, m0) \subseteq Requests
    BY <1>1 DEF AtRedis, ForRedis
  <2>3. Cardinality(AtRedis(k0, m0)) \in Nat /\ Cardinality(AtRedis(k0, m0)) >= 1
    BY <2>2, SomeoneThere
  <2> HIDE DEF k0, m0
  <2>4. QED
    BY <1>1, <1>2, <2>1, <2>3, AskedTyped
<1>6. RedisWithinAsked'
  BY <1>1, <1>4, RedisCountedOnce DEF Honest
<1>7. MapsWithinAsked'
  <2>1. \A s, k, m : ~ForServer(new, s, k, m)
    BY <1>4 DEF ForServer
  <2>2. QED
    BY <1>1, <1>3, <2>1, MapsStay DEF Honest
<1>8. CountsWithinAsked'
  BY <1>1, <1>3, <1>4, <1>5, CountsStay DEF Honest
<1>9. QED
  BY <1>6, <1>7, <1>8 DEF Honest

\* The counter was raised or not; the request turns to the map.
LEMMA FallBackHonest ==
    ASSUME TypeOK, TypeOK', Honest, NEW r \in Requests, RedisReplyLost(r) \/ RedisFails(r)
    PROVE  Honest'
<1> DEFINE new == [phase |-> "local", server |-> req[r].server, key |-> req[r].key,
                   window |-> req[r].window, count |-> 0]
<1>1. /\ At(r, "redis") /\ FallBack(r) /\ req[r].phase = "redis"
      /\ UNCHANGED <<minute, local, asked>>
  BY DEF RedisReplyLost, RedisFails, At
<1>2. Turns(r, new)
  BY <1>1, FallBackDoes
<1>3. AskedGrows
  BY <1>1, RaisingGrows
<1>4. new.phase = "local" /\ \A s, k, m : ForServer(new, s, k, m) => ForServer(req[r], s, k, m)
  BY <1>1 DEF ForServer
<1> HIDE DEF new
<1>5. RedisWithinAsked'
  <2>1. CASE RedisReplyLost(r)
    <3>1. Raises(redis, redis', req[r].key, req[r].window)
      BY <1>1, <2>1, IncrementDoes DEF RedisReplyLost
    <3>2. QED
      BY <1>1, <1>2, <1>4, <3>1, RedisCountedOnce DEF Honest
  <2>2. CASE RedisFails(r)
    BY <1>2, <1>3, <1>4, <2>2, RedisStays DEF Honest, RedisFails
  <2>3. QED
    BY <2>1, <2>2
<1>6. MapsWithinAsked'
  BY <1>1, <1>2, <1>3, <1>4, MapsStay DEF Honest
<1>7. CountsWithinAsked'
  BY <1>2, <1>3, <1>4, CountsStay DEF Honest
<1>8. QED
  BY <1>5, <1>6, <1>7 DEF Honest

LEMMA DecideHonest ==
    ASSUME TypeOK, TypeOK', Honest, NEW r \in Requests, Decide(r)
    PROVE  Honest'
<1>1. Turns(r, Idle) /\ UNCHANGED <<minute, redis, local, asked>>
  BY DecideDoes
<1>2. AskedGrows
  BY <1>1, RaisingGrows
<1>3. Idle.phase = "idle" /\ \A s, k, m : ~ForServer(Idle, s, k, m)
  BY DEF Idle, ForServer
<1>4. RedisWithinAsked'
  BY <1>1, <1>2, <1>3, RedisStays DEF Honest
<1>5. MapsWithinAsked'
  BY <1>1, <1>2, <1>3, MapsStay DEF Honest
<1>6. CountsWithinAsked'
  BY <1>1, <1>2, <1>3, CountsStay DEF Honest
<1>7. QED
  BY <1>4, <1>5, <1>6 DEF Honest

LEMMA IncrementLocalHonest ==
    ASSUME TypeOK, TypeOK', Honest, NEW r \in Requests, IncrementLocal(r)
    PROVE  Honest'
<1>0. PICK s0, k0, now : s0 = req[r].server /\ k0 = req[r].key /\ now = minute
  OBVIOUS
<1>1. PICK n \in Nat \ {0}, kept \in SUBSET DOMAIN local[s0] :
        /\ req[r].phase = "local" /\ s0 \in Servers /\ k0 \in Keys
        /\ n <= LocalCount(s0, k0, now) + 1
        /\ Turns(r, [phase |-> "decide", server |-> s0, key |-> k0,
                     window |-> now, count |-> n])
        /\ \A p \in Servers : p # s0 => local'[p] = local[p]
        /\ DOMAIN local'[s0] = kept \cup {k0}
        /\ local'[s0][k0] = [window |-> now, count |-> n]
        /\ \A j \in kept : j # k0 => local'[s0][j] = local[s0][j]
        /\ IF req[r].window = now THEN UNCHANGED asked
           ELSE Raises(asked, asked', k0, now)
        /\ UNCHANGED <<minute, redis>>
  BY <1>0, IncrementLocalDoes
<1> DEFINE new == [phase |-> "decide", server |-> s0, key |-> k0,
                   window |-> now, count |-> n]
<1>2. now \in Minutes
  BY <1>0 DEF TypeOK
<1>3. AskedGrows
  BY <1>1, <1>2, RaisingGrows
<1>4. /\ new.phase = "decide" /\ new.key = k0 /\ new.window = now /\ new.count = n
      /\ Turns(r, new)
  BY <1>1
<1>5. \A s, k, m : ForServer(new, s, k, m) => ForServer(req[r], s, k, m)
  BY <1>0, <1>1, <1>4 DEF ForServer
<1> HIDE DEF new
<1>6. \A m : m = req[r].window => ForServer(req[r], s0, k0, m)
  BY <1>0, <1>1 DEF ForServer
\* The counter of this now, if it is the request's own or a later one.
<1>7. /\ LocalCount(s0, k0, now) \in Nat
      /\ Cardinality(AtServer(s0, k0, now)) \in Nat
      /\ Cardinality(AtServer(s0, k0, now)') \in Nat
      /\ n + Cardinality(AtServer(s0, k0, now)') <= asked'[k0][now]
  <2> DEFINE c == Cardinality(AtServer(s0, k0, now))
             d == Cardinality(AtServer(s0, k0, now)')
             l == LocalCount(s0, k0, now)
             b == asked[k0][now]
             a == asked'[k0][now]
  <2>1. \A m \in Minutes : ForServer(req[r], s0, k0, m) =>
            Cardinality(AtServer(s0, k0, m)') + 1 = Cardinality(AtServer(s0, k0, m))
    BY <1>4, <1>5, ServerWaitsLess
  <2>2. \A m \in Minutes : /\ Cardinality(AtServer(s0, k0, m)') <= Cardinality(AtServer(s0, k0, m))
                           /\ Cardinality(AtServer(s0, k0, m)) \in Nat
                           /\ Cardinality(AtServer(s0, k0, m)') \in Nat
    BY <1>4, <1>5, ServerWaitsLess
  <2>3. l \in Nat /\ l + c <= b /\ b \in Nat /\ a \in Nat /\ n <= l + 1
    BY <1>1, <1>2, LocalCountTyped, AskedTyped DEF Honest, MapsWithinAsked
  <2>4. CASE req[r].window = now
    <3>1. d + 1 = c /\ c \in Nat /\ d \in Nat
      BY <1>2, <1>6, <2>1, <2>2, <2>4
    <3>2. a = b
      BY <1>1, <2>4
    <3> HIDE DEF a, b, c, d, l
    <3>3. n + d <= a
      BY <1>1, <2>3, <3>1, <3>2
    <3>4. QED
      BY <2>3, <3>1, <3>3 DEF a, c, d, l
  <2>5. CASE req[r].window # now
    <3>1. d <= c /\ c \in Nat /\ d \in Nat
      BY <1>2, <2>2
    <3>2. a = b + 1
      BY <1>1, <1>2, <2>5 DEF Raises
    <3> HIDE DEF a, b, c, d, l
    <3>3. n + d <= a
      BY <1>1, <2>3, <3>1, <3>2
    <3>4. QED
      BY <2>3, <3>1, <3>3 DEF a, c, d, l
  <2>6. QED
    BY <2>4, <2>5
<1>8. MapsWithinAsked'
  <2>1. SUFFICES ASSUME NEW s \in Servers, NEW k \in Keys, NEW m \in Minutes
                 PROVE  LocalCount(s, k, m)' + Cardinality(AtServer(s, k, m)') <= asked'[k][m]
    BY DEF MapsWithinAsked
  <2>2. CASE s = s0 /\ k = k0 /\ m = now
    <3>1. LocalCount(s, k, m)' = n
      BY <1>1, <2>2 DEF LocalCount
    <3>2. AtServer(s, k, m)' = AtServer(s0, k0, now)'
      BY <2>2 DEF AtServer
    <3>3. QED
      BY <1>7, <2>2, <3>1, <3>2
  <2>3. CASE ~(s = s0 /\ k = k0 /\ m = now)
    <3>1. LocalCount(s, k, m)' \in {0, LocalCount(s, k, m)}
      <4>1. CASE s # s0
        BY <1>1, <4>1 DEF LocalCount
      <4>2. CASE s = s0 /\ k = k0
        <5>1. local'[s][k].window = now /\ now # m
          BY <1>1, <2>3, <4>2
        <5>2. QED
          BY <5>1 DEF LocalCount
      <4>3. CASE s = s0 /\ k # k0
        <5>1. k \in DOMAIN local'[s] => k \in kept /\ k \in DOMAIN local[s]
                                         /\ local'[s][k] = local[s][k]
          BY <1>1, <4>3
        <5>2. QED
          BY <5>1 DEF LocalCount
      <4>4. QED
        BY <4>1, <4>2, <4>3
    <3>2. /\ Cardinality(AtServer(s, k, m)) \in Nat /\ Cardinality(AtServer(s, k, m)') \in Nat
          /\ Cardinality(AtServer(s, k, m)') <= Cardinality(AtServer(s, k, m))
      BY <1>4, <1>5, ServerWaitsLess
    <3>3. LocalCount(s, k, m) \in Nat
      BY LocalCountTyped
    <3>4. /\ LocalCount(s, k, m) + Cardinality(AtServer(s, k, m)) <= asked[k][m]
          /\ asked[k][m] <= asked'[k][m]
      BY <1>3 DEF Honest, MapsWithinAsked, AskedGrows
    <3>5. QED
      BY <3>1, <3>2, <3>3, <3>4, AskedTyped
  <2>4. QED
    BY <2>2, <2>3
<1>9. RedisWithinAsked'
  BY <1>1, <1>3, <1>4, RedisStays DEF Honest
<1>10. n <= asked'[k0][now]
  BY <1>1, <1>2, <1>7, AskedTyped
<1>11. CountsWithinAsked'
  BY <1>3, <1>4, <1>10, CountsStay DEF Honest
<1>12. QED
  BY <1>8, <1>9, <1>11 DEF Honest

LEMMA HonestIsKept ==
    ASSUME TypeOK, TypeOK', Honest, [Next]_limiterVars
    PROVE  Honest'
<1>1. ASSUME UNCHANGED <<redis, local, req, asked>>
      PROVE  Honest'
  <2>1. \A k \in Keys, m \in Minutes : redis'[k][m] <= redis[k][m]
    BY <1>1, AskedTyped
  <2>2. QED
    BY <1>1, <2>1, QuietSteps
<1>2. CASE RedisExpires
  BY <1>2, ExpiryDoes, QuietSteps
<1>3. CASE NextMinute \/ UNCHANGED limiterVars
  BY <1>1, <1>3 DEF NextMinute, limiterVars
<1>4. QED
  BY <1>2, <1>3, ArriveHonest, RedisCountsHonest, FallBackHonest, IncrementLocalHonest,
     DecideHonest
  DEF Next

LEMMA HonestAtFirst ==
    ASSUME Init
    PROVE  Honest
<1>1. TypeOK
  BY TypeHoldsAtFirst
<1>2. \A r \in Requests : req[r].phase = "idle"
  BY DEF Init, Idle
<1>3. \A s, k, m : AtRedis(k, m) = {} /\ AtServer(s, k, m) = {}
  BY <1>2 DEF AtRedis, AtServer, ForRedis, ForServer
<1>4. \A s \in Servers : \A k, m : LocalCount(s, k, m) = 0
  BY DEF Init, EmptyMap, LocalCount
<1>5. \A k \in Keys, m \in Minutes : redis[k][m] = 0 /\ asked[k][m] = 0
  BY DEF Init, ZeroCounts
<1>6. RedisWithinAsked /\ MapsWithinAsked
  BY <1>3, <1>4, <1>5, FS_EmptySet DEF RedisWithinAsked, MapsWithinAsked
<1>7. QED
  BY <1>2, <1>6 DEF Honest, CountsWithinAsked, At

-------------------------------------------------------------------------------
(* Admissions.  Every admitted request had a count no greater than the     *)
(* limit from one of the counters of its key and minute, and no counter    *)
(* gives a count twice: Redis forgets a counter, and a map drops a bucket, *)
(* only when no request can be counted for that minute any more.           *)

Redis == CHOOSE c : c \notin Servers

Sources == Servers \cup {Redis}

\* The counters that have counted requests of key k in minute m.
Used(k, m) == (IF UseRedis THEN {Redis} ELSE {}) \cup fellBack[k][m]

\* The admissions a key can have in a minute.
Accounts(k, m) == Used(k, m) \X (1..Limit)

Reading(c, k, m) == IF c = Redis THEN redis[k][m] ELSE LocalCount(c, k, m)

\* Counter c counts no request for minute m any more.
Over(c, m) == IF c = Redis THEN m + 1 < minute ELSE m < minute

\* Count n of counter c has been given away.
Given(c, n, k, m) == Over(c, m) \/ n <= Reading(c, k, m)

Deciding(r, k, m) == req[r].phase = "decide" /\ req[r].key = k /\ req[r].window = m

\* The admitted requests have taken different counts, and the requests still
\* to be decided, each counted by some counter, hold others.
Accounted(k, m, taken, by) ==
    /\ admitted[k][m] = Cardinality(taken)
    /\ \A t \in taken : Given(t[1], t[2], k, m)
    /\ \A r \in Requests : Deciding(r, k, m) =>
          /\ by[r] \in Used(k, m) /\ Given(by[r], req[r].count, k, m)
          /\ <<by[r], req[r].count>> \notin taken
    /\ \A p, r \in Requests :
          p # r /\ Deciding(p, k, m) /\ Deciding(r, k, m) /\ by[p] = by[r]
             => req[p].count # req[r].count

AllAccounted ==
    \A k \in Keys, m \in Minutes :
        \E taken \in SUBSET Accounts(k, m), by \in [Requests -> Sources] :
            Accounted(k, m, taken, by)

\* A call to Redis ends before the minute after its own does, and a counter was
\* not raised before its minute: it is not forgotten while calls are out.
Timely ==
    /\ \A r \in Requests : At(r, "redis") =>
          UseRedis /\ req[r].window <= minute /\ minute <= req[r].window + 1
    /\ \A k \in Keys, m \in Minutes : redis[k][m] > 0 => m <= touched[k][m]

LEMMA RedisIsNoServer == Redis \notin Servers
BY NoSetContainsEverything DEF Redis

LEMMA MinutesAreNumbers ==
    ASSUME TypeOK
    PROVE  minute \in Nat /\ \A m \in Minutes : m \in Nat
BY LimiterAssumption DEF TypeOK, Minutes

LEMMA ReadingTyped ==
    ASSUME TypeOK, NEW c \in Sources, NEW k \in Keys, NEW m \in Minutes
    PROVE  Reading(c, k, m) \in Nat
<1>1. CASE c = Redis
  BY <1>1 DEF TypeOK, Reading
<1>2. CASE c # Redis
  BY <1>2, LocalCountTyped DEF Reading, Sources
<1>3. QED
  BY <1>1, <1>2

\* What was given away stays so while no counter goes back that still counts.
LEMMA GivenStays ==
    ASSUME TypeOK, TypeOK', NEW k \in Keys, NEW m \in Minutes,
           minute <= minute',
           m + 1 < minute' \/ redis[k][m] <= redis'[k][m],
           \A s \in Servers : m < minute' \/ LocalCount(s, k, m) <= LocalCount(s, k, m)',
           NEW c \in Sources, NEW n \in Nat, Given(c, n, k, m)
    PROVE  Given(c, n, k, m)'
<1>1. minute \in Nat /\ minute' \in Nat /\ m \in Nat
  BY MinutesAreNumbers, LimiterAssumption DEF TypeOK, Minutes
<1>2. CASE c = Redis
  <2>1. redis[k][m] \in Nat /\ redis'[k][m] \in Nat
    BY DEF TypeOK
  <2>2. m + 1 < minute \/ n <= redis[k][m]
    BY <1>2 DEF Given, Over, Reading
  <2>3. m + 1 < minute' \/ n <= redis'[k][m]
    BY <1>1, <2>1, <2>2
  <2>4. QED
    BY <1>2, <2>3 DEF Given, Over, Reading
<1>3. CASE c # Redis
  <2>1. c \in Servers
    BY <1>3 DEF Sources
  <2>2. LocalCount(c, k, m) \in Nat
    BY <2>1, LocalCountTyped
  <2>3. LocalCount(c, k, m)' \in Nat
    BY <2>1, BucketsTyped DEF TypeOK, LocalCount, Buckets
  <2>4. m < minute \/ n <= LocalCount(c, k, m)
    BY <1>3 DEF Given, Over, Reading
  <2>5. m < minute' \/ LocalCount(c, k, m) <= LocalCount(c, k, m)'
    BY <2>1
  <2>6. m < minute' \/ n <= LocalCount(c, k, m)'
    BY <1>1, <2>2, <2>3, <2>4, <2>5
  <2>7. QED
    BY <1>3, <2>6 DEF Given, Over, Reading
<1>4. QED
  BY <1>2, <1>3

LEMMA UsedTyped ==
    ASSUME TypeOK, NEW k \in Keys, NEW m \in Minutes
    PROVE  /\ Used(k, m) \subseteq Sources /\ IsFiniteSet(Used(k, m))
           /\ IsFiniteSet(fellBack[k][m])
<1>1. fellBack[k][m] \subseteq Servers
  BY DEF TypeOK
<1>2. IsFiniteSet(fellBack[k][m])
  BY <1>1, LimiterAssumption, FS_Subset
<1>3. CASE UseRedis
  <2>1. Used(k, m) = fellBack[k][m] \cup {Redis}
    BY <1>3 DEF Used
  <2>2. QED
    BY <1>1, <1>2, <2>1, FS_AddElement DEF Sources
<1>4. CASE ~UseRedis
  <2>1. Used(k, m) = fellBack[k][m]
    BY <1>4 DEF Used
  <2>2. QED
    BY <1>1, <1>2, <2>1 DEF Sources
<1>5. QED
  BY <1>3, <1>4

LEMMA TakenTyped ==
    ASSUME TypeOK, NEW k \in Keys, NEW m \in Minutes, NEW taken \in SUBSET Accounts(k, m)
    PROVE  /\ IsFiniteSet(taken) /\ Cardinality(taken) \in Nat
           /\ \A t \in taken : /\ t[1] \in Sources
                               /\ t[2] \in Nat /\ t[2] <= Limit /\ t = <<t[1], t[2]>>
<1>1. Used(k, m) \subseteq Sources /\ IsFiniteSet(Used(k, m))
  BY UsedTyped
<1>2. Limit \in Nat
  BY LimiterAssumption
<1>3. IsFiniteSet(1..Limit)
  BY <1>2, FS_Interval
<1>4. IsFiniteSet(Accounts(k, m))
  BY <1>1, <1>3, FS_Product DEF Accounts
<1>5. IsFiniteSet(taken) /\ Cardinality(taken) \in Nat
  BY <1>4, FS_Subset, FS_CardinalityType
<1>6. QED
  BY <1>1, <1>2, <1>5 DEF Accounts

\* What was used stays so.
LEMMA UsedStays ==
    ASSUME NEW k, NEW m, fellBack[k][m] \subseteq fellBack'[k][m]
    PROVE  Used(k, m) \subseteq Used(k, m)' /\ Accounts(k, m) \subseteq Accounts(k, m)'
BY DEF Used, Accounts

\* A step that neither counts nor decides a request of key k and minute m.
LEMMA NothingCounted ==
    ASSUME TypeOK, NEW k \in Keys, NEW m \in Minutes,
           NEW taken \in SUBSET Accounts(k, m), NEW by \in [Requests -> Sources],
           Accounted(k, m, taken, by),
           admitted'[k][m] = admitted[k][m], fellBack[k][m] \subseteq fellBack'[k][m],
           \A c \in Sources, n \in Nat : Given(c, n, k, m) => Given(c, n, k, m)',
           \A r \in Requests :
              Deciding(r, k, m)' => Deciding(r, k, m) /\ req'[r].count = req[r].count
    PROVE  taken \in SUBSET Accounts(k, m)' /\ Accounted(k, m, taken, by)'
<1>1. \A t \in taken : Given(t[1], t[2], k, m)'
  BY TakenTyped DEF Accounted
<1>2. ASSUME NEW r \in Requests, Deciding(r, k, m)'
      PROVE  /\ by[r] \in Used(k, m)' /\ Given(by[r], req[r].count, k, m)'
             /\ <<by[r], req'[r].count>> \notin taken
  <2>1. Deciding(r, k, m) /\ req'[r].count = req[r].count
    BY <1>2
  <2>2. req[r].count \in Nat
    BY <2>1, FlightTyped DEF Deciding
  <2>3. /\ by[r] \in Used(k, m) /\ by[r] \in Sources /\ Given(by[r], req[r].count, k, m)
        /\ <<by[r], req[r].count>> \notin taken
    BY <2>1 DEF Accounted
  <2>4. PICK n \in Nat : n = req[r].count
    BY <2>2
  <2>5. Given(by[r], n, k, m)'
    BY <2>3, <2>4
  <2>6. QED
    BY <2>1, <2>3, <2>4, <2>5, UsedStays DEF Given
<1>3. ASSUME NEW p \in Requests, NEW r \in Requests, p # r,
             Deciding(p, k, m)', Deciding(r, k, m)', by[p] = by[r]
      PROVE  req'[p].count # req'[r].count
  BY <1>3 DEF Accounted
<1>4. admitted'[k][m] = Cardinality(taken)
  BY DEF Accounted
<1>5. QED
  BY <1>1, <1>2, <1>3, <1>4, UsedStays DEF Accounted

\* A step that counts request r by counter c, which still counts for minute m.
LEMMA OneCounted ==
    ASSUME TypeOK, NEW k \in Keys, NEW m \in Minutes,
           NEW taken \in SUBSET Accounts(k, m), NEW by \in [Requests -> Sources],
           Accounted(k, m, taken, by),
           admitted'[k][m] = admitted[k][m], fellBack[k][m] \subseteq fellBack'[k][m],
           \A c \in Sources, n \in Nat : Given(c, n, k, m) => Given(c, n, k, m)',
           NEW r \in Requests, NEW c \in Sources, c \in Used(k, m)', ~Over(c, m),
           \A p \in Requests :
              p # r /\ Deciding(p, k, m)' => Deciding(p, k, m) /\ req'[p].count = req[p].count,
           req'[r].count = Reading(c, k, m) + 1,
           Reading(c, k, m)' = Reading(c, k, m) + 1
    PROVE  taken \in SUBSET Accounts(k, m)' /\ Accounted(k, m, taken, [by EXCEPT ![r] = c])'
<1> DEFINE by2 == [by EXCEPT ![r] = c]
           n == Reading(c, k, m) + 1
<1>1. c \in Sources /\ Reading(c, k, m) \in Nat /\ n \in Nat
  BY ReadingTyped
<1>2. by2[r] = c /\ \A p \in Requests : p # r => by2[p] = by[p]
  BY <1>1
<1> HIDE DEF by2
<1>3. \A t \in taken : Given(t[1], t[2], k, m)'
  BY TakenTyped DEF Accounted
<1>4. Given(c, req[r].count, k, m)'
  <2>1. req'[r].count <= Reading(c, k, m)'
    BY <1>1
  <2>2. QED
    BY <2>1 DEF Given
\* What the counter has given away is below the count of r.
<1>5. \A i \in Nat : Given(c, i, k, m) => i # n
  BY <1>1 DEF Given
<1>6. <<c, n>> \notin taken
  BY <1>1, <1>5, TakenTyped DEF Accounted
<1>7. ASSUME NEW p \in Requests, p # r, Deciding(p, k, m)'
      PROVE  /\ Deciding(p, k, m) /\ by[p] \in Used(k, m)
             /\ req'[p].count = req[p].count /\ req[p].count \in Nat
             /\ Given(by[p], req[p].count, k, m)
             /\ <<by[p], req[p].count>> \notin taken
  <2>1. Deciding(p, k, m) /\ req'[p].count = req[p].count
    BY <1>7
  <2>2. req[p].count \in Nat
    BY <2>1, FlightTyped DEF Deciding
  <2>3. QED
    BY <2>1, <2>2 DEF Accounted
<1>8. ASSUME NEW p \in Requests, Deciding(p, k, m)'
      PROVE  /\ by2[p] \in Used(k, m)' /\ Given(by2[p], req[p].count, k, m)'
             /\ <<by2[p], req'[p].count>> \notin taken
  <2>1. CASE p = r
    BY <1>2, <1>4, <1>6, <2>1 DEF Given
  <2>2. CASE p # r
    <3>1. PICK i \in Nat : i = req[p].count
      BY <1>7, <1>8, <2>2
    <3>2. PICK d \in Used(k, m) : d = by[p]
      BY <1>7, <1>8, <2>2
    <3>3. d \in Sources /\ d \in Used(k, m)'
      BY <3>2, UsedTyped, UsedStays
    <3>4. Given(d, i, k, m)'
      BY <1>7, <1>8, <2>2, <3>1, <3>2, <3>3
    <3>5. by2[p] = d /\ req'[p].count = i
      BY <1>2, <1>7, <1>8, <2>2, <3>1, <3>2
    <3>6. Given(by2[p], req[p].count, k, m)'
      BY <3>4, <3>5 DEF Given
    <3>7. QED
      BY <1>7, <1>8, <2>2, <3>1, <3>2, <3>3, <3>5, <3>6
  <2>3. QED
    BY <2>1, <2>2
<1>9. ASSUME NEW p \in Requests, p # r, Deciding(p, k, m)', by2[p] = by2[r]
      PROVE  req'[p].count # req'[r].count
  <2>1. by[p] = c /\ Given(c, req[p].count, k, m) /\ req'[p].count \in Nat
        /\ req'[p].count = req[p].count
    BY <1>2, <1>7, <1>9
  <2>2. QED
    BY <1>5, <2>1
<1>10. ASSUME NEW p \in Requests, NEW q \in Requests, p # q,
              Deciding(p, k, m)', Deciding(q, k, m)', by2[p] = by2[q]
       PROVE  req'[p].count # req'[q].count
  <2>1. CASE p = r \/ q = r
    BY <1>9, <1>10, <2>1
  <2>2. CASE p # r /\ q # r
    BY <1>2, <1>7, <1>10, <2>2 DEF Accounted
  <2>3. QED
    BY <2>1, <2>2
<1>11. admitted'[k][m] = Cardinality(taken)
  BY DEF Accounted
<1>12. Accounted(k, m, taken, by2)'
  BY <1>3, <1>8, <1>10, <1>11 DEF Accounted
<1>13. QED
  BY <1>12, UsedStays DEF by2

\* A request that is let through takes its count with it.
LEMMA OneAdmitted ==
    ASSUME TypeOK, NEW r \in Requests, Decide(r), NEW k \in Keys, NEW m \in Minutes,
           NEW taken \in SUBSET Accounts(k, m), NEW by \in [Requests -> Sources],
           Accounted(k, m, taken, by)
    PROVE  \E later \in SUBSET Accounts(k, m)' : Accounted(k, m, later, by)'
<1>1. /\ req[r].phase = "decide" /\ req[r].key \in Keys /\ req[r].window \in Minutes
      /\ req[r].count \in Nat \ {0} /\ Turns(r, Idle)
      /\ UNCHANGED <<minute, redis, touched, local, fellBack>>
  BY DecideDoes, FlightTyped DEF Decide, At
<1>1a. Used(k, m)' = Used(k, m) /\ Accounts(k, m)' = Accounts(k, m)
  BY <1>1 DEF Used, Accounts
<1>2. \A c, n : Given(c, n, k, m)' <=> Given(c, n, k, m)
  BY <1>1 DEF Given, Over, Reading, LocalCount
<1>3. ~Deciding(r, k, m)' /\ \A p \in Requests : p # r =>
        (Deciding(p, k, m)' <=> Deciding(p, k, m)) /\ req'[p] = req[p]
  BY <1>1 DEF Turns, Deciding, Idle
<1>4. CASE Deciding(r, k, m) /\ req[r].count <= Limit
  <2>0. PICK n : n = req[r].count
    OBVIOUS
  <2> DEFINE t == <<by[r], n>>
             later == taken \cup {t}
  <2>1. by[r] \in Used(k, m) /\ Given(by[r], n, k, m) /\ t \notin taken
    BY <1>4, <2>0 DEF Accounted
  <2>2. t \in Accounts(k, m)
    BY <1>1, <1>4, <2>0, <2>1, LimiterAssumption DEF Accounts
  <2>3. Cardinality(later) = Cardinality(taken) + 1
    BY <2>1, TakenTyped, FS_AddElement
  <2>4. admitted'[k][m] = admitted[k][m] + 1
    <3>1. ~(req[r].count > Limit) /\ req[r].key = k /\ req[r].window = m
      BY <1>1, <1>4, LimiterAssumption DEF Deciding
    <3>2. admitted' = [admitted EXCEPT ![k][m] = @ + 1]
      BY <3>1 DEF Decide
    <3>3. QED
      BY <3>2 DEF TypeOK
  <2>5. \A u \in later : Given(u[1], u[2], k, m)
    BY <2>1 DEF Accounted
  <2>6. ASSUME NEW p \in Requests, Deciding(p, k, m)'
        PROVE  /\ p # r /\ Deciding(p, k, m) /\ req'[p] = req[p]
               /\ by[p] \in Used(k, m) /\ Given(by[p], req[p].count, k, m)
               /\ <<by[p], req[p].count>> \notin later
    <3>1. p # r /\ Deciding(p, k, m) /\ req'[p] = req[p]
      BY <1>3, <2>6
    <3>2. by[p] = by[r] => req[p].count # req[r].count
      BY <1>4, <3>1 DEF Accounted
    <3>3. QED
      BY <2>0, <3>1, <3>2 DEF Accounted
  <2>7. Accounted(k, m, later, by)'
    <3>1. admitted'[k][m] = Cardinality(later)
      BY <2>3, <2>4 DEF Accounted
    <3>2. \A u \in later : Given(u[1], u[2], k, m)'
      BY <1>2, <2>5
    <3>3. ASSUME NEW p \in Requests, Deciding(p, k, m)'
          PROVE  by[p] \in Used(k, m)' /\ Given(by[p], req[p].count, k, m)'
      <4>1. PICK i : i = req[p].count
        OBVIOUS
      <4>2. Given(by[p], i, k, m)'
        BY <1>2, <2>6, <3>3, <4>1
      <4>3. QED
        BY <1>1a, <2>6, <3>3, <4>1, <4>2 DEF Given
    <3>4. ASSUME NEW p \in Requests, NEW q \in Requests, p # q,
                 Deciding(p, k, m)', Deciding(q, k, m)', by[p] = by[q]
          PROVE  req'[p].count # req'[q].count
      BY <2>6, <3>4 DEF Accounted
    <3>5. QED
      BY <2>6, <3>1, <3>2, <3>3, <3>4 DEF Accounted
  <2>8. QED
    BY <1>1a, <2>2, <2>7
<1>5. CASE ~(Deciding(r, k, m) /\ req[r].count <= Limit)
  <2>1. admitted'[k][m] = admitted[k][m]
    <3>1. CASE req[r].count > Limit
      BY <3>1 DEF Decide
    <3>2. CASE ~(req[r].count > Limit)
      <4>1. ~(req[r].key = k /\ req[r].window = m)
        BY <1>1, <1>5, <3>2, LimiterAssumption DEF Deciding
      <4>2. admitted' = [admitted EXCEPT ![req[r].key][req[r].window] = @ + 1]
        BY <3>2 DEF Decide
      <4>3. admitted \in [Keys -> [Minutes -> Nat]]
        BY DEF TypeOK
      <4>4. QED
        BY <1>1, <4>1, <4>2, <4>3, CounterRaised
    <3>3. QED
      BY <3>1, <3>2
  <2>2. \A p \in Requests :
          Deciding(p, k, m)' => Deciding(p, k, m) /\ req'[p].count = req[p].count
    BY <1>3
  <2>3. taken \in SUBSET Accounts(k, m)' /\ Accounted(k, m, taken, by)'
    BY <1>1, <1>2, <2>1, <2>2, NothingCounted
  <2>4. QED
    BY <2>3
<1>6. QED
  BY <1>4, <1>5

\* Who else is being decided, when one request turns.
LEMMA OthersDecided ==
    ASSUME NEW r \in Requests, NEW new, Turns(r, new), NEW k, NEW m
    PROVE  \A p \in Requests :
              p # r /\ Deciding(p, k, m)' => Deciding(p, k, m) /\ req'[p].count = req[p].count
BY DEF Turns, Deciding

LEMMA CounterTyped ==
    ASSUME TypeOK, NEW k \in Keys, NEW m \in Minutes
    PROVE  /\ redis[k][m] \in Nat
           /\ \A s \in Servers : LocalCount(s, k, m) \in Nat
BY LocalCountTyped DEF TypeOK

\* Counting by Redis: the call has not outlived the minute after its own.
LEMMA RedisCountsAccounted ==
    ASSUME TypeOK, TypeOK', Timely, AllAccounted, NEW r \in Requests, RedisCounts(r)
    PROVE  AllAccounted'
<1> DEFINE k0 == req[r].key
           m0 == req[r].window
<1>1. /\ req[r].phase = "redis" /\ k0 \in Keys /\ m0 \in Minutes
      /\ Turns(r, [phase |-> "decide", server |-> req[r].server, key |-> k0,
                   window |-> m0, count |-> redis[k0][m0] + 1])
      /\ Raises(redis, redis', k0, m0)
      /\ UNCHANGED <<minute, local, admitted, fellBack>>
  BY RedisCountsDoes, FlightTyped DEF RedisCounts
<1>2. /\ req'[r].phase = "decide" /\ req'[r].key = k0 /\ req'[r].window = m0
      /\ req'[r].count = redis[k0][m0] + 1
  BY <1>1 DEF Turns
<1>3. UseRedis /\ minute <= m0 + 1
  BY <1>1 DEF Timely, At
<1> HIDE DEF k0, m0
<1>4. SUFFICES ASSUME NEW k \in Keys, NEW m \in Minutes
               PROVE  \E taken \in SUBSET Accounts(k, m)', by \in [Requests -> Sources] :
                        Accounted(k, m, taken, by)'
  BY DEF AllAccounted
<1>5. PICK taken \in SUBSET Accounts(k, m), by \in [Requests -> Sources] :
        Accounted(k, m, taken, by)
  BY DEF AllAccounted
<1>5a. fellBack[k][m] \subseteq fellBack'[k][m]
  BY <1>1
<1>6. \A c \in Sources, n \in Nat : Given(c, n, k, m) => Given(c, n, k, m)'
  <2>1. redis[k][m] <= redis'[k][m]
    BY <1>1, CounterTyped DEF Raises
  <2>2. \A s \in Servers : LocalCount(s, k, m) <= LocalCount(s, k, m)'
    <3>1. \A s \in Servers : LocalCount(s, k, m)' = LocalCount(s, k, m)
      BY <1>1 DEF LocalCount
    <3>2. QED
      BY <3>1, CounterTyped
  <2>3. minute <= minute'
    BY <1>1, MinutesAreNumbers
  <2>4. QED
    BY <2>1, <2>2, <2>3, GivenStays
<1>7. \A p \in Requests :
        p # r /\ Deciding(p, k, m)' => Deciding(p, k, m) /\ req'[p].count = req[p].count
  BY <1>1, OthersDecided
<1>8. CASE k = k0 /\ m = m0
  <2>1. Redis \in Sources /\ Redis \in Used(k, m)'
    BY <1>3 DEF Used, Sources
  <2>2. ~Over(Redis, m)
    BY <1>1, <1>3, <1>8, MinutesAreNumbers DEF Over
  <2>3. Reading(Redis, k, m) = redis[k][m] /\ Reading(Redis, k, m)' = redis'[k][m]
    BY DEF Reading
  <2>4. redis'[k][m] = redis[k][m] + 1
    BY <1>1, <1>8 DEF Raises
  <2>4a. /\ req'[r].count = Reading(Redis, k, m) + 1
        /\ Reading(Redis, k, m)' = Reading(Redis, k, m) + 1
        /\ admitted'[k][m] = admitted[k][m]
    BY <1>1, <1>2, <1>8, <2>3, <2>4
  <2>5. /\ taken \in SUBSET Accounts(k, m)'
        /\ Accounted(k, m, taken, [by EXCEPT ![r] = Redis])'
    BY <1>5a, <1>5, <1>6, <1>7, <2>1, <2>2, <2>4a, OneCounted
  <2>6. [by EXCEPT ![r] = Redis] \in [Requests -> Sources]
    BY DEF Sources
  <2>7. QED
    BY <2>5, <2>6
<1>9. CASE ~(k = k0 /\ m = m0)
  <2>1. ~Deciding(r, k, m)'
    BY <1>2, <1>9 DEF Deciding
  <2>2. \A p \in Requests :
          Deciding(p, k, m)' => Deciding(p, k, m) /\ req'[p].count = req[p].count
    BY <1>7, <2>1
  <2>3. taken \in SUBSET Accounts(k, m)' /\ Accounted(k, m, taken, by)'
    BY <1>1, <1>5, <1>6, <2>2, NothingCounted
  <2>4. QED
    BY <2>3
<1>10. QED
  BY <1>8, <1>9

\* Counting in a map: the bucket of this minute, if there was one, has been
\* kept, and so have those of the other keys.
LEMMA MapCountsUp ==
    ASSUME TypeOK, NotAhead, NEW r \in Requests, IncrementLocal(r)
    PROVE  /\ \E s \in Servers, k \in Keys, now \in Minutes :
                /\ now = minute /\ UNCHANGED <<minute, redis, touched, admitted>>
                /\ \E n : Turns(r, [phase |-> "decide", server |-> s, key |-> k,
                                     window |-> now, count |-> n])
                /\ req'[r].count = LocalCount(s, k, now) + 1
                /\ LocalCount(s, k, now)' = LocalCount(s, k, now) + 1
                /\ s \in fellBack'[k][now]
           /\ \A p \in Servers, j \in Keys, m \in Minutes :
                 m < minute \/ LocalCount(p, j, m) <= LocalCount(p, j, m)'
<1>1. PICK s, k, now : s = req[r].server /\ k = req[r].key /\ now = minute
  OBVIOUS
<1>2. PICK n \in Nat \ {0}, kept \in SUBSET DOMAIN local[s] :
        /\ req[r].phase = "local" /\ s \in Servers /\ k \in Keys
        /\ n <= LocalCount(s, k, now) + 1
        /\ Turns(r, [phase |-> "decide", server |-> s, key |-> k,
                     window |-> now, count |-> n])
        /\ \A p \in Servers : p # s => local'[p] = local[p]
        /\ DOMAIN local'[s] = kept \cup {k}
        /\ local'[s][k] = [window |-> now, count |-> n]
        /\ \A j \in kept : j # k => local'[s][j] = local[s][j]
        /\ UNCHANGED <<minute, redis>>
  BY <1>1, IncrementLocalDoes
<1> DEFINE map == cleanupLocal(local[s])
<1>3. /\ req' = [req EXCEPT ![r].phase = "decide", ![r].window = minute,
                            ![r].count = CountIn(map, k)]
      /\ local' = [local EXCEPT ![s] =
                     [j \in DOMAIN map \cup {k} |->
                        IF j = k THEN [window |-> minute, count |-> CountIn(map, k)] ELSE map[j]]]
      /\ UNCHANGED <<minute, redis, touched, admitted>>
  BY <1>1 DEF IncrementLocal
<1>4. req'[r].count = n
  BY <1>2 DEF Turns
<1>5. CountIn(map, k) = n
  <2>1. local'[s] = [j \in DOMAIN map \cup {k} |->
                       IF j = k THEN [window |-> minute, count |-> CountIn(map, k)] ELSE map[j]]
    BY <1>2, <1>3 DEF TypeOK
  <2>2. local'[s][k] = [window |-> minute, count |-> CountIn(map, k)]
    BY <2>1
  <2>3. QED
    BY <1>1, <1>2, <2>2
<1>6. DOMAIN local'[s] = DOMAIN map \cup {k}
  BY <1>2, <1>3 DEF TypeOK
<1>7. /\ DOMAIN map \subseteq DOMAIN local[s]
      /\ \A j \in DOMAIN map : map[j] = local[s][j]
  BY <1>2, CleanupKeeps
<1>8. \A j \in DOMAIN local[s] : ~(local[s][j].window < minute) => j \in DOMAIN map
  BY DEF cleanupLocal
<1> HIDE DEF map
<1>9. minute \in Nat /\ now \in Minutes /\ \A m \in Minutes : m \in Nat
  BY <1>1, MinutesAreNumbers DEF TypeOK
<1>10. n = LocalCount(s, k, now) + 1
  <2>1. CASE k \in DOMAIN local[s] /\ local[s][k].window = now
    <3>1. k \in DOMAIN map
      BY <1>1, <1>8, <1>9, <2>1
    <3>2. QED
      BY <1>1, <1>5, <1>7, <2>1, <3>1 DEF CountIn, LocalCount
  <2>2. CASE ~(k \in DOMAIN local[s] /\ local[s][k].window = now)
    BY <1>1, <1>5, <1>7, <2>2 DEF CountIn, LocalCount
  <2>3. QED
    BY <2>1, <2>2
<1>11. LocalCount(s, k, now)' = n
  BY <1>2 DEF LocalCount
<1>12. ASSUME NEW p \in Servers, NEW j \in Keys, NEW m \in Minutes, ~(m < minute)
       PROVE  LocalCount(p, j, m) <= LocalCount(p, j, m)'
  <2>1. LocalCount(p, j, m) \in Nat /\ LocalCount(s, k, now) \in Nat
    BY <1>2, LocalCountTyped
  <2>2. CASE p # s
    <3>1. LocalCount(p, j, m)' = LocalCount(p, j, m)
      BY <1>2, <2>2 DEF LocalCount
    <3>2. QED
      BY <2>1, <3>1
  <2>3. CASE p = s /\ j = k /\ m = now
    <3>1. LocalCount(p, j, m)' = n
      BY <1>2, <2>3 DEF LocalCount
    <3>2. QED
      BY <1>10, <2>1, <2>3, <3>1
  <2>4. CASE p = s /\ j # k /\ LocalCount(p, j, m) # 0
    <3>1. j \in DOMAIN local[s] /\ local[s][j].window = m
      BY <2>4 DEF LocalCount
    <3>2. j \in DOMAIN map
      BY <1>8, <1>12, <3>1
    <3>3. local'[s][j] = local[s][j] /\ j \in DOMAIN local'[s]
      BY <1>2, <1>6, <2>4, <3>2
    <3>4. LocalCount(p, j, m)' = LocalCount(p, j, m)
      BY <2>4, <3>1, <3>3 DEF LocalCount
    <3>5. QED
      BY <2>1, <3>4
  <2>5. CASE LocalCount(p, j, m) = 0
    <3>1. LocalCount(p, j, m)' \in Nat
      <4>1. TypeOK'
        BY TypeIsKept DEF Next
      <4>2. QED
        BY <4>1, BucketsTyped DEF TypeOK, LocalCount, Buckets
    <3>2. QED
      BY <2>5, <3>1
\* No bucket is of a minute to come.
  <2>6. CASE p = s /\ j = k /\ m # now
    <3>1. ~(j \in DOMAIN local[p] /\ local[p][j].window = m)
      <4>1. \A w \in Minutes : w = m => ~(w <= minute)
        BY <1>1, <1>9, <1>12, <2>6
      <4>2. QED
        BY <4>1, BucketsTyped DEF NotAhead
    <3>2. LocalCount(p, j, m) = 0
      BY <3>1 DEF LocalCount
    <3>3. QED
      BY <2>5, <3>2
  <2>7. QED
    BY <2>2, <2>3, <2>4, <2>5, <2>6
<1>13. /\ req'[r].count = LocalCount(s, k, now) + 1
       /\ LocalCount(s, k, now)' = LocalCount(s, k, now) + 1
       /\ s \in fellBack'[k][now]
  BY <1>1, <1>4, <1>10, <1>11, FallbackNoted
<1>14. /\ s \in Servers /\ k \in Keys /\ now \in Minutes /\ now = minute
       /\ UNCHANGED <<minute, redis, touched, admitted>>
       /\ \E i : Turns(r, [phase |-> "decide", server |-> s, key |-> k,
                           window |-> now, count |-> i])
  BY <1>1, <1>2, <1>3, <1>9
<1>15. \E p \in Servers, j \in Keys, i \in Minutes :
         /\ i = minute /\ UNCHANGED <<minute, redis, touched, admitted>>
         /\ \E l : Turns(r, [phase |-> "decide", server |-> p, key |-> j,
                             window |-> i, count |-> l])
         /\ req'[r].count = LocalCount(p, j, i) + 1
         /\ LocalCount(p, j, i)' = LocalCount(p, j, i) + 1
         /\ p \in fellBack'[j][i]
  BY <1>13, <1>14, Zenon
<1>16. QED
  BY <1>12, <1>15, Zenon

LEMMA IncrementLocalAccounted ==
    ASSUME TypeOK, TypeOK', NotAhead, AllAccounted, NEW r \in Requests, IncrementLocal(r)
    PROVE  AllAccounted'
<1>1. PICK s \in Servers, k0 \in Keys, now \in Minutes :
        /\ now = minute /\ UNCHANGED <<minute, redis, touched, admitted>>
        /\ \E n : Turns(r, [phase |-> "decide", server |-> s, key |-> k0,
                            window |-> now, count |-> n])
        /\ req'[r].count = LocalCount(s, k0, now) + 1
        /\ LocalCount(s, k0, now)' = LocalCount(s, k0, now) + 1
        /\ s \in fellBack'[k0][now]
  BY MapCountsUp
<1>2. \A p \in Servers, j \in Keys, m \in Minutes :
        m < minute \/ LocalCount(p, j, m) <= LocalCount(p, j, m)'
  BY MapCountsUp
<1>3. PICK n : Turns(r, [phase |-> "decide", server |-> s, key |-> k0,
                         window |-> now, count |-> n])
  BY <1>1
<1>4. req'[r].phase = "decide" /\ req'[r].key = k0 /\ req'[r].window = now
  BY <1>3 DEF Turns
<1>5. SUFFICES ASSUME NEW k \in Keys, NEW m \in Minutes
               PROVE  \E taken \in SUBSET Accounts(k, m)', by \in [Requests -> Sources] :
                        Accounted(k, m, taken, by)'
  BY DEF AllAccounted
<1>6. PICK taken \in SUBSET Accounts(k, m), by \in [Requests -> Sources] :
        Accounted(k, m, taken, by)
  BY DEF AllAccounted
<1>6a. fellBack[k][m] \subseteq fellBack'[k][m]
  BY FallbackNoted
<1>7. \A c \in Sources, i \in Nat : Given(c, i, k, m) => Given(c, i, k, m)'
  <2>1. redis[k][m] <= redis'[k][m] /\ minute <= minute' /\ minute' = minute
    BY <1>1, CounterTyped, MinutesAreNumbers
  <2>2. \A p \in Servers : m < minute' \/ LocalCount(p, k, m) <= LocalCount(p, k, m)'
    BY <1>2, <2>1
  <2>3. QED
    BY <2>1, <2>2, GivenStays
<1>8. \A p \in Requests :
        p # r /\ Deciding(p, k, m)' => Deciding(p, k, m) /\ req'[p].count = req[p].count
  BY <1>3, OthersDecided
<1>9. CASE k = k0 /\ m = now
  <2>1. s \in Sources /\ s \in Used(k, m)' /\ s # Redis
    BY <1>1, <1>9, RedisIsNoServer DEF Used, Sources
  <2>2. ~Over(s, m)
    BY <1>1, <1>9, <2>1, MinutesAreNumbers DEF Over
  <2>3. Reading(s, k, m) = LocalCount(s, k, m) /\ Reading(s, k, m)' = LocalCount(s, k, m)'
    BY <2>1 DEF Reading
  <2>4. /\ req'[r].count = Reading(s, k, m) + 1
        /\ Reading(s, k, m)' = Reading(s, k, m) + 1
    BY <1>1, <1>9, <2>3
  <2>5. /\ taken \in SUBSET Accounts(k, m)'
        /\ Accounted(k, m, taken, [by EXCEPT ![r] = s])'
    BY <1>6a, <1>1, <1>6, <1>7, <1>8, <2>1, <2>2, <2>4, OneCounted
  <2>6. [by EXCEPT ![r] = s] \in [Requests -> Sources]
    BY DEF Sources
  <2>7. QED
    BY <2>5, <2>6
<1>10. CASE ~(k = k0 /\ m = now)
  <2>1. ~Deciding(r, k, m)'
    BY <1>4, <1>10 DEF Deciding
  <2>2. \A p \in Requests :
          Deciding(p, k, m)' => Deciding(p, k, m) /\ req'[p].count = req[p].count
    BY <1>8, <2>1
  <2>3. taken \in SUBSET Accounts(k, m)' /\ Accounted(k, m, taken, by)'
    BY <1>6a, <1>1, <1>6, <1>7, <2>2, NothingCounted
  <2>4. QED
    BY <2>3
<1>11. QED
  BY <1>9, <1>10

\* Steps that count and decide nothing: what Redis forgets counts no more.
LEMMA QuietAccounted ==
    ASSUME TypeOK, TypeOK', AllAccounted, UNCHANGED <<local, admitted, fellBack>>,
           minute <= minute',
           \A k \in Keys, m \in Minutes : m + 1 < minute' \/ redis[k][m] <= redis'[k][m],
           \A r \in Requests : req'[r].phase = "decide" => req'[r] = req[r]
    PROVE  AllAccounted'
<1>1. SUFFICES ASSUME NEW k \in Keys, NEW m \in Minutes
               PROVE  \E taken \in SUBSET Accounts(k, m)', by \in [Requests -> Sources] :
                        Accounted(k, m, taken, by)'
  BY DEF AllAccounted
<1>2. PICK taken \in SUBSET Accounts(k, m), by \in [Requests -> Sources] :
        Accounted(k, m, taken, by)
  BY DEF AllAccounted
<1>3. \A s \in Servers : LocalCount(s, k, m) <= LocalCount(s, k, m)'
  <2>1. \A s \in Servers : LocalCount(s, k, m)' = LocalCount(s, k, m)
    BY DEF LocalCount
  <2>2. QED
    BY <2>1, CounterTyped
<1>4. \A c \in Sources, i \in Nat : Given(c, i, k, m) => Given(c, i, k, m)'
  BY <1>3, GivenStays
<1>5. \A r \in Requests :
        Deciding(r, k, m)' => Deciding(r, k, m) /\ req'[r].count = req[r].count
  BY DEF Deciding
<1>6. taken \in SUBSET Accounts(k, m)' /\ Accounted(k, m, taken, by)'
  BY <1>2, <1>4, <1>5, NothingCounted
<1>7. QED
  BY <1>6

\* Raising a counter in its minute or the next.
LEMMA RaisedInTime ==
    ASSUME TypeOK, Timely, NEW r \in Requests, At(r, "redis"),
           RedisIncrements(req[r].key, req[r].window)
    PROVE  \A k \in Keys, m \in Minutes : redis'[k][m] > 0 => m <= touched'[k][m]
<1>1. PICK k0 \in Keys, m0 \in Minutes : k0 = req[r].key /\ m0 = req[r].window
  BY FlightTyped DEF At
<1>2. m0 <= minute
  BY <1>1 DEF Timely
<1>3. /\ redis' = [redis EXCEPT ![k0][m0] = @ + 1]
      /\ touched' = [touched EXCEPT ![k0][m0] = minute]
  BY <1>1 DEF RedisIncrements
<1>4. SUFFICES ASSUME NEW k \in Keys, NEW m \in Minutes, redis'[k][m] > 0
               PROVE  m <= touched'[k][m]
  OBVIOUS
<1>5. CASE k = k0 /\ m = m0
  BY <1>2, <1>3, <1>5 DEF TypeOK
<1>6. CASE ~(k = k0 /\ m = m0)
  <2>1. redis'[k][m] = redis[k][m] /\ touched'[k][m] = touched[k][m]
    BY <1>3, <1>6 DEF TypeOK
  <2>2. QED
    BY <1>4, <2>1 DEF Timely
<1>7. QED
  BY <1>5, <1>6

LEMMA TimelyIsKept ==
    ASSUME TypeOK, Timely, [Next]_limiterVars
    PROVE  Timely'
<1> DEFINE Calls == \A r \in Requests : At(r, "redis") =>
                      UseRedis /\ req[r].window <= minute /\ minute <= req[r].window + 1
           Raised == \A k \in Keys, m \in Minutes : redis[k][m] > 0 => m <= touched[k][m]
<1>1. Calls /\ Raised
  BY DEF Timely
\* A request that turns to anything but a call to Redis adds no call.
<1>2. ASSUME NEW r \in Requests, NEW new, Turns(r, new), new.phase # "redis", minute' = minute
      PROVE  Calls'
  BY <1>1, <1>2 DEF Turns, At
<1>3. ASSUME NEW r \in Requests, Arrive(r)
      PROVE  Timely'
  <2>1. PICK s \in Servers, k \in Keys :
          req' = [req EXCEPT ![r] = [phase |-> IF UseRedis THEN "redis" ELSE "local",
                                     server |-> s, key |-> k, window |-> minute, count |-> 0]]
    BY <1>3 DEF Arrive
  <2>2. minute \in Nat /\ minute' = minute /\ redis' = redis /\ touched' = touched
    BY <1>3, MinutesAreNumbers DEF Arrive
  <2>3. ASSUME NEW p \in Requests, req'[p].phase = "redis"
        PROVE  UseRedis /\ req'[p].window <= minute /\ minute <= req'[p].window + 1
    <3>1. CASE p = r
      <4>1. req'[p].window = minute /\ UseRedis
        BY <2>1, <2>3, <3>1 DEF TypeOK
      <4>2. QED
        BY <2>2, <4>1
    <3>2. CASE p # r
      <4>1. req'[p] = req[p]
        BY <2>1, <3>2 DEF TypeOK
      <4>2. QED
        BY <1>1, <2>3, <4>1 DEF At
    <3>3. QED
      BY <3>1, <3>2
  <2>4. QED
    BY <1>1, <2>2, <2>3 DEF Timely, At
<1>4. ASSUME NEW r \in Requests, RedisCounts(r)
      PROVE  Timely'
  <2>1. Calls'
    BY <1>2, <1>4, RedisCountsDoes
  <2>2. Raised'
    BY <1>4, RaisedInTime DEF RedisCounts
  <2>3. QED
    BY <2>1, <2>2 DEF Timely
<1>5. ASSUME NEW r \in Requests, RedisReplyLost(r) \/ RedisFails(r)
      PROVE  Timely'
  <2>1. Turns(r, [phase |-> "local", server |-> req[r].server, key |-> req[r].key,
                  window |-> req[r].window, count |-> 0]) /\ minute' = minute
    BY <1>5, FallBackDoes DEF RedisReplyLost, RedisFails
  <2>2. Calls'
    BY <1>2, <2>1
  <2>3. Raised'
    BY <1>1, <1>5, RaisedInTime DEF RedisReplyLost, RedisFails
  <2>4. QED
    BY <2>2, <2>3 DEF Timely
<1>6. ASSUME NEW r \in Requests, IncrementLocal(r)
      PROVE  Timely'
  <2>1. PICK s, k, now, n : Turns(r, [phase |-> "decide", server |-> s, key |-> k,
                                      window |-> now, count |-> n])
    BY <1>6, IncrementLocalDoes
  <2>2. UNCHANGED <<minute, redis, touched>>
    BY <1>6 DEF IncrementLocal
  <2>3. Calls'
    BY <1>2, <2>1, <2>2
  <2>4. QED
    BY <1>1, <2>2, <2>3 DEF Timely
<1>7. ASSUME NEW r \in Requests, Decide(r)
      PROVE  Timely'
  <2>1. Turns(r, Idle) /\ UNCHANGED <<minute, redis, touched>>
    BY <1>7, DecideDoes
  <2>2. Calls'
    BY <1>2, <2>1 DEF Idle
  <2>3. QED
    BY <1>1, <2>1, <2>2 DEF Timely
<1>8. CASE RedisExpires
  <2>1. UNCHANGED <<minute, touched, req>>
    BY <1>8, ExpiryDoes
  <2>2. \A k \in Keys, m \in Minutes : redis'[k][m] > 0 => redis[k][m] > 0
    <3>1. \A k \in Keys, m \in Minutes :
            redis'[k][m] <= redis[k][m] /\ redis[k][m] \in Nat /\ redis'[k][m] \in Nat
      BY <1>8, ExpiryDoes DEF TypeOK
    <3>2. QED
      BY <3>1
  <2>3. QED
    BY <1>1, <2>1, <2>2 DEF Timely, At
<1>9. CASE NextMinute
  <2>1. /\ minute \in Nat /\ minute' = minute + 1 /\ UNCHANGED <<redis, touched, req>>
        /\ \A r \in Requests : At(r, "redis") => req[r].window = minute
    BY <1>9, MinutesAreNumbers DEF NextMinute
  <2>2. Calls'
    BY <1>1, <2>1 DEF At
  <2>3. QED
    BY <1>1, <2>1, <2>2 DEF Timely
<1>10. CASE UNCHANGED limiterVars
  BY <1>1, <1>10 DEF limiterVars, Timely, At
<1>11. QED
  BY <1>3, <1>4, <1>5, <1>6, <1>7, <1>8, <1>9, <1>10 DEF Next

LEMMA AccountedIsKept ==
    ASSUME TypeOK, TypeOK', NotAhead, Timely, AllAccounted, [Next]_limiterVars
    PROVE  AllAccounted'
<1>1. minute \in Nat /\ \A k \in Keys, m \in Minutes : m \in Nat /\ redis[k][m] \in Nat
  BY MinutesAreNumbers, CounterTyped
<1>2. ASSUME NEW r \in Requests, Arrive(r) \/ RedisReplyLost(r) \/ RedisFails(r)
      PROVE  AllAccounted'
  <2>1. PICK new : Turns(r, new) /\ new.phase # "decide"
    <3>1. CASE Arrive(r)
      <4>1. PICK s \in Servers, k \in Keys, phase \in {"redis", "local"} :
              Turns(r, [phase |-> phase, server |-> s, key |-> k, window |-> minute, count |-> 0])
        BY <3>1, ArriveDoes
      <4>2. [phase |-> phase, server |-> s, key |-> k, window |-> minute,
             count |-> 0].phase # "decide"
        OBVIOUS
      <4>3. QED
        BY <4>1, <4>2
    <3>2. CASE RedisReplyLost(r) \/ RedisFails(r)
      <4>1. Turns(r, [phase |-> "local", server |-> req[r].server, key |-> req[r].key,
                      window |-> req[r].window, count |-> 0])
        BY <3>2, FallBackDoes DEF RedisReplyLost, RedisFails
      <4>2. QED
        BY <4>1
    <3>3. QED
      BY <1>2, <3>1, <3>2
  <2>2. UNCHANGED <<local, admitted, minute, fellBack>>
    BY <1>2 DEF Arrive, RedisReplyLost, RedisFails
  <2>3. \A k \in Keys, m \in Minutes : redis[k][m] <= redis'[k][m]
    <3>1. CASE UNCHANGED redis
      BY <1>1, <3>1
    <3>2. CASE RedisReplyLost(r)
      BY <1>1, <3>2, IncrementDoes DEF RedisReplyLost, Raises
    <3>3. QED
      BY <1>2, <3>1, <3>2 DEF Arrive, RedisFails
  <2>4. \A p \in Requests : req'[p].phase = "decide" => req'[p] = req[p]
    BY <2>1 DEF Turns
  <2>5. QED
    BY <1>1, <2>2, <2>3, <2>4, QuietAccounted
<1>3. ASSUME NEW r \in Requests, Decide(r)
      PROVE  AllAccounted'
  <2>1. ASSUME NEW k \in Keys, NEW m \in Minutes
        PROVE  \E taken \in SUBSET Accounts(k, m)', by \in [Requests -> Sources] :
                 Accounted(k, m, taken, by)'
    <3>1. PICK taken \in SUBSET Accounts(k, m), by \in [Requests -> Sources] :
            Accounted(k, m, taken, by)
      BY DEF AllAccounted
    <3>2. PICK later \in SUBSET Accounts(k, m)' : Accounted(k, m, later, by)'
      BY <1>3, <3>1, OneAdmitted
    <3>3. QED
      BY <3>2
  <2>2. QED
    BY <2>1 DEF AllAccounted
<1>4. CASE RedisExpires
  <2>1. PICK j \in Keys, n \in Minutes :
          /\ redis[j][n] > 0 /\ minute >= touched[j][n] + 2
          /\ redis' = [redis EXCEPT ![j][n] = 0]
    BY <1>4 DEF RedisExpires
  <2>2. UNCHANGED <<minute, local, req, admitted, fellBack>>
    BY <1>4 DEF RedisExpires
  <2>3. n + 1 < minute
    <3>1. n <= touched[j][n] /\ touched[j][n] \in Minutes
      BY <2>1 DEF Timely, TypeOK
    <3>2. QED
      BY <1>1, <2>1, <3>1
  <2>4. \A k \in Keys, m \in Minutes : m + 1 < minute' \/ redis[k][m] <= redis'[k][m]
    <3>1. SUFFICES ASSUME NEW k \in Keys, NEW m \in Minutes, ~(k = j /\ m = n)
                   PROVE  redis[k][m] <= redis'[k][m]
      BY <2>2, <2>3
    <3>2. redis'[k][m] = redis[k][m]
      BY <2>1, <3>1 DEF TypeOK
    <3>3. QED
      BY <1>1, <3>2
  <2>5. QED
    BY <1>1, <2>2, <2>4, QuietAccounted
<1>5. CASE NextMinute \/ UNCHANGED limiterVars
  <2>1. UNCHANGED <<local, admitted, req, redis, fellBack>> /\ minute <= minute'
    BY <1>1, <1>5 DEF NextMinute, limiterVars
  <2>2. QED
    BY <1>1, <2>1, QuietAccounted
<1>6. QED
  BY <1>2, <1>3, <1>4, <1>5, RedisCountsAccounted, IncrementLocalAccounted DEF Next

LEMMA AccountedAtFirst ==
    ASSUME Init
    PROVE  Timely /\ AllAccounted
<1>1. \A r \in Requests : req[r].phase = "idle"
  BY DEF Init, Idle
<1>2. \A k \in Keys, m \in Minutes : redis[k][m] = 0 /\ admitted[k][m] = 0
  BY DEF Init, ZeroCounts
<1>3. Timely
  BY <1>1, <1>2 DEF Timely, At
<1> DEFINE by == [r \in Requests |-> Redis]
<1>4. by \in [Requests -> Sources] /\ \A k, m : {} \in SUBSET Accounts(k, m)
  BY DEF Sources
<1>5. \A k \in Keys, m \in Minutes : Accounted(k, m, {}, by)
  BY <1>1, <1>2, FS_EmptySet DEF Accounted, Deciding
<1>6. AllAccounted
  BY <1>4, <1>5 DEF AllAccounted
<1>7. QED
  BY <1>3, <1>6

\* There are no more accounts than the property allows.
LEMMA AccountsCounted ==
    ASSUME TypeOK, NEW k \in Keys, NEW m \in Minutes
    PROVE  /\ IsFiniteSet(Accounts(k, m))
           /\ Cardinality(Accounts(k, m)) =
                Limit * ((IF UseRedis THEN 1 ELSE 0) + Cardinality(fellBack[k][m]))
<1> DEFINE both == (IF UseRedis THEN 1 ELSE 0) + Cardinality(fellBack[k][m])
<1>1. /\ Limit \in Nat \ {0} /\ IsFiniteSet(fellBack[k][m])
      /\ Cardinality(fellBack[k][m]) \in Nat /\ Redis \notin fellBack[k][m]
  BY LimiterAssumption, UsedTyped, FS_CardinalityType, RedisIsNoServer DEF TypeOK
<1>2. IsFiniteSet(Used(k, m)) /\ Cardinality(Used(k, m)) = both
  <2>1. CASE UseRedis
    <3>1. Used(k, m) = fellBack[k][m] \cup {Redis}
      BY <2>1 DEF Used
    <3>2. /\ IsFiniteSet(Used(k, m))
          /\ Cardinality(Used(k, m)) = Cardinality(fellBack[k][m]) + 1
      <4>1. PICK backs : backs = fellBack[k][m]
        OBVIOUS
      <4>2. /\ IsFiniteSet(backs \cup {Redis})
            /\ Cardinality(backs \cup {Redis}) = Cardinality(backs) + 1
        BY <1>1, <4>1, FS_AddElement
      <4>3. QED
        BY <3>1, <4>1, <4>2
    <3>3. QED
      BY <1>1, <2>1, <3>2
  <2>2. CASE ~UseRedis
    <3>1. Used(k, m) = fellBack[k][m]
      BY <2>2 DEF Used
    <3>2. QED
      BY <1>1, <2>2, <3>1
  <2>3. QED
    BY <2>1, <2>2
<1>3. IsFiniteSet(1..Limit) /\ Cardinality(1..Limit) = Limit
  BY <1>1, FS_Interval
<1>4. /\ IsFiniteSet(Accounts(k, m))
      /\ Cardinality(Accounts(k, m)) = Cardinality(Used(k, m)) * Cardinality(1..Limit)
  BY <1>2, <1>3, FS_Product DEF Accounts
<1>5. both \in Nat
  BY <1>1
<1> HIDE DEF both
<1>6. both * Limit = Limit * both
  BY <1>1, <1>5
<1>7. Cardinality(Accounts(k, m)) = Limit * both
  BY <1>2, <1>3, <1>4, <1>6
<1>8. QED
  BY <1>4, <1>7 DEF both

-------------------------------------------------------------------------------
\* The state keeps its shape: in particular every request that reaches its
\* decision was counted, by Redis or in a map.
THEOREM LimiterTypeCorrect == Spec => []TypeOK
<1>1. Init => TypeOK
  BY TypeHoldsAtFirst
<1>2. TypeOK /\ [Next]_limiterVars => TypeOK'
  BY TypeIsKept
<1>3. QED
  BY <1>1, <1>2, PTL DEF Spec

\* Beyond the threshold of cleanupLocal a map holds buckets of one minute only.
THEOREM StaleBucketsAreDropped == Spec => []StaleBucketsBounded
<1>1. Init => Bounded
  BY BoundedAtFirst
<1>2. TypeOK /\ Bounded /\ [Next]_limiterVars => Bounded'
  BY BoundedIsKept
<1>3. Bounded => StaleBucketsBounded
  BY DEF Bounded
<1>4. QED
  BY <1>1, <1>2, <1>3, LimiterTypeCorrect, PTL DEF Spec

\* A request is refused only when its key really asked more than the limit
\* allows in that minute, whatever the Redis calls did.
THEOREM RefusalsAreEarned == Spec => []RefusedOnlyWhenBusy
<1>1. Init => Honest
  BY HonestAtFirst
<1>2. TypeOK /\ TypeOK' /\ Honest /\ [Next]_limiterVars => Honest'
  BY HonestIsKept
<1>3. TypeOK /\ Honest => RefusedOnlyWhenBusy
  <2>1. SUFFICES ASSUME TypeOK, Honest, NEW r \in Requests, At(r, "decide"),
                        req[r].count > Limit
                 PROVE  asked[req[r].key][req[r].window] > Limit
    BY DEF RefusedOnlyWhenBusy
  <2>2. /\ req[r].count \in Nat /\ req[r].key \in Keys /\ req[r].window \in Minutes
    BY <2>1, FlightTyped DEF At
  <2>3. asked[req[r].key][req[r].window] \in Nat
    BY <2>1, <2>2 DEF TypeOK
  <2>4. req[r].count <= asked[req[r].key][req[r].window]
    BY <2>1 DEF Honest, CountsWithinAsked
  <2>5. QED
    BY <2>1, <2>2, <2>3, <2>4, LimiterAssumption
<1>4. QED
  BY <1>1, <1>2, <1>3, LimiterTypeCorrect, PTL DEF Spec

\* In a minute a key gets no more requests through than the limit once by Redis
\* and once by each server that fell back to its map, however calls fail and
\* counters are dropped.
THEOREM AdmissionsAreBounded == Spec => []AdmittedWithinLimit
<1>1. Init => Bounded
  BY BoundedAtFirst
<1>2. Init => Timely /\ AllAccounted
  BY AccountedAtFirst
<1>3. TypeOK /\ Bounded /\ [Next]_limiterVars => Bounded'
  BY BoundedIsKept
<1>4. TypeOK /\ TypeOK' /\ Bounded /\ Timely /\ AllAccounted /\ [Next]_limiterVars
        => (Timely /\ AllAccounted)'
  BY TimelyIsKept, AccountedIsKept DEF Bounded
<1>5. TypeOK /\ AllAccounted => AdmittedWithinLimit
  <2>1. SUFFICES ASSUME TypeOK, AllAccounted, NEW k \in Keys, NEW m \in Minutes
                 PROVE  admitted[k][m] <= Cardinality(Accounts(k, m))
    BY AccountsCounted DEF AdmittedWithinLimit
  <2>2. PICK taken \in SUBSET Accounts(k, m) : admitted[k][m] = Cardinality(taken)
    BY <2>1 DEF AllAccounted, Accounted
  <2>3. IsFiniteSet(Accounts(k, m))
    BY <2>1, AccountsCounted
  <2>4. QED
    BY <2>2, <2>3, FS_Subset
<1>6. QED
  BY <1>1, <1>2, <1>3, <1>4, <1>5, LimiterTypeCorrect, PTL DEF Spec
===============================================================================
