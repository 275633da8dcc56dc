----------------------------- MODULE StartupProofs -----------------------------
(***************************************************************************)
(* Seeding, proved for any number of servers coming up together, any       *)
(* tables and demo rows, and any number of stops and outages.              *)
(***************************************************************************)
EXTENDS Startup, TLAPS

-------------------------------------------------------------------------------
(* The invariant.                                                          *)

\* No row was ever put into table t.
Untouched(t) == \A c \in Codes[t] : rows[t][c] = "absent"

Seeded(t) == \A c \in Seeds[t] : rows[t][c] # "absent"

\* The demo rows are the first rows of a table.
SeedsComeFirst == \A t \in TableSet : Untouched(t) \/ Seeded(t)

\* Server s is done with the i-th table.
IsPast(s, i) == \/ At(s, "seed") /\ i < server[s].next
                \/ At(s, "insert") /\ i < server[s].next
                \/ At(s, "redis")
                \/ At(s, "serving")

PastIsSeeded ==
    \A s \in Servers : \A i \in 1..Len(Tables) : IsPast(s, i) => Seeded(Tables[i])

StartsWithTheFirst == \A s \in Servers : At(s, "connect") => server[s].next = 1

IInv == TypeOK /\ SeedsComeFirst /\ PastIsSeeded /\ StartsWithTheFirst

-------------------------------------------------------------------------------
LEMMA SomeTable ==
    ASSUME NEW i \in 1..Len(Tables)
    PROVE  Tables[i] \in TableSet
BY DEF TableSet

LEMMA ATablesPlace ==
    ASSUME NEW t \in TableSet
    PROVE  \E i \in 1..Len(Tables) : Tables[i] = t
BY DEF TableSet

\* The row a user or a seeding puts in leaves the other rows as they are.
RowsKeep == \A t \in TableSet : Seeded(t) => Seeded(t)'

LEMMA PastKeeps ==
    ASSUME PastIsSeeded, RowsKeep, NEW s \in Servers, NEW i \in 1..Len(Tables), IsPast(s, i)
    PROVE  Seeded(Tables[i])'
BY SomeTable DEF PastIsSeeded, RowsKeep

\* A step of server s that leaves the rows alone, after which it is past the
\* tables it was past before, at most.
LEMMA MovesKeep ==
    ASSUME IInv, NEW s \in Servers, UNCHANGED rows, TypeOK',
           \A p \in Servers : p # s => server'[p] = server[p],
           \A i \in 1..Len(Tables) : IsPast(s, i)' => IsPast(s, i),
           server'[s].phase = "connect" => server'[s].next = 1
    PROVE  IInv'
<1>1. SeedsComeFirst' /\ RowsKeep
  BY DEF IInv, SeedsComeFirst, RowsKeep, Untouched, Seeded
<1>2. ASSUME NEW p \in Servers, NEW i \in 1..Len(Tables), IsPast(p, i)'
      PROVE  Seeded(Tables[i])'
  <2>1. IsPast(p, i)
    BY <1>2 DEF IsPast, At
  <2>2. QED
    BY <1>1, <2>1, PastKeeps DEF IInv
<1>3. StartsWithTheFirst'
  BY DEF IInv, StartsWithTheFirst, At
<1>4. QED
  BY <1>1, <1>2, <1>3 DEF IInv, PastIsSeeded

LEMMA ServerTyped ==
    ASSUME TypeOK, NEW s \in Servers
    PROVE  /\ server[s].next \in 1..Len(Tables)
           /\ server[s] \in [phase : Phases, attempt : 0..MaxAttempts, next : 1..Len(Tables)]
BY DEF TypeOK

\* Where server s goes once the table it is at is seeded.
LEMMA NextKeeps ==
    ASSUME TypeOK, NEW s \in Servers, SeedNext(s), At(s, "seed") \/ At(s, "insert")
    PROVE  /\ server' \in [Servers -> [phase : Phases, attempt : 0..MaxAttempts,
                                       next : 1..Len(Tables)]]
           /\ \A p \in Servers : p # s => server'[p] = server[p]
           /\ \A i \in 1..Len(Tables) : IsPast(s, i)' => IsPast(s, i) \/ i = server[s].next
           /\ server'[s].phase # "connect"
<1>1. CASE server[s].next < Len(Tables)
  <2>1. server' = [server EXCEPT ![s] = [phase |-> "seed", attempt |-> server[s].attempt,
                                         next |-> server[s].next + 1]]
    BY <1>1, ServerTyped DEF SeedNext, TypeOK
  <2>2. server[s].next + 1 \in 1..Len(Tables) /\ server[s].attempt \in 0..MaxAttempts
    BY <1>1, ServerTyped, StartupAssumption
  <2>3. [phase |-> "seed", attempt |-> server[s].attempt, next |-> server[s].next + 1]
           \in [phase : Phases, attempt : 0..MaxAttempts, next : 1..Len(Tables)]
    BY <2>2 DEF Phases
  <2>4. QED
    BY <2>1, <2>2, <2>3, ServerTyped DEF TypeOK, IsPast, At
<1>2. CASE ~(server[s].next < Len(Tables))
  <2>1. server' = [server EXCEPT ![s] = [phase |-> "redis", attempt |-> server[s].attempt,
                                         next |-> server[s].next]]
    BY <1>2, ServerTyped DEF SeedNext, Goes, TypeOK
  <2>2. [phase |-> "redis", attempt |-> server[s].attempt, next |-> server[s].next]
           \in [phase : Phases, attempt : 0..MaxAttempts, next : 1..Len(Tables)]
    BY ServerTyped DEF Phases
  <2>3. server[s].next = Len(Tables)
    BY <1>2, ServerTyped, StartupAssumption
  <2>4. QED
    BY <2>1, <2>2, <2>3, ServerTyped, StartupAssumption DEF TypeOK, IsPast, At
<1>3. QED
  BY <1>1, <1>2

-------------------------------------------------------------------------------
(* The steps that only move a server.                                      *)

LEMMA ExitsKeep ==
    ASSUME IInv, NEW s \in Servers, Exits(s), UNCHANGED rows,
           stops' \in 0..MaxStops, outages' \in 0..MaxOutages, reachable' \in BOOLEAN
    PROVE  IInv'
<1>1. server' = [server EXCEPT ![s] = [phase |-> "down", attempt |-> 0, next |-> 1]]
  BY DEF Exits, Down
<1>2. [phase |-> "down", attempt |-> 0, next |-> 1]
         \in [phase : Phases, attempt : 0..MaxAttempts, next : 1..Len(Tables)]
  BY StartupAssumption DEF Phases
<1>3. TypeOK'
  BY <1>1, <1>2 DEF IInv, TypeOK
<1>4. \A i \in 1..Len(Tables) : ~IsPast(s, i)'
  BY <1>1 DEF IInv, TypeOK, IsPast, At
<1>5. server'[s].phase = "down"
  BY <1>1 DEF IInv, TypeOK
<1>6. QED
  BY <1>1, <1>3, <1>4, <1>5, MovesKeep DEF IInv, TypeOK

\* Server s comes to a phase in which it is past no table it was not past.
LEMMA GoesKeeps ==
    ASSUME IInv, NEW s \in Servers,
           NEW r \in [phase : Phases, attempt : 0..MaxAttempts, next : 1..Len(Tables)],
           server' = [server EXCEPT ![s] = r], UNCHANGED rows,
           r.phase = "connect" => r.next = 1,
           r.phase = "seed" => r.next = 1,
           r.phase = "insert" => At(s, "seed") /\ r.next = server[s].next,
           r.phase # "redis", r.phase = "serving" => At(s, "redis"),
           stops' \in 0..MaxStops, UNCHANGED <<outages, reachable>>
    PROVE  IInv'
<1>1. server'[s] = r /\ \A p \in Servers : p # s => server'[p] = server[p]
  BY DEF IInv, TypeOK
<1>2. TypeOK'
  BY DEF IInv, TypeOK
<1>3. \A i \in 1..Len(Tables) : IsPast(s, i)' => IsPast(s, i)
  BY <1>1 DEF IsPast, At
<1>4. QED
  BY <1>1, <1>2, <1>3, MovesKeep

LEMMA StartKeeps == ASSUME IInv, NEW s \in Servers, Start(s) PROVE IInv'
<1> DEFINE r == [phase |-> "connect", attempt |-> 1, next |-> 1]
<1>1. r \in [phase : Phases, attempt : 0..MaxAttempts, next : 1..Len(Tables)]
  BY StartupAssumption DEF Phases
<1>2. QED
  BY <1>1, GoesKeeps DEF Start, Same, IInv, TypeOK

\* The record of server s with one field changed.
LEMMA ChangedServer ==
    ASSUME TypeOK, NEW s \in Servers
    PROVE  /\ \A phase \in Phases :
                 [server[s] EXCEPT !.phase = phase]
                   = [phase |-> phase, attempt |-> server[s].attempt, next |-> server[s].next]
           /\ \A attempt \in 0..MaxAttempts :
                 [server[s] EXCEPT !.attempt = attempt]
                   = [phase |-> server[s].phase, attempt |-> attempt, next |-> server[s].next]
BY ServerTyped

LEMMA GoesTo ==
    ASSUME IInv, NEW s \in Servers, NEW phase \in Phases, Goes(s, phase), UNCHANGED rows,
           phase \notin {"connect", "redis"},
           phase = "seed" => At(s, "connect"),
           phase = "insert" => At(s, "seed"),
           phase = "serving" => At(s, "redis"),
           stops' \in 0..MaxStops, UNCHANGED <<outages, reachable>>
    PROVE  IInv'
<1> DEFINE r == [phase |-> phase, attempt |-> server[s].attempt, next |-> server[s].next]
<1>1. server' = [server EXCEPT ![s] = r]
  BY ChangedServer DEF Goes, IInv
<1>2. r \in [phase : Phases, attempt : 0..MaxAttempts, next : 1..Len(Tables)]
  BY ServerTyped DEF IInv
<1>3. At(s, "connect") => server[s].next = 1
  BY DEF IInv, StartsWithTheFirst
<1>4. QED
  BY <1>1, <1>2, <1>3, GoesKeeps

LEMMA ConnectKeeps == ASSUME IInv, NEW s \in Servers, Connect(s) PROVE IInv'
<1>1. /\ At(s, "connect") /\ UNCHANGED rows /\ stops' \in 0..MaxStops
      /\ UNCHANGED <<outages, reachable>>
  BY DEF Connect, Same, IInv, TypeOK
<1>2. CASE Goes(s, "seed")
  BY <1>1, <1>2, GoesTo DEF Phases
<1>3. CASE /\ server[s].attempt < MaxAttempts
           /\ server' = [server EXCEPT ![s].attempt = @ + 1]
  <2> DEFINE r == [phase |-> "connect", attempt |-> server[s].attempt + 1, next |-> 1]
  <2>1. server[s].attempt + 1 \in 0..MaxAttempts
    BY <1>3, ServerTyped, StartupAssumption DEF IInv
  <2>2. server[s].next = 1 /\ server[s].phase = "connect"
    BY <1>1 DEF IInv, StartsWithTheFirst, At
  <2>3. [server[s] EXCEPT !.attempt = server[s].attempt + 1] = r
    BY <2>1, <2>2, ChangedServer DEF IInv
  <2>4. server' = [server EXCEPT ![s] = [server[s] EXCEPT !.attempt = server[s].attempt + 1]]
    BY <1>3
  <2>5. server' = [server EXCEPT ![s] = r]
    BY <2>3, <2>4
  <2>6. r \in [phase : Phases, attempt : 0..MaxAttempts, next : 1..Len(Tables)]
    BY <2>1, StartupAssumption DEF Phases
  <2>7. QED
    BY <1>1, <2>5, <2>6, GoesKeeps
<1>4. CASE Exits(s)
  BY <1>1, <1>4, ExitsKeep DEF IInv, TypeOK
<1>5. QED
  BY <1>2, <1>3, <1>4 DEF Connect

-------------------------------------------------------------------------------
(* Seeding.                                                                *)

\* A table that is not empty has its demo rows: they were the first in it.
LEMMA CountRowsKeeps == ASSUME IInv, NEW s \in Servers, CountRows(s) PROVE IInv'
<1>1. /\ At(s, "seed") /\ UNCHANGED rows /\ Same /\ stops' \in 0..MaxStops
      /\ outages' \in 0..MaxOutages /\ reachable' \in BOOLEAN
  BY DEF CountRows, Same, IInv, TypeOK
<1> DEFINE n == server[s].next
<1>2. n \in 1..Len(Tables) /\ Tables[n] \in TableSet
  BY ServerTyped, SomeTable DEF IInv
<1>3. CASE Exits(s)
  BY <1>1, <1>3, ExitsKeep
<1>4. CASE Goes(s, "insert")
  BY <1>1, <1>4, GoesTo DEF Phases, Same
<1>5. CASE ~NeedsSeed(Tables[n]) /\ SeedNext(s)
  <2>1. Seeded(Tables[n])
    <3>1. ~Untouched(Tables[n])
      BY <1>5 DEF NeedsSeed, Untouched
    <3>2. QED
      BY <1>2, <3>1 DEF IInv, SeedsComeFirst
  <2>2. /\ server' \in [Servers -> [phase : Phases, attempt : 0..MaxAttempts,
                                     next : 1..Len(Tables)]]
        /\ \A p \in Servers : p # s => server'[p] = server[p]
        /\ \A i \in 1..Len(Tables) : IsPast(s, i)' => IsPast(s, i) \/ i = n
        /\ server'[s].phase # "connect"
    BY <1>1, <1>5, NextKeeps DEF IInv
  <2>3. SeedsComeFirst' /\ RowsKeep
    BY <1>1 DEF IInv, SeedsComeFirst, RowsKeep, Untouched, Seeded
  <2>4. ASSUME NEW p \in Servers, NEW i \in 1..Len(Tables), IsPast(p, i)'
        PROVE  Seeded(Tables[i])'
    <3>1. CASE IsPast(p, i)
      BY <2>3, <3>1, PastKeeps DEF IInv
    <3>2. CASE p = s /\ i = n
      BY <1>2, <2>1, <2>3, <3>2 DEF RowsKeep
    <3>3. IsPast(p, i) \/ (p = s /\ i = n)
      <4>1. CASE p = s
        <5>1. IsPast(s, i)'
          BY <2>4, <4>1 DEF IsPast, At
        <5>2. QED
          BY <2>2, <4>1, <5>1
      <4>2. CASE p # s
        <5>1. server'[p] = server[p]
          BY <2>2, <4>2
        <5>2. QED
          BY <2>4, <5>1 DEF IsPast, At
      <4>3. QED
        BY <4>1, <4>2
    <3>4. QED
      BY <3>1, <3>2, <3>3
  <2>5. TypeOK' /\ StartsWithTheFirst'
    BY <1>1, <2>2 DEF IInv, TypeOK, StartsWithTheFirst, At
  <2>6. QED
    BY <2>3, <2>4, <2>5 DEF IInv, PastIsSeeded
<1>6. QED
  BY <1>3, <1>4, <1>5 DEF CountRows

LEMMA InsertSeedsKeeps == ASSUME IInv, NEW s \in Servers, InsertSeeds(s) PROVE IInv'
<1> DEFINE n == server[s].next
<1>1. /\ At(s, "insert") /\ Same /\ stops' \in 0..MaxStops
      /\ outages' \in 0..MaxOutages /\ reachable' \in BOOLEAN
  BY DEF InsertSeeds, Same, IInv, TypeOK
<1>2. PICK t \in TableSet : t = Tables[n]
  BY ServerTyped, SomeTable DEF IInv
<1>3. CASE UNCHANGED rows /\ Exits(s)
  BY <1>1, <1>3, ExitsKeep
<1>4. CASE /\ rows' = [rows EXCEPT ![t] = [c \in Codes[t] |->
                                             IF c \in Seeds[t] THEN "live" ELSE @[c]]]
           /\ SeedNext(s)
  <2>1. /\ DOMAIN rows' = TableSet
        /\ \A u \in TableSet : u # t => rows'[u] = rows[u]
        /\ rows'[t] = [c \in Codes[t] |-> IF c \in Seeds[t] THEN "live" ELSE rows[t][c]]
    BY <1>4 DEF IInv, TypeOK
  <2>2. Seeded(t)'
    BY <2>1, StartupAssumption DEF Seeded
  <2>3. SeedsComeFirst' /\ RowsKeep
    BY <2>1, <2>2 DEF IInv, SeedsComeFirst, RowsKeep, Untouched, Seeded
  <2>4. /\ server' \in [Servers -> [phase : Phases, attempt : 0..MaxAttempts,
                                     next : 1..Len(Tables)]]
        /\ \A p \in Servers : p # s => server'[p] = server[p]
        /\ \A i \in 1..Len(Tables) : IsPast(s, i)' => IsPast(s, i) \/ i = n
        /\ server'[s].phase # "connect"
    BY <1>1, <1>4, NextKeeps DEF IInv
  <2>5. ASSUME NEW p \in Servers, NEW i \in 1..Len(Tables), IsPast(p, i)'
        PROVE  Seeded(Tables[i])'
    <3>1. CASE IsPast(p, i)
      BY <2>3, <3>1, PastKeeps DEF IInv
    <3>2. CASE p = s /\ i = n
      BY <1>2, <2>2, <3>2
    <3>3. IsPast(p, i) \/ (p = s /\ i = n)
      <4>1. CASE p = s
        <5>1. IsPast(s, i)'
          BY <2>5, <4>1 DEF IsPast, At
        <5>2. QED
          BY <2>4, <4>1, <5>1
      <4>2. CASE p # s
        <5>1. server'[p] = server[p]
          BY <2>4, <4>2
        <5>2. QED
          BY <2>5, <5>1 DEF IsPast, At
      <4>3. QED
        BY <4>1, <4>2
    <3>4. QED
      BY <3>1, <3>2, <3>3
  <2>6. TypeOK' /\ StartsWithTheFirst'
    <3>1. ASSUME NEW u \in TableSet
          PROVE  rows'[u] \in [Codes[u] -> {"absent", "live", "deleted"}]
      <4>1. rows[u] \in [Codes[u] -> {"absent", "live", "deleted"}]
        BY DEF IInv, TypeOK
      <4>2. CASE u = t
        BY <2>1, <4>1, <4>2
      <4>3. CASE u # t
        BY <2>1, <4>1, <4>3
      <4>4. QED
        BY <4>2, <4>3
    <3>2. QED
      BY <1>1, <2>1, <2>4, <3>1 DEF IInv, TypeOK, StartsWithTheFirst, At
  <2>7. QED
    BY <2>3, <2>5, <2>6 DEF IInv, PastIsSeeded
<1>5. QED
  BY <1>2, <1>3, <1>4 DEF InsertSeeds

LEMMA ConnectRedisKeeps == ASSUME IInv, NEW s \in Servers, ConnectRedis(s) PROVE IInv'
<1>1. /\ At(s, "redis") /\ UNCHANGED <<rows, reachable, outages>>
      /\ stops' \in 0..MaxStops /\ outages' \in 0..MaxOutages /\ reachable' \in BOOLEAN
  BY StartupAssumption DEF ConnectRedis, IInv, TypeOK
<1>2. CASE Goes(s, "serving")
  BY <1>1, <1>2, GoesTo DEF Phases
<1>3. CASE Exits(s)
  BY <1>1, <1>3, ExitsKeep
<1>4. QED
  BY <1>2, <1>3 DEF ConnectRedis

-------------------------------------------------------------------------------
(* Users, stops and outages.                                               *)

\* Servers stay where they are, and no demo row is taken out of a table.
LEMMA UsersKeep ==
    ASSUME IInv, NEW s \in Servers, UserCreates(s) \/ UserDeletes(s)
    PROVE  IInv'
<1>1. At(s, "serving") /\ UNCHANGED <<server, stops, outages, reachable>>
  BY DEF UserCreates, UserDeletes, Same
<1>2. PICK t \in TableSet : \E c \in Codes[t], life \in {"live", "deleted"} :
        rows' = [rows EXCEPT ![t][c] = life]
  BY StartupAssumption DEF UserCreates, UserDeletes
<1> PICK c \in Codes[t], life \in {"live", "deleted"} : rows' = [rows EXCEPT ![t][c] = life]
  BY <1>2
<1>3. /\ DOMAIN rows' = TableSet
      /\ \A u \in TableSet : u # t => rows'[u] = rows[u]
      /\ rows'[t] = [rows[t] EXCEPT ![c] = life]
  BY DEF IInv, TypeOK
<1>4. ASSUME NEW u \in TableSet
      PROVE  Seeded(u) /\ Seeded(u)' /\ rows'[u] \in [Codes[u] -> {"absent", "live", "deleted"}]
  <2>1. PICK i \in 1..Len(Tables) : Tables[i] = u
    BY ATablesPlace
  <2>2. Seeded(u)
    BY <1>1, <2>1 DEF IInv, PastIsSeeded, IsPast
  <2>3. rows[u] \in [Codes[u] -> {"absent", "live", "deleted"}]
    BY DEF IInv, TypeOK
  <2>4. Seeds[u] \subseteq Codes[u]
    BY StartupAssumption
  <2>5. QED
    BY <1>3, <2>2, <2>3, <2>4 DEF Seeded
<1>5. TypeOK' /\ SeedsComeFirst' /\ StartsWithTheFirst'
  BY <1>1, <1>3, <1>4 DEF IInv, TypeOK, SeedsComeFirst, StartsWithTheFirst, At
<1>6. PastIsSeeded'
  BY <1>4, SomeTable DEF PastIsSeeded
<1>7. QED
  BY <1>5, <1>6 DEF IInv

LEMMA RestKeeps ==
    ASSUME IInv, UNCHANGED <<rows, server>>,
           stops' \in 0..MaxStops, outages' \in 0..MaxOutages, reachable' \in BOOLEAN
    PROVE  IInv'
BY DEF IInv, TypeOK, SeedsComeFirst, PastIsSeeded, StartsWithTheFirst, Untouched, Seeded,
       IsPast, At

-------------------------------------------------------------------------------
(* The theorems.                                                           *)

LEMMA StartupInit == Init => IInv
<1> SUFFICES ASSUME Init
             PROVE  IInv
  OBVIOUS
<1>1. Down \in [phase : Phases, attempt : 0..MaxAttempts, next : 1..Len(Tables)]
  BY StartupAssumption DEF Down, Phases
<1>2. TypeOK
  BY <1>1, StartupAssumption DEF Init, TypeOK
<1>3. \A t \in TableSet : Untouched(t)
  BY DEF Init, Untouched
<1>4. \A s \in Servers : server[s].phase = "down"
  BY DEF Init, Down
<1>5. QED
  BY <1>2, <1>3, <1>4
     DEF IInv, SeedsComeFirst, PastIsSeeded, StartsWithTheFirst, IsPast, At

LEMMA StartupNext == IInv /\ [Next]_startupVars => IInv'
<1> SUFFICES ASSUME IInv, [Next]_startupVars
             PROVE  IInv'
  OBVIOUS
<1>1. ASSUME NEW s \in Servers, Up(s)
      PROVE  IInv'
  BY <1>1, StartKeeps, ConnectKeeps, CountRowsKeeps, InsertSeedsKeeps, ConnectRedisKeeps
     DEF Up
<1>2. ASSUME NEW s \in Servers, Stop(s)
      PROVE  IInv'
  <2>1. /\ Exits(s) /\ UNCHANGED <<rows, reachable, outages>>
        /\ stops' \in 0..MaxStops /\ outages' \in 0..MaxOutages /\ reachable' \in BOOLEAN
    BY <1>2, StartupAssumption DEF Stop, IInv, TypeOK
  <2>2. QED
    BY <2>1, ExitsKeep
<1>3. CASE DatabaseDown \/ DatabaseUp \/ UNCHANGED startupVars
  <2>1. /\ UNCHANGED <<rows, server>>
        /\ stops' \in 0..MaxStops /\ outages' \in 0..MaxOutages /\ reachable' \in BOOLEAN
    <3>1. CASE DatabaseDown
      <4>1. /\ UNCHANGED <<rows, server, stops>> /\ reachable' = FALSE
            /\ outages' = outages + 1 /\ outages < MaxOutages
        BY <3>1 DEF DatabaseDown
      <4>2. outages \in Nat /\ stops \in 0..MaxStops /\ MaxOutages \in Nat
        BY StartupAssumption DEF IInv, TypeOK
      <4>3. outages' \in 0..MaxOutages
        BY <4>1, <4>2
      <4>4. QED
        BY <4>1, <4>2, <4>3
    <3>2. CASE DatabaseUp
      BY <3>2 DEF DatabaseUp, IInv, TypeOK
    <3>3. CASE UNCHANGED startupVars
      BY <3>3 DEF startupVars, IInv, TypeOK
    <3>4. QED
      BY <1>3, <3>1, <3>2, <3>3
  <2>2. QED
    BY <2>1, RestKeeps
<1>4. QED
  BY <1>1, <1>2, <1>3, UsersKeep DEF Next

LEMMA StartupInvariance == Spec => []IInv
BY StartupInit, StartupNext, PTL DEF Spec

\* However many servers start, stop and exit, no start looks past the last
\* table or tries more often than it may.
THEOREM StartupTypeCorrect == Spec => []TypeOK
<1>1. IInv => TypeOK
  BY DEF IInv
<1>2. QED
  BY <1>1, StartupInvariance, PTL

\* A server that serves has every demo row in its tables, unless a user has
\* deleted it: a count that sees a row is evidence of a whole seeding.
THEOREM ServersAreSeeded == Spec => []ServingIsSeeded
<1>1. IInv => ServingIsSeeded
  <2>1. SUFFICES ASSUME IInv, NEW s \in Servers, At(s, "serving"), NEW t \in TableSet
                 PROVE  Seeded(t)
    BY DEF ServingIsSeeded, Seeded
  <2>2. PICK i \in 1..Len(Tables) : Tables[i] = t
    BY ATablesPlace
  <2>3. QED
    BY <2>1, <2>2 DEF IInv, PastIsSeeded, IsPast
<1>2. QED
  BY <1>1, StartupInvariance, PTL

\* Whatever stops a server or takes the database away while it seeds, a table
\* has all of its demo rows or none.
THEOREM SeedingIsWhole == Spec => []SeedsAllOrNone
<1>1. IInv => SeedsAllOrNone
  BY StartupAssumption DEF IInv, SeedsComeFirst, SeedsAllOrNone, Untouched, Seeded
<1>2. QED
  BY <1>1, StartupInvariance, PTL

\* Neither seeding nor a restart brings a deleted row back or takes one away:
\* the insert fails on a code that is in use, by a deleted row too.
THEOREM DeletedRowsStay == Spec => DeletedStaysDeleted
<1>1. IInv /\ [Next]_startupVars =>
        [\A t \in TableSet : \A c \in Codes[t] :
            /\ rows[t][c] = "deleted" => rows'[t][c] = "deleted"
            /\ rows[t][c] = "live" => rows'[t][c] # "absent"]_startupVars
  <2> SUFFICES ASSUME IInv, Next, NEW t \in TableSet, NEW c \in Codes[t]
               PROVE  /\ rows[t][c] = "deleted" => rows'[t][c] = "deleted"
                      /\ rows[t][c] = "live" => rows'[t][c] # "absent"
    OBVIOUS
  <2>1. ASSUME NEW s \in Servers, InsertSeeds(s), rows' # rows
        PROVE  /\ rows[t][c] = "deleted" => rows'[t][c] = "deleted"
               /\ rows[t][c] = "live" => rows'[t][c] # "absent"
    <3>1. PICK u \in TableSet :
            /\ \A d \in Seeds[u] : rows[u][d] = "absent"
            /\ rows' = [rows EXCEPT ![u] = [d \in Codes[u] |->
                                              IF d \in Seeds[u] THEN "live" ELSE @[d]]]
      BY <2>1, ServerTyped, SomeTable DEF InsertSeeds, Inserts, IInv
    <3>2. rows'[t][c] = IF t = u /\ c \in Seeds[u] THEN "live" ELSE rows[t][c]
      BY <3>1 DEF IInv, TypeOK
    <3>3. QED
      BY <3>1, <3>2
  <2>2. ASSUME NEW s \in Servers, UserCreates(s)
        PROVE  /\ rows[t][c] = "deleted" => rows'[t][c] = "deleted"
               /\ rows[t][c] = "live" => rows'[t][c] # "absent"
    BY <2>2 DEF UserCreates, IInv, TypeOK
  <2>3. ASSUME NEW s \in Servers, UserDeletes(s)
        PROVE  /\ rows[t][c] = "deleted" => rows'[t][c] = "deleted"
               /\ rows[t][c] = "live" => rows'[t][c] # "absent"
    BY <2>3, StartupAssumption DEF UserDeletes, IInv, TypeOK
  <2>4. CASE UNCHANGED rows
    BY <2>4
  <2>5. QED
    BY <2>1, <2>2, <2>3, <2>4
       DEF Next, Up, Start, Connect, CountRows, ConnectRedis, Stop, DatabaseDown, DatabaseUp
<1>2. QED
  BY <1>1, StartupInvariance, PTL DEF Spec, DeletedStaysDeleted

-------------------------------------------------------------------------------
(* The refinement of SeededTables.                                         *)

\* The demo rows go into a table nobody has touched, after those before it.
LEMMA InsertFills ==
    ASSUME IInv, NEW s \in Servers, InsertSeeds(s), rows' # rows
    PROVE  \E i \in 1..Len(Tables) : AtOnce!Fill(i)
<1> DEFINE n == server[s].next
<1>1. n \in 1..Len(Tables) /\ At(s, "insert")
  BY ServerTyped DEF InsertSeeds, IInv
<1>2. PICK t \in TableSet : t = Tables[n]
  BY <1>1, SomeTable
<1>3. /\ \A c \in Seeds[t] : rows[t][c] = "absent"
      /\ rows' = [rows EXCEPT ![t] = [c \in Codes[t] |->
                                        IF c \in Seeds[t] THEN "live" ELSE @[c]]]
  BY <1>2 DEF InsertSeeds, Inserts
<1>4. Untouched(t)
  BY <1>3, StartupAssumption DEF IInv, SeedsComeFirst, Seeded
<1>5. [c \in Codes[t] |-> IF c \in Seeds[t] THEN "live" ELSE rows[t][c]]
        = [c \in Codes[t] |-> IF c \in Seeds[t] THEN "live" ELSE "absent"]
  BY <1>4 DEF Untouched
<1>6. rows' = [rows EXCEPT ![t] = [c \in Codes[t] |->
                                     IF c \in Seeds[t] THEN "live" ELSE "absent"]]
  BY <1>3, <1>5
<1>7. ASSUME NEW j \in 1..(n - 1)
      PROVE  Seeded(Tables[j])
  <2>1. j \in 1..Len(Tables) /\ j < n
    BY <1>1, StartupAssumption
  <2>2. QED
    BY <1>1, <2>1 DEF IInv, PastIsSeeded, IsPast
<1>8. AtOnce!Fill(n)
  BY <1>2, <1>4, <1>6, <1>7 DEF AtOnce!Fill, AtOnce!Empty, AtOnce!Filled, Untouched, Seeded
<1>9. QED
  BY <1>1, <1>8

\* Users write through servers that have been past every table.
LEMMA UsersChange ==
    ASSUME IInv, NEW s \in Servers, UserCreates(s) \/ UserDeletes(s)
    PROVE  AtOnce!Change
<1>1. At(s, "serving")
  BY DEF UserCreates, UserDeletes
<1>2. AtOnce!InUse
  BY <1>1 DEF IInv, PastIsSeeded, IsPast, Seeded, AtOnce!InUse, AtOnce!Filled, AtOnce!Place
<1>3. CASE UserCreates(s)
  <2>1. PICK t \in TableSet : \E c \in Codes[t] :
          rows[t][c] = "absent" /\ rows' = [rows EXCEPT ![t][c] = "live"]
    BY <1>3 DEF UserCreates
  <2>2. PICK i \in 1..Len(Tables) : Tables[i] = t
    BY ATablesPlace
  <2>3. QED
    BY <1>2, <2>1, <2>2 DEF AtOnce!Change, AtOnce!Create, AtOnce!Place
<1>4. CASE UserDeletes(s)
  <2>1. PICK t \in TableSet : \E c \in Deletable[t] :
          rows[t][c] = "live" /\ rows' = [rows EXCEPT ![t][c] = "deleted"]
    BY <1>4 DEF UserDeletes
  <2>2. PICK i \in 1..Len(Tables) : Tables[i] = t
    BY ATablesPlace
  <2>3. QED
    BY <1>2, <2>1, <2>2 DEF AtOnce!Change, AtOnce!Delete, AtOnce!Place
<1>5. QED
  BY <1>3, <1>4

\* Whatever servers race, stop in the middle and start again, the tables change
\* as if one seeding had filled each empty one at once, in order and for good,
\* before any user wrote (cmd/server/main.go, database.Seed).
THEOREM StartupImplementsSeeding == Spec => ImplementsSeededTables
<1>1. Init => AtOnce!Begin
  BY DEF Init, TableSet, AtOnce!Begin, AtOnce!Place
<1>2. IInv /\ [Next]_startupVars => [AtOnce!Change]_rows
  <2> SUFFICES ASSUME IInv, [Next]_startupVars, rows' # rows
               PROVE  AtOnce!Change
    OBVIOUS
  <2>1. PICK s \in Servers : InsertSeeds(s) \/ UserCreates(s) \/ UserDeletes(s)
    BY DEF Next, Up, Start, Connect, CountRows, ConnectRedis, Stop, DatabaseDown, DatabaseUp,
           startupVars
  <2>2. CASE InsertSeeds(s)
    BY <2>2, InsertFills DEF AtOnce!Change, AtOnce!Place
  <2>3. QED
    BY <2>1, <2>2, UsersChange
<1>3. QED
  BY <1>1, <1>2, StartupInvariance, PTL DEF Spec, ImplementsSeededTables, AtOnce!Promise
===============================================================================
