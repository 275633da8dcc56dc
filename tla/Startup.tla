-------------------------------- MODULE Startup --------------------------------
(***************************************************************************)
(* How a server comes up: cmd/server/main.go and database/database.go.     *)
(*                                                                         *)
(* A server waits for the database, migrates it, and seeds each table in   *)
(* turn: it counts the rows and, if there are none, inserts the demo rows  *)
(* in one transaction.  Then it connects to Redis and serves.  Several     *)
(* servers may come up on one database at a time, any of them may stop at  *)
(* any moment, and Docker starts a server that has stopped again.  Servers *)
(* that serve let users create rows and (for the tables whose handlers     *)
(* have a DELETE) soft delete them: the row stays, and so does its code in *)
(* the unique index, but a count does not see it.                          *)
(***************************************************************************)
EXTENDS Naturals, Sequences, FiniteSets

CONSTANTS
    Servers,       \* server processes
    Tables,        \* the tables to seed, in order (a sequence)
    Seeds,         \* Seeds[t]: the codes of the demo rows of table t
    Codes,         \* Codes[t]: all codes of table t
    Deletable,     \* Deletable[t]: the codes of table t that users delete
    MaxAttempts,   \* connection attempts of a start (20)
    MaxStops,      \* bound: how often a server is stopped from outside
    MaxOutages     \* bound: how often the database goes away

TableSet == { Tables[i] : i \in 1..Len(Tables) }

ASSUME StartupAssumption ==
    /\ Tables \in Seq(TableSet) /\ Len(Tables) > 0
    /\ \A t \in TableSet : Seeds[t] # {} /\ (Seeds[t] \cup Deletable[t]) \subseteq Codes[t]
    /\ MaxAttempts \in Nat \ {0} /\ MaxStops \in Nat /\ MaxOutages \in Nat

VARIABLES
    rows,      \* rows[t][c]: the row with code c of table t
    server,    \* server[s]: where the process s is
    reachable, \* the database answers
    stops,     \* bounded: stops so far
    outages    \* bounded: outages so far

startupVars == <<rows, server, reachable, stops, outages>>

\* Phase "seed": about to count the rows of Tables[next]; "insert": it has
\* counted none.  A server that is not starting has no attempt and no table.
Phases == {"down", "connect", "seed", "insert", "redis", "serving"}

Down == [phase |-> "down", attempt |-> 0, next |-> 1]

Init == /\ rows = [t \in TableSet |-> [c \in Codes[t] |-> "absent"]]
        /\ server = [s \in Servers |-> Down]
        /\ reachable \in BOOLEAN
        /\ stops = 0 /\ outages = 0

At(s, phase) == server[s].phase = phase

Goes(s, phase) == server' = [server EXCEPT ![s].phase = phase]

Exits(s) == server' = [server EXCEPT ![s] = Down]

Same == UNCHANGED <<stops, outages, reachable>>

-------------------------------------------------------------------------------
\* Docker (restart: unless-stopped) starts a server that is not running.
Start(s) ==
    /\ At(s, "down")
    /\ server' = [server EXCEPT ![s] = [phase |-> "connect", attempt |-> 1, next |-> 1]]
    /\ UNCHANGED rows /\ Same

\* The loop of Open: on success the migration follows, which leaves the rows
\* alone; after the last attempt, or when the startup deadline passes, it exits.
Connect(s) ==
    /\ At(s, "connect")
    /\ \/ reachable /\ Goes(s, "seed")
       \/ /\ ~reachable /\ server[s].attempt < MaxAttempts
          /\ server' = [server EXCEPT ![s].attempt = @ + 1]
       \/ ~reachable /\ Exits(s)
    /\ UNCHANGED rows /\ Same

\* Mutant: the demo rows are inserted whatever is in the table.
NeedsSeedAlways(t) == TRUE

\* Mutant: the rows of the first table are counted for every table.
NeedsSeedOfFirst(t) == \A c \in Codes[Tables[1]] : rows[Tables[1]][c] # "live"

\* Count does not see soft deleted rows.
NeedsSeed(t) == \A c \in Codes[t] : rows[t][c] # "live"

\* Mutant: one table past the last.
SeedNextPastEnd(s) ==
    IF server[s].next <= Len(Tables)
      THEN server' = [server EXCEPT ![s].phase = "seed", ![s].next = @ + 1]
      ELSE Goes(s, "redis")

SeedNext(s) ==
    IF server[s].next < Len(Tables)
      THEN server' = [server EXCEPT ![s].phase = "seed", ![s].next = @ + 1]
      ELSE Goes(s, "redis")

CountRows(s) ==
    /\ At(s, "seed")
    /\ IF ~reachable THEN Exits(s)
       ELSE IF NeedsSeed(Tables[server[s].next]) THEN Goes(s, "insert")
       ELSE SeedNext(s)
    /\ UNCHANGED rows /\ Same

\* Mutant: an insert that overwrites the rows it collides with.
InsertsOver(t) == reachable

\* The insert is one transaction, and fails on a code the unique index holds.
Inserts(t) == reachable /\ \A c \in Seeds[t] : rows[t][c] = "absent"

\* Mutant: the demo rows are inserted one statement at a time.
InsertSeedsOneByOne(s) ==
    LET t == Tables[server[s].next] IN
    /\ At(s, "insert")
    /\ \/ /\ Inserts(t)
          /\ rows' = [rows EXCEPT ![t] = [c \in Codes[t] |->
                                            IF c \in Seeds[t] THEN "live" ELSE @[c]]]
          /\ SeedNext(s)
       \/ /\ Inserts(t)
          /\ \E c \in Seeds[t] : rows' = [rows EXCEPT ![t][c] = "live"]
          /\ Exits(s)
       \/ ~Inserts(t) /\ UNCHANGED rows /\ Exits(s)
    /\ Same

InsertSeeds(s) ==
    LET t == Tables[server[s].next] IN
    /\ At(s, "insert")
    /\ IF Inserts(t)
         THEN /\ rows' = [rows EXCEPT ![t] = [c \in Codes[t] |->
                                                IF c \in Seeds[t] THEN "live" ELSE @[c]]]
              /\ SeedNext(s)
         ELSE UNCHANGED rows /\ Exits(s)
    /\ Same

\* Redis is pinged once; when it does not answer the server exits.
ConnectRedis(s) ==
    /\ At(s, "redis")
    /\ \/ Goes(s, "serving") /\ UNCHANGED stops
       \/ stops < MaxStops /\ Exits(s) /\ stops' = stops + 1
    /\ UNCHANGED <<rows, reachable, outages>>

-------------------------------------------------------------------------------
\* A signal, a crash, a deployment.
Stop(s) ==
    /\ ~At(s, "down") /\ stops < MaxStops
    /\ Exits(s) /\ stops' = stops + 1
    /\ UNCHANGED <<rows, reachable, outages>>

DatabaseDown ==
    /\ reachable /\ outages < MaxOutages
    /\ reachable' = FALSE /\ outages' = outages + 1
    /\ UNCHANGED <<rows, server, stops>>

DatabaseUp ==
    /\ ~reachable /\ reachable' = TRUE
    /\ UNCHANGED <<rows, server, stops, outages>>

\* The requests a serving server handles.
UserCreates(s) ==
    /\ At(s, "serving") /\ reachable
    /\ \E t \in TableSet : \E c \in Codes[t] :
          rows[t][c] = "absent" /\ rows' = [rows EXCEPT ![t][c] = "live"]
    /\ UNCHANGED server /\ Same

UserDeletes(s) ==
    /\ At(s, "serving") /\ reachable
    /\ \E t \in TableSet : \E c \in Deletable[t] :
          rows[t][c] = "live" /\ rows' = [rows EXCEPT ![t][c] = "deleted"]
    /\ UNCHANGED server /\ Same

Up(s) == Start(s) \/ Connect(s) \/ CountRows(s) \/ InsertSeeds(s) \/ ConnectRedis(s)

Next == \/ \E s \in Servers : Up(s) \/ Stop(s) \/ UserCreates(s) \/ UserDeletes(s)
        \/ DatabaseDown \/ DatabaseUp

Spec == Init /\ [][Next]_startupVars

\* A process that can go on does, Docker restarts one that has exited, and an
\* outage of the database ends.
FairSpec == Spec /\ WF_startupVars(DatabaseUp) /\ \A s \in Servers : WF_startupVars(Up(s))

-------------------------------------------------------------------------------
\* The shape of the state; a start never looks past the last table.
TypeOK ==
    /\ DOMAIN rows = TableSet
    /\ \A t \in TableSet : rows[t] \in [Codes[t] -> {"absent", "live", "deleted"}]
    /\ server \in [Servers -> [phase : Phases, attempt : 0..MaxAttempts, next : 1..Len(Tables)]]
    /\ reachable \in BOOLEAN /\ stops \in 0..MaxStops /\ outages \in 0..MaxOutages

\* Whatever stops a server or takes the database away while it seeds, a table
\* has all of its demo rows or none.
SeedsAllOrNone ==
    \A t \in TableSet :
        (\A c \in Seeds[t] : rows[t][c] = "absent") \/ (\A c \in Seeds[t] : rows[t][c] # "absent")

\* A server that serves has every demo row in its tables, unless a user deleted it.
ServingIsSeeded ==
    (\E s \in Servers : At(s, "serving")) =>
        \A t \in TableSet : \A c \in Seeds[t] : rows[t][c] # "absent"

\* Neither seeding nor a restart brings a deleted row back or takes one away.  No
\* step of SeededTables does, so the runs check this by ImplementsSeededTables.
DeletedStaysDeleted ==
    [][\A t \in TableSet : \A c \in Codes[t] :
          /\ rows[t][c] = "deleted" => rows'[t][c] = "deleted"
          /\ rows[t][c] = "live" => rows'[t][c] # "absent"]_startupVars

\* Servers that race, stop in the middle of seeding and are started again look to
\* the readers of the tables like one seeding that fills each empty table at once,
\* in order and for good, before any user writes.
AtOnce == INSTANCE SeededTables WITH content <- rows
ImplementsSeededTables == AtOnce!Promise

\* When nobody stops it any more, every server comes to serve, whichever of
\* the servers seeds first: the one that loses exits, and finds the rows when
\* it is started again.
EveryServerServes == \A s \in Servers : <>[]At(s, "serving")
===============================================================================
