------------------------------ MODULE Compliance ------------------------------
(***************************************************************************)
(* The API server: concurrent HTTP requests handled by the four services   *)
(* over one SQL database.                                                  *)
(*                                                                         *)
(* A handler is a goroutine.  It reads the record (Get), checks the rules  *)
(* against what it read, looks up the linked records one query at a time   *)
(* (FindByCode), and only then opens a transaction that writes the row and *)
(* its audit entry.  Every query is one atomic step, the transaction is    *)
(* one atomic step, and the steps of different requests interleave.        *)
(*                                                                         *)
(* A request that is refused at its first read changes nothing and leaves  *)
(* nothing behind, so it is not a step.                                    *)
(***************************************************************************)
EXTENDS Naturals, Sequences, FiniteSets, StatusGraphs

CONSTANTS
    Requests,    \* slots for the requests being handled at one time
    SeedTable,   \* the rows in the database when the server starts serving
    MaxVersion,  \* bound: MaxVersion[c] is the highest version row c reaches
    MaxTime,     \* bound: highest value of the clock
    Foresight    \* 0 when clients only send a version they have been shown;
                 \* 1 when they may also send the one they expect to come next

VARIABLES
    table,    \* table[c]: the row of record c
    history,  \* history[c]: the audit log entries of record c, oldest first
    req,      \* req[q]: what request slot q is doing
    now       \* the clock that permits and licenses are compared with

vars == <<table, history, req, now>>

-------------------------------------------------------------------------------
(* Rows, audit entries, requests.  A row carries what the rules look at:   *)
(* expiry is PermitExpiresAt or LicenseExpiresAt, links are the codes of   *)
(* the linked records (<<generator, carrier>> of a manifest, <<manifest>>  *)
(* of a check).  The other columns are free text and are left out.         *)

Links(c) == IF c \in Manifests THEN Generators \X Carriers
            ELSE IF c \in Checks THEN { <<m>> : m \in Manifests }
            ELSE { <<>> }

Rows(c, life) == [life : {life}, status : Statuses(c), version : Nat \ {0},
                  expiry : Nat, links : Links(c)]

AbsentRow == [life |-> "absent", status |-> "", version |-> 0, expiry |-> 0, links |-> <<>>]

NewRow(c, expiry, links) ==
    [life |-> "live", status |-> InitialStatus(c), version |-> 1,
     expiry |-> expiry, links |-> links]

AuditLogs == [action : {"create", "update", "transition", "delete"},
              before : AnyStatus \cup {""}, after : AnyStatus \cup {"deleted"}]

Idle == [phase |-> "idle"]

\* current is the Go variable of that name: the row as read, with the changes
\* the handler has made to it.  expected is the client's ExpectedVersion,
\* before the status the audit entry will name, started the time of arrival.
Phases == {"generator", "carrier", "manifest", "commit", "reply"}

Changing(c) == [phase : Phases, op : {"create", "update", "transition"}, code : {c},
                expected : Nat, before : AnyStatus \cup {""}, current : Rows(c, "live"),
                started : Nat]

Deleting(c) == [phase : {"commit"}, op : {"delete"}, code : {c},
                expected : {0}, before : Statuses(c), current : {AbsentRow}, started : Nat]

InFlight(c) == Changing(c) \cup Deleting(c)

ASSUME BoundsAssumption == /\ MaxVersion \in [Records -> Nat \ {0}]
                           /\ MaxTime \in Nat
                           /\ Foresight \in {0, 1}

ASSUME SeedAssumption ==
    \A c \in Records : \/ SeedTable[c] = AbsentRow
                       \/ SeedTable[c] \in Rows(c, "live") /\ SeedTable[c].version = 1

\* The seeded manifests and checks link to seeded records.
ASSUME SeedLinksAssumption ==
    \A c \in Manifests \cup Checks :
        SeedTable[c] # AbsentRow =>
            \A i \in DOMAIN SeedTable[c].links : SeedTable[SeedTable[c].links[i]] # AbsentRow

Init == /\ table = [c \in Records |-> SeedTable[c]]
        /\ history = [c \in Records |-> <<>>]
        /\ req = [q \in Requests |-> Idle]
        /\ now = 0

-------------------------------------------------------------------------------
(* Shared pieces of the handlers.                                          *)

\* Get and FindByCode see a row unless it was never inserted or is soft deleted.
Exists(c) == table[c].life = "live"

\* The versions a client may name: any it was shown, plus Foresight.
ExpectedVersions(c) ==
    { v \in 1..(MaxVersion[c] - 1) : v <= table[c].version + Foresight }

\* validate...BusinessFields: an expiry date must be after the present.
ValidExpiries == { e \in 1..(MaxTime + 1) : e > now }

Accept(q, op, c, expected, before, current, phase) ==
    /\ req[q] = Idle
    /\ req' = [req EXCEPT ![q] = [phase |-> phase, op |-> op, code |-> c,
                                  expected |-> expected, before |-> before,
                                  current |-> current, started |-> now]]
    /\ UNCHANGED <<table, history, now>>

AcceptCreate(q, c, expiry, links, phase) ==
    Accept(q, "create", c, 0, "", NewRow(c, expiry, links), phase)

\* Mutant: an edit that does not bump the version.
AcceptUpdateSameVersion(q, c, v, expiry, links, phase) ==
    Accept(q, "update", c, v, table[c].status,
           [table[c] EXCEPT !.expiry = expiry, !.links = links, !.version = v], phase)

AcceptUpdate(q, c, v, expiry, links, phase) ==
    Accept(q, "update", c, v, table[c].status,
           [table[c] EXCEPT !.expiry = expiry, !.links = links, !.version = v + 1], phase)

AcceptTransition(q, c, v, target, phase) ==
    Accept(q, "transition", c, v, table[c].status,
           [table[c] EXCEPT !.status = target, !.version = v + 1], phase)

\* A deletion keeps only the status of the row it read.
AcceptDelete(q, c) ==
    Accept(q, "delete", c, 0, table[c].status, AbsentRow, "commit")

At(q, phase) == req[q].phase = phase

Advance(q, phase) == req' = [req EXCEPT ![q].phase = phase]

Finish(q) == req' = [req EXCEPT ![q] = Idle]

-------------------------------------------------------------------------------
(* service/waste_generator.go                                              *)

GeneratorCreate(q) ==
    \E c \in Generators, e \in ValidExpiries :
        AcceptCreate(q, c, e, <<>>, "commit")

GeneratorUpdate(q) ==
    \E c \in Generators, e \in ValidExpiries : \E v \in ExpectedVersions(c) :
        Exists(c) /\ AcceptUpdate(q, c, v, e, <<>>, "commit")

GeneratorTransition(q) ==
    \E c \in Generators, target \in GeneratorStatuses : \E v \in ExpectedVersions(c) :
        /\ Exists(c)
        /\ CanTransition(WasteGeneratorTransitions, table[c].status, target)
        /\ target = "active" => table[c].expiry > now
        /\ AcceptTransition(q, c, v, target, "commit")

GeneratorDelete(q) == \E c \in Generators : Exists(c) /\ AcceptDelete(q, c)

(* service/carrier_profile.go                                              *)

CarrierCreate(q) ==
    \E c \in Carriers, e \in ValidExpiries :
        AcceptCreate(q, c, e, <<>>, "commit")

CarrierUpdate(q) ==
    \E c \in Carriers, e \in ValidExpiries : \E v \in ExpectedVersions(c) :
        Exists(c) /\ AcceptUpdate(q, c, v, e, <<>>, "commit")

CarrierTransition(q) ==
    \E c \in Carriers, target \in CarrierStatuses : \E v \in ExpectedVersions(c) :
        /\ Exists(c)
        /\ CanTransition(CarrierProfileTransitions, table[c].status, target)
        /\ target = "verified" => table[c].expiry > now
        /\ AcceptTransition(q, c, v, target, "commit")

CarrierDelete(q) == \E c \in Carriers : Exists(c) /\ AcceptDelete(q, c)

(* service/transfer_manifest.go                                            *)

ManifestCreate(q) ==
    \E c \in Manifests, links \in Generators \X Carriers :
        AcceptCreate(q, c, 0, links, "generator")

ManifestUpdate(q) ==
    \E c \in Manifests, links \in Generators \X Carriers : \E v \in ExpectedVersions(c) :
        /\ Exists(c)
        /\ table[c].status = "draft"
        /\ AcceptUpdate(q, c, v, 0, links, "generator")

\* Submission and dispatch look the linked parties up, the other moves do not.
ManifestTransition(q) ==
    \E c \in Manifests, target \in ManifestStatuses : \E v \in ExpectedVersions(c) :
        /\ Exists(c)
        /\ CanTransition(TransferManifestTransitions, table[c].status, target)
        /\ AcceptTransition(q, c, v, target,
               IF target \in {"submitted", "in_transit"} THEN "generator" ELSE "commit")

ManifestDelete(q) ==
    \E c \in Manifests : Exists(c) /\ table[c].status = "draft" /\ AcceptDelete(q, c)

(* service/compliance_check.go                                             *)

CheckCreate(q) ==
    \E c \in Checks, m \in Manifests : AcceptCreate(q, c, 0, <<m>>, "manifest")

\* Mutant: a decided check can be edited.
CheckUpdateDecided(q) ==
    \E c \in Checks, m \in Manifests : \E v \in ExpectedVersions(c) :
        Exists(c) /\ AcceptUpdate(q, c, v, 0, <<m>>, "manifest")

CheckUpdate(q) ==
    \E c \in Checks, m \in Manifests : \E v \in ExpectedVersions(c) :
        /\ Exists(c)
        /\ table[c].status = "pending"
        /\ AcceptUpdate(q, c, v, 0, <<m>>, "manifest")

CheckTransition(q) ==
    \E c \in Checks, target \in CheckStatuses : \E v \in ExpectedVersions(c) :
        /\ Exists(c)
        /\ CanTransition(ComplianceCheckTransitions, table[c].status, target)
        /\ AcceptTransition(q, c, v, target, "manifest")

\* Mutant: any check can be deleted.
CheckDeleteAny(q) == \E c \in Checks : Exists(c) /\ AcceptDelete(q, c)

CheckDelete(q) ==
    \E c \in Checks : Exists(c) /\ table[c].status = "pending" /\ AcceptDelete(q, c)

-------------------------------------------------------------------------------
(* Lookups of linked records.  A create or an update only asks that the    *)
(* record exists; a transition also asks that it is in order.              *)

GeneratorServes(r, g) ==
    /\ Exists(g)
    /\ r.op = "transition" => table[g].status = "active" /\ table[g].expiry > now

\* Mutant: the expiry of the license is not looked at.
CarrierServesExpired(r, k) ==
    Exists(k) /\ (r.op = "transition" => table[k].status = "verified")

CarrierServes(r, k) ==
    /\ Exists(k)
    /\ r.op = "transition" => table[k].status = "verified" /\ table[k].expiry > now

\* Mutant: a check can be about a manifest nobody entered.
ManifestServesUnknown(r, m) == r.op = "transition" => Exists(m)

\* Mutant: a check passes whatever the status of its manifest.
ManifestServesAny(r, m) == Exists(m)

\* Mutant: only a check that passes has its manifest looked up.
ManifestServesIfPassing(r, m) ==
    /\ r.op # "transition" \/ r.current.status = "pass" => Exists(m)
    /\ r.op = "transition" /\ r.current.status = "pass"
         => table[m].status \in {"submitted", "in_transit", "received"}

ManifestServes(r, m) ==
    /\ Exists(m)
    /\ r.op = "transition" /\ r.current.status = "pass"
         => table[m].status \in {"submitted", "in_transit", "received"}

FindGenerator(q) ==
    /\ At(q, "generator")
    /\ IF GeneratorServes(req[q], req[q].current.links[1])
         THEN Advance(q, "carrier") ELSE Finish(q)
    /\ UNCHANGED <<table, history, now>>

FindCarrier(q) ==
    /\ At(q, "carrier")
    /\ IF CarrierServes(req[q], req[q].current.links[2])
         THEN Advance(q, "commit") ELSE Finish(q)
    /\ UNCHANGED <<table, history, now>>

FindManifest(q) ==
    /\ At(q, "manifest")
    /\ IF ManifestServes(req[q], req[q].current.links[1])
         THEN Advance(q, "commit") ELSE Finish(q)
    /\ UNCHANGED <<table, history, now>>

-------------------------------------------------------------------------------
(* The transactions of repository/base.go: the row and its audit entry are *)
(* written together or not at all.                                         *)

Entry(r) == [action |-> r.op, before |-> r.before,
             after  |-> IF r.op = "delete" THEN "deleted" ELSE r.current.status]

\* Mutant: the row is written and its audit entry is not.
WriteUnlogged(r, row) ==
    table' = [table EXCEPT ![r.code] = row] /\ UNCHANGED history

Write(r, row) ==
    /\ table' = [table EXCEPT ![r.code] = row]
    /\ history' = [history EXCEPT ![r.code] = Append(@, Entry(r))]

\* The unique index on code also covers soft deleted rows.
CommitCreate(q) ==
    /\ At(q, "commit") /\ req[q].op = "create"
    /\ IF table[req[q].code].life = "absent"
         THEN Write(req[q], req[q].current)
         ELSE UNCHANGED <<table, history>>
    /\ Finish(q)
    /\ UNCHANGED now

\* Mutant: the WHERE clause without the version.
VersionIgnored(r) == Exists(r.code)

\* updateRecord's WHERE clause; gorm adds that the row is not soft deleted.
VersionMatches(r) == Exists(r.code) /\ table[r.code].version = r.expected

CommitUpdate(q) ==
    /\ At(q, "commit") /\ req[q].op \in {"update", "transition"}
    /\ \/ VersionMatches(req[q]) /\ Write(req[q], req[q].current) /\ Advance(q, "reply")
       \/ ~VersionMatches(req[q]) /\ Finish(q) /\ UNCHANGED <<table, history>>
    /\ UNCHANGED now

\* Mutant: a deletion that overwrites the status.
CommitDeleteAsStatus(q) ==
    /\ At(q, "commit") /\ req[q].op = "delete"
    /\ Exists(req[q].code)
    /\ Write(req[q], [table[req[q].code] EXCEPT !.status = "deleted"])
    /\ Finish(q)
    /\ UNCHANGED now

\* deleteRecord compares neither the version nor the status.
CommitDelete(q) ==
    /\ At(q, "commit") /\ req[q].op = "delete"
    /\ LET c == req[q].code
       IN IF Exists(c) THEN Write(req[q], [table[c] EXCEPT !.life = "deleted"])
                       ELSE UNCHANGED <<table, history>>
    /\ Finish(q)
    /\ UNCHANGED now

\* The Get after the transaction, whose result is the body of the answer.
Answer(q) == At(q, "reply") /\ Finish(q) /\ UNCHANGED <<table, history, now>>

\* The client goes away, the database reports an error, or the server stops:
\* an open transaction is rolled back and the request is gone.
Abandon(q) == ~At(q, "idle") /\ Finish(q) /\ UNCHANGED <<table, history, now>>

Tick == now < MaxTime /\ now' = now + 1 /\ UNCHANGED <<table, history, req>>

-------------------------------------------------------------------------------
Receive(q) ==
    \/ GeneratorCreate(q) \/ GeneratorUpdate(q) \/ GeneratorTransition(q) \/ GeneratorDelete(q)
    \/ CarrierCreate(q)   \/ CarrierUpdate(q)   \/ CarrierTransition(q)   \/ CarrierDelete(q)
    \/ ManifestCreate(q)  \/ ManifestUpdate(q)  \/ ManifestTransition(q)  \/ ManifestDelete(q)
    \/ CheckCreate(q)     \/ CheckUpdate(q)     \/ CheckTransition(q)     \/ CheckDelete(q)

Find(q) == FindGenerator(q) \/ FindCarrier(q) \/ FindManifest(q)

Commit(q) == CommitCreate(q) \/ CommitUpdate(q) \/ CommitDelete(q)

Handle(q) == Find(q) \/ Commit(q) \/ Answer(q)

Next == \/ \E q \in Requests : Receive(q) \/ Handle(q) \/ Abandon(q)
        \/ Tick

Spec == Init /\ [][Next]_vars
===============================================================================
