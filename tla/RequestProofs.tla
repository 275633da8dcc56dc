----------------------------- MODULE RequestProofs -----------------------------
(***************************************************************************)
(* What a request carries from one of its steps to the next, proved of     *)
(* Compliance for clients that send any version (every Foresight).         *)
(***************************************************************************)
EXTENDS ComplianceProofs

-------------------------------------------------------------------------------
(* The answer to a write.                                                  *)

ShowsItsWrite(r) ==
    r.phase = "reply" =>
        /\ table[r.code].version >= r.expected + 1
        /\ table[r.code].version = r.expected + 1
             => table[r.code] = [r.current EXCEPT !.life = table[r.code].life]

LEMMA SameRow ==
    ASSUME NEW c \in Records, NEW row \in Rows(c, "live"),
           NEW later \in Rows(c, "live") \cup Rows(c, "deleted"),
           later.status = row.status, later.version = row.version,
           later.expiry = row.expiry, later.links = row.links
    PROVE  later = [row EXCEPT !.life = later.life]
BY DEF Rows

\* A row stays what a write made it until its version grows.
LEMMA ShownStays ==
    ASSUME Inv, Inv', NEW p \in Requests, req'[p] = req[p], ShowsItsWrite(req[p]),
           \A c \in Records : RowAdvances(c)
    PROVE  ShowsItsWrite(req[p])'
<1> SUFFICES ASSUME req[p].phase = "reply"
             PROVE  ShowsItsWrite(req[p])'
  BY DEF ShowsItsWrite
<1> DEFINE r == req[p]
           c == req[p].code
<1>1. /\ c \in Records /\ r.expected \in Nat /\ r.current \in Rows(c, "live")
  BY InFlightRequest DEF Inv, TypeOK, InFlight, Changing, Deleting, At
<1>2. table[c].version \in Nat /\ table'[c].version \in Nat
  BY <1>1, VersionTyped DEF Inv, TypeOK, TablesOK
<1>3. table[c].version >= r.expected + 1
  BY DEF ShowsItsWrite
<1>4. table[c].life # "absent"
  <2>1. table[c].life = "absent" => table[c] = AbsentRow
    BY <1>1 DEF Inv, TypeOK, TablesOK, Rows
  <2>2. table[c] = AbsentRow => table[c].version = 0
    BY AbsentFields
  <2>3. QED
    BY <1>1, <1>2, <1>3, <2>1, <2>2
<1>5. table'[c].life # "absent" /\ table'[c].version >= table[c].version
  BY <1>1, <1>4 DEF RowAdvances
<1>6. ASSUME table'[c].version = r.expected + 1
      PROVE  table'[c] = [r.current EXCEPT !.life = table'[c].life]
  <2>1. table[c].version = r.expected + 1
    BY <1>1, <1>2, <1>3, <1>5, <1>6
  <2>2. /\ table[c] = [r.current EXCEPT !.life = table[c].life]
        /\ table'[c].version = table[c].version
    BY <1>6, <2>1 DEF ShowsItsWrite
  <2>3. /\ table[c].status = r.current.status /\ table[c].version = r.current.version
        /\ table[c].expiry = r.current.expiry /\ table[c].links = r.current.links
    BY <1>1, <2>2 DEF Rows
  <2>4. /\ table'[c].status = table[c].status /\ table'[c].links = table[c].links
        /\ table'[c].expiry = table[c].expiry
    BY <1>1, <1>4, <2>2 DEF RowAdvances
  <2>5. table'[c] \in Rows(c, "live") \cup Rows(c, "deleted")
    BY <1>1, <1>5, AbsentFields DEF Inv, TypeOK, TablesOK
  <2>6. QED
    BY <1>1, <2>2, <2>3, <2>4, <2>5, SameRow
<1>7. QED
  BY <1>1, <1>2, <1>3, <1>5, <1>6 DEF ShowsItsWrite

LEMMA CommitShows ==
    ASSUME Inv, NEW q \in Requests, Commit(q)
    PROVE  ShowsItsWrite(req[q])'
<1> DEFINE r == req[q]
           d == req[q].code
<1>1. /\ At(q, "commit") /\ d \in Records /\ r \in InFlight(d) /\ RequestIsLegal(r)
  BY InFlightRequest DEF Commit, CommitCreate, CommitUpdate, CommitDelete, At,
                         Inv, TypeOK, RequestsAreLegal
<1>2. CASE Finish(q)
  BY <1>2 DEF Finish, Idle, Inv, TypeOK, RequestsOK, ShowsItsWrite
<1>3. CASE CommitUpdate(q) /\ Write(r, r.current) /\ Advance(q, "reply")
  <2>1. r \in Changing(d) /\ r.op \in {"update", "transition"}
    BY <1>1, <1>3 DEF CommitUpdate, InFlight, Deleting
  <2>2. r.current \in Rows(d, "live") /\ r.expected \in Nat
        /\ r.current.version = r.expected + 1
    BY <1>1, <2>1 DEF Changing, RequestIsLegal
  <2>3. table'[d] = r.current
    BY <1>1, <1>3 DEF Write, Inv, TypeOK, TablesOK
  <2>4. req'[q] = [r EXCEPT !.phase = "reply"]
    BY <1>3 DEF Advance, Inv, TypeOK, RequestsOK
  <2>5. req'[q].code = d /\ req'[q].expected = r.expected /\ req'[q].current = r.current
    BY <2>1, <2>4 DEF Changing
  <2>6. r.current = [r.current EXCEPT !.life = r.current.life]
    BY <2>2 DEF Rows
  <2>7. QED
    BY <2>2, <2>3, <2>5, <2>6 DEF ShowsItsWrite
<1>4. QED
  BY <1>2, <1>3 DEF Commit, CommitCreate, CommitUpdate, CommitDelete

ShownInv == \A q \in Requests : ShowsItsWrite(req[q])

LEMMA ShownNext == Inv /\ Inv' /\ ShownInv /\ [Next]_vars => ShownInv'
<1> SUFFICES ASSUME Inv, Inv', ShownInv, [Next]_vars, NEW p \in Requests
             PROVE  ShowsItsWrite(req[p])'
  BY DEF ShownInv
<1>1. ASSUME NEW q \in Requests, Receive(q)
      PROVE  ShowsItsWrite(req[p])'
  <2>1. Starts(q)
    BY <1>1, ReceiveStarts DEF Inv
  <2>2. PICK c \in Records : \E r \in InFlight(c) :
            r.phase # "reply" /\ req' = [req EXCEPT ![q] = r]
    BY <2>1 DEF Starts
  <2>3. UNCHANGED table
    BY <2>1 DEF Starts
  <2>4. req'[p].phase # "reply" \/ req'[p] = req[p]
    BY <2>2 DEF Inv, TypeOK, RequestsOK
  <2>5. QED
    BY <2>3, <2>4 DEF ShownInv, ShowsItsWrite
<1>2. ASSUME NEW q \in Requests, Find(q) \/ Answer(q) \/ Abandon(q)
      PROVE  ShowsItsWrite(req[p])'
  <2>1. /\ UNCHANGED table
        /\ Finish(q) \/ \E phase \in {"carrier", "commit"} :
                           Find(q) /\ Advance(q, phase)
    BY <1>2 DEF Find, FindGenerator, FindCarrier, FindManifest, Answer, Abandon
  <2>2. CASE p # q
    <3>1. req'[p] = req[p]
      BY <2>1, <2>2, OtherRequestUnmoved DEF Phases
    <3>2. QED
      BY <2>1, <3>1 DEF ShownInv, ShowsItsWrite
  <2>3. CASE p = q /\ Finish(q)
    BY <2>3 DEF Finish, Idle, Inv, TypeOK, RequestsOK, ShowsItsWrite
  <2>4. ASSUME p = q, NEW phase \in {"carrier", "commit"}, Find(q), Advance(q, phase)
        PROVE  ShowsItsWrite(req[p])'
    <3>1. req[q] \in Changing(req[q].code) \/ req[q] \in Deleting(req[q].code)
      BY <2>4, InFlightRequest
         DEF Find, FindGenerator, FindCarrier, FindManifest, At, Inv, TypeOK, InFlight
    <3>2. req'[q] = [req[q] EXCEPT !.phase = phase]
      BY <2>4 DEF Advance, Inv, TypeOK, RequestsOK
    <3>3. req'[q].phase = phase
      BY <3>1, <3>2 DEF Changing, Deleting
    <3>4. QED
      BY <2>4, <3>3 DEF ShowsItsWrite
  <2>5. QED
    BY <2>1, <2>2, <2>3, <2>4
<1>3. ASSUME NEW q \in Requests, Commit(q)
      PROVE  ShowsItsWrite(req[p])'
  <2>1. CASE p = q
    BY <1>3, <2>1, CommitShows
  <2>2. CASE p # q
    <3>1. req'[p] = req[p]
      BY <1>3, <2>2, OtherRequestUnmoved
         DEF Commit, CommitCreate, CommitUpdate, CommitDelete, Phases
    <3>2. QED
      BY <1>3, <3>1, CommitAdvances, ShownStays DEF ShownInv
  <2>3. QED
    BY <2>1, <2>2
<1>4. CASE Tick \/ UNCHANGED vars
  BY <1>4 DEF Tick, vars, ShownInv, ShowsItsWrite
<1>5. QED
  BY <1>1, <1>2, <1>3, <1>4 DEF Next, Handle

\* Whatever else is written between the transaction of an update or a transition
\* and the Get for its answer, the answer shows that write or a later one.
THEOREM AnswersShowTheirWrites == Spec => []AnswerShowsTheWrite
<1>1. Init => ShownInv
  BY DEF Init, ShownInv, ShowsItsWrite, Idle
<1>2. Inv /\ Inv' /\ ShownInv /\ [Next]_vars => ShownInv'
  BY ShownNext
<1>3. ShownInv => AnswerShowsTheWrite
  BY DEF ShownInv, ShowsItsWrite, AnswerShowsTheWrite, At
<1>4. QED
  BY Invariance, <1>1, <1>2, <1>3, PTL DEF Spec

-------------------------------------------------------------------------------
(* Links.  A record that was ever in the database stays in it, so that a   *)
(* link checked by one step is still good when a later step writes it.     *)

Known(c) == table[c].life # "absent"

Linked(links) == \A i \in DOMAIN links : Known(links[i])

\* How far the links of a request in flight have been looked up.
LinksChecked(r) ==
    r.phase # "idle" /\ r.op # "delete" /\ r.code \in Manifests \cup Checks =>
        /\ r.op = "transition" \/ r.phase \in {"commit", "reply"} => Linked(r.current.links)
        /\ r.phase = "generator" => r.code \in Manifests
        /\ r.phase = "carrier" => r.code \in Manifests /\ Known(r.current.links[1])
        /\ r.phase = "manifest" => r.code \in Checks

LinksInv == LinksWereRecords /\ \A q \in Requests : LinksChecked(req[q])

LEMMA LinksOfManifest ==
    ASSUME NEW c \in Manifests, NEW links \in Links(c)
    PROVE  DOMAIN links = 1..2 /\ links[1] \in Records /\ links[2] \in Records
BY ManifestRules DEF Records, Permits

LEMMA LinksOfCheck ==
    ASSUME NEW c \in Checks, NEW links \in Links(c)
    PROVE  DOMAIN links = 1..1 /\ links[1] \in Records
BY CheckRules DEF Records

LEMMA LinksAreRecords ==
    ASSUME NEW c \in Manifests \cup Checks, NEW links \in Links(c), NEW i \in DOMAIN links
    PROVE  links[i] \in Records
<1>1. CASE c \in Manifests
  <2>1. i = 1 \/ i = 2
    BY <1>1, LinksOfManifest
  <2>2. QED
    BY <1>1, <2>1, LinksOfManifest
<1>2. CASE c \in Checks
  <2>1. i = 1
    BY <1>2, LinksOfCheck
  <2>2. QED
    BY <1>2, <2>1, LinksOfCheck
<1>3. QED
  BY <1>1, <1>2

LEMMA LinksInit == Init => LinksInv
<1> SUFFICES ASSUME Init
             PROVE  LinksInv
  OBVIOUS
<1>1. ASSUME NEW c \in Manifests \cup Checks, table[c].life # "absent",
             NEW i \in DOMAIN table[c].links
      PROVE  table[table[c].links[i]].life # "absent"
  <2>1. c \in Records
    BY DEF Records
  <2>2. table[c] = SeedTable[c] /\ table[c] # AbsentRow
    BY <1>1, <2>1, AbsentFields DEF Init
  <2>3. table[c].links \in Links(c)
    BY <2>1, <2>2, SeedAssumption DEF Rows
  <2>4. table[c].links[i] \in Records
    BY <1>1, <2>3, LinksAreRecords
  <2>5. SeedTable[table[c].links[i]] # AbsentRow
    BY <1>1, <2>2, SeedLinksAssumption
  <2>6. SeedTable[table[c].links[i]] \in Rows(table[c].links[i], "live")
    BY <2>4, <2>5, SeedAssumption
  <2>7. QED
    BY <2>4, <2>6 DEF Init, Rows
<1>2. \A q \in Requests : LinksChecked(req[q])
  BY DEF Init, Idle, LinksChecked
<1>3. QED
  BY <1>1, <1>2 DEF LinksInv, LinksWereRecords

-------------------------------------------------------------------------------
\* The links a live row holds have been looked up.
LEMMA LiveLinks ==
    ASSUME LinksWereRecords, NEW c \in Manifests \cup Checks, Exists(c)
    PROVE  Linked(table[c].links)
BY DEF LinksWereRecords, Exists, Linked, Known

\* A request starts with the lookups of its kind ahead of it.
StartsLinked(q) ==
    /\ UNCHANGED table
    /\ \E r : req' = [req EXCEPT ![q] = r] /\ LinksChecked(r)

LEMMA LinkingCreateStarts ==
    ASSUME NEW q, NEW c \in Records, NEW expiry, NEW links, NEW phase,
           AcceptCreate(q, c, expiry, links, phase),
           \/ c \in Permits
           \/ c \in Manifests /\ phase = "generator"
           \/ c \in Checks /\ phase = "manifest"
    PROVE  StartsLinked(q)
<1> DEFINE r == [phase |-> phase, op |-> "create", code |-> c, expected |-> 0, before |-> "",
                 current |-> NewRow(c, expiry, links), started |-> now]
<1>1. LinksChecked(r)
  BY KindsAreDisjoint DEF LinksChecked, Permits
<1>2. req' = [req EXCEPT ![q] = r] /\ UNCHANGED table
  BY DEF AcceptCreate, Accept
<1> HIDE DEF r
<1>3. QED
  BY <1>1, <1>2 DEF StartsLinked

LEMMA LinkingUpdateStarts ==
    ASSUME NEW q, NEW c \in Records, NEW v, NEW expiry, NEW links, NEW phase,
           AcceptUpdate(q, c, v, expiry, links, phase),
           \/ c \in Permits
           \/ c \in Manifests /\ phase = "generator"
           \/ c \in Checks /\ phase = "manifest"
    PROVE  StartsLinked(q)
<1> DEFINE row == [table[c] EXCEPT !.expiry = expiry, !.links = links, !.version = v + 1]
           r == [phase |-> phase, op |-> "update", code |-> c, expected |-> v,
                 before |-> table[c].status, current |-> row, started |-> now]
<1> HIDE DEF row
<1>1. LinksChecked(r)
  BY KindsAreDisjoint DEF LinksChecked, Permits
<1>2. req' = [req EXCEPT ![q] = r] /\ UNCHANGED table
  BY DEF AcceptUpdate, Accept, row
<1> HIDE DEF r
<1>3. QED
  BY <1>1, <1>2 DEF StartsLinked

LEMMA LinkingTransitionStarts ==
    ASSUME TypeOK, LinksWereRecords,
           NEW q, NEW c \in Records, NEW v, NEW target, NEW phase, Exists(c),
           AcceptTransition(q, c, v, target, phase),
           \/ c \in Permits
           \/ c \in Manifests /\ phase \in {"generator", "commit"}
           \/ c \in Checks /\ phase = "manifest"
    PROVE  StartsLinked(q)
<1> DEFINE row == [table[c] EXCEPT !.status = target, !.version = v + 1]
           r == [phase |-> phase, op |-> "transition", code |-> c, expected |-> v,
                 before |-> table[c].status, current |-> row, started |-> now]
<1>1. row.links = table[c].links
  BY LiveRow DEF Rows
<1>2. c \in Manifests \cup Checks => Linked(row.links)
  BY <1>1, LiveLinks
<1> HIDE DEF row
<1>3. LinksChecked(r)
  BY <1>2, KindsAreDisjoint DEF LinksChecked, Permits
<1>4. req' = [req EXCEPT ![q] = r] /\ UNCHANGED table
  BY DEF AcceptTransition, Accept, row
<1> HIDE DEF r
<1>5. QED
  BY <1>3, <1>4 DEF StartsLinked

LEMMA DeletionStarts ==
    ASSUME NEW q, NEW c, AcceptDelete(q, c)
    PROVE  StartsLinked(q)
<1> DEFINE r == [phase |-> "commit", op |-> "delete", code |-> c, expected |-> 0,
                 before |-> table[c].status, current |-> AbsentRow, started |-> now]
<1>1. LinksChecked(r)
  BY DEF LinksChecked
<1>2. req' = [req EXCEPT ![q] = r] /\ UNCHANGED table
  BY DEF AcceptDelete, Accept
<1> HIDE DEF r
<1>3. QED
  BY <1>1, <1>2 DEF StartsLinked

LEMMA ReceiveStartsLinked ==
    ASSUME TypeOK, LinksWereRecords, NEW q \in Requests, Receive(q)
    PROVE  StartsLinked(q)
<1>1. /\ \A c \in Permits : c \in Records
      /\ \A c \in Manifests : c \in Records
      /\ \A c \in Checks : c \in Records
      /\ \A c \in Generators \cup Carriers : c \in Permits
  BY DEF Records, Permits
<1>2. CASE GeneratorDelete(q) \/ CarrierDelete(q) \/ ManifestDelete(q) \/ CheckDelete(q)
  BY <1>2, DeletionStarts DEF GeneratorDelete, CarrierDelete, ManifestDelete, CheckDelete
<1>3. CASE GeneratorCreate(q) \/ CarrierCreate(q) \/ ManifestCreate(q) \/ CheckCreate(q)
  BY <1>1, <1>3, LinkingCreateStarts
     DEF GeneratorCreate, CarrierCreate, ManifestCreate, CheckCreate
<1>4. CASE GeneratorUpdate(q) \/ CarrierUpdate(q) \/ ManifestUpdate(q) \/ CheckUpdate(q)
  BY <1>1, <1>4, LinkingUpdateStarts
     DEF GeneratorUpdate, CarrierUpdate, ManifestUpdate, CheckUpdate
<1>5. CASE GeneratorTransition(q) \/ CarrierTransition(q)
  BY <1>1, <1>5, LinkingTransitionStarts DEF GeneratorTransition, CarrierTransition
<1>6. CASE ManifestTransition(q)
  BY <1>1, <1>6, LinkingTransitionStarts DEF ManifestTransition
<1>7. CASE CheckTransition(q)
  BY <1>1, <1>7, LinkingTransitionStarts DEF CheckTransition
<1>8. QED
  BY <1>2, <1>3, <1>4, <1>5, <1>6, <1>7 DEF Receive

-------------------------------------------------------------------------------
\* The same of the rows after the step.
LinkedNext(links) == \A i \in DOMAIN links : table'[links[i]].life # "absent"

LEMMA LinkedStays ==
    ASSUME NEW c \in Manifests \cup Checks, NEW links \in Links(c), Linked(links),
           \A d \in Records : RowAdvances(d)
    PROVE  LinkedNext(links)
BY LinksAreRecords DEF Linked, LinkedNext, Known, RowAdvances

LEMMA LinkingRequest ==
    ASSUME Inv, NEW q \in Requests, ~At(q, "idle"), req[q].op # "delete"
    PROVE  /\ req[q] \in Changing(req[q].code) /\ req[q].code \in Records
           /\ req[q].current \in Rows(req[q].code, "live")
           /\ req[q].current.links \in Links(req[q].code)
BY InFlightRequest DEF Inv, TypeOK, InFlight, Changing, Deleting, Rows

LEMMA CheckedStays ==
    ASSUME Inv, NEW p \in Requests, req'[p] = req[p], LinksChecked(req[p]),
           \A d \in Records : RowAdvances(d)
    PROVE  LinksChecked(req[p])'
<1> DEFINE r == req[p]
<1> SUFFICES ASSUME r.phase # "idle", r.op # "delete", r.code \in Manifests \cup Checks
             PROVE  LinksChecked(req[p])'
  BY DEF LinksChecked
<1>1. r.current.links \in Links(r.code)
  BY LinkingRequest DEF At
<1>2. Linked(r.current.links) => LinkedNext(r.current.links)
  BY <1>1, LinkedStays
<1>3. r.code \in Manifests /\ Known(r.current.links[1])
          => table'[r.current.links[1]].life # "absent"
  BY <1>1, LinksOfManifest DEF Known, RowAdvances
<1>4. QED
  BY <1>2, <1>3 DEF LinksChecked, Linked, LinkedNext, Known

LEMMA FindChecked ==
    ASSUME Inv, NEW q \in Requests, Find(q), LinksChecked(req[q])
    PROVE  LinksChecked(req[q])'
<1> DEFINE r == req[q]
           links == req[q].current.links
<1>1. CASE Finish(q)
  BY <1>1 DEF Finish, Idle, Inv, TypeOK, RequestsOK, LinksChecked
<1>2. ASSUME NEW phase \in {"carrier", "commit"}, Advance(q, phase),
             r.phase \in {"generator", "carrier", "manifest"}
      PROVE  r.op # "delete" /\ req'[q].phase = phase
             /\ req'[q].op = r.op /\ req'[q].code = r.code /\ req'[q].current = r.current
  <2>1. r \in Changing(r.code)
    BY <1>2, InFlightRequest DEF Inv, TypeOK, InFlight, Deleting, At
  <2>2. req'[q] = [r EXCEPT !.phase = phase]
    BY <1>2 DEF Advance, Inv, TypeOK, RequestsOK
  <2>3. QED
    BY <2>1, <2>2 DEF Changing
<1>3. r.code \in Records /\ (r.op # "delete" => links \in Links(r.code))
  BY LinkingRequest, InFlightRequest
     DEF Find, FindGenerator, FindCarrier, FindManifest, At, Inv, TypeOK
<1>4. CASE FindGenerator(q) /\ GeneratorServes(r, links[1]) /\ Advance(q, "carrier")
  <2>1. r.phase = "generator" /\ UNCHANGED table /\ Known(links[1])
    BY <1>4 DEF FindGenerator, At, GeneratorServes, Exists, Known
  <2>2. QED
    BY <1>2, <1>4, <2>1 DEF LinksChecked, Linked, Known
<1>5. CASE FindCarrier(q) /\ CarrierServes(r, links[2]) /\ Advance(q, "commit")
  <2>1. r.phase = "carrier" /\ UNCHANGED table /\ Known(links[2])
    BY <1>5 DEF FindCarrier, At, CarrierServes, Exists, Known
  <2>2. r.code \in Manifests \cup Checks => r.code \in Manifests /\ Known(links[1])
    BY <1>2, <1>5, <2>1 DEF LinksChecked
  <2>3. r.code \in Manifests => Linked(links)
    BY <1>2, <1>3, <1>5, <2>1, <2>2, LinksOfManifest DEF Linked
  <2>4. QED
    BY <1>2, <1>5, <2>1, <2>2, <2>3 DEF LinksChecked, Linked, Known
<1>6. CASE FindManifest(q) /\ ManifestServes(r, links[1]) /\ Advance(q, "commit")
  <2>1. r.phase = "manifest" /\ UNCHANGED table /\ Known(links[1])
    BY <1>6 DEF FindManifest, At, ManifestServes, Exists, Known
  <2>2. r.code \in Manifests \cup Checks => r.code \in Checks
    BY <1>2, <1>6, <2>1 DEF LinksChecked
  <2>3. r.code \in Checks => Linked(links)
    BY <1>2, <1>3, <1>6, <2>1, LinksOfCheck DEF Linked
  <2>4. QED
    BY <1>2, <1>6, <2>1, <2>2, <2>3 DEF LinksChecked, Linked, Known
<1>7. QED
  BY <1>1, <1>4, <1>5, <1>6 DEF Find, FindGenerator, FindCarrier, FindManifest

LEMMA CommitLinks ==
    ASSUME Inv, LinksInv, NEW q \in Requests, Commit(q)
    PROVE  LinksWereRecords' /\ LinksChecked(req[q])'
<1> DEFINE r == req[q]
           d == req[q].code
<1>1. /\ At(q, "commit") /\ d \in Records /\ r \in InFlight(d)
      /\ r.op \in {"create", "update", "transition", "delete"}
  BY InFlightRequest DEF Commit, CommitCreate, CommitUpdate, CommitDelete, At, Inv, TypeOK
<1>2. \A c \in Records : RowAdvances(c)
  BY CommitAdvances
<1>3. r.op # "delete" => r.current \in Rows(d, "live") /\ r.current.links \in Links(d)
  BY <1>1, LinkingRequest DEF At
<1>4. r.op # "delete" /\ d \in Manifests \cup Checks => Linked(r.current.links)
  BY <1>1 DEF LinksInv, LinksChecked, At
<1>5. ASSUME NEW c \in Manifests \cup Checks, table'[c].life # "absent"
      PROVE  LinkedNext(table'[c].links)
  <2>1. c \in Records
    BY DEF Records
  <2>2. ASSUME table[c].life # "absent", table'[c].links = table[c].links
        PROVE  LinkedNext(table'[c].links)
    <3>1. table[c].links \in Links(c)
      BY <2>1, <2>2, AbsentFields DEF Inv, TypeOK, TablesOK, Rows
    <3>2. Linked(table[c].links)
      BY <2>2 DEF LinksInv, LinksWereRecords, Linked, Known
    <3>3. LinkedNext(table[c].links)
      BY <1>2, <3>1, <3>2, LinkedStays
    <3>4. QED
      BY <2>2, <3>3
  <2>3. CASE table'[c] = table[c]
    BY <1>5, <2>2, <2>3
  <2>4. CASE c = d /\ r.op # "delete" /\ table'[c] = r.current
    <3>1. LinkedNext(r.current.links)
      BY <1>2, <1>3, <1>4, <2>4, LinkedStays
    <3>2. QED
      BY <2>4, <3>1
  <2>5. CASE c = d /\ Exists(d) /\ table'[c] = [table[d] EXCEPT !.life = "deleted"]
    <3>1. table[d] \in Rows(d, "live")
      BY <1>1, <2>5, LiveRow DEF Inv
    <3>2. QED
      BY <2>2, <2>5, <3>1 DEF Exists, Rows
  <2>6. \/ table' = table
        \/ r.op # "delete" /\ table' = [table EXCEPT ![d] = r.current]
        \/ Exists(d) /\ table' = [table EXCEPT ![d] = [table[d] EXCEPT !.life = "deleted"]]
    BY DEF Commit, CommitCreate, CommitUpdate, CommitDelete, Write
  <2>7. QED
    BY <1>1, <2>1, <2>3, <2>4, <2>5, <2>6 DEF Inv, TypeOK, TablesOK
<1>6. LinksWereRecords'
  BY <1>5 DEF LinksWereRecords, LinkedNext
<1>7. LinksChecked(req[q])'
  <2>1. CASE Finish(q)
    BY <2>1 DEF Finish, Idle, Inv, TypeOK, RequestsOK, LinksChecked
  <2>2. CASE Advance(q, "reply") /\ r.op \in {"update", "transition"}
    <3>1. r \in Changing(d)
      BY <1>1, <2>2, LinkingRequest DEF At
    <3>2. req'[q] = [r EXCEPT !.phase = "reply"]
      BY <2>2 DEF Advance, Inv, TypeOK, RequestsOK
    <3>3. /\ req'[q].phase = "reply" /\ req'[q].code = d
          /\ req'[q].current = r.current
      BY <3>1, <3>2 DEF Changing
    <3>4. d \in Manifests \cup Checks => LinkedNext(r.current.links)
      BY <1>2, <1>3, <1>4, <2>2, LinkedStays
    <3>5. QED
      BY <3>3, <3>4 DEF LinksChecked, Linked, LinkedNext, Known
  <2>3. QED
    BY <2>1, <2>2 DEF Commit, CommitCreate, CommitUpdate, CommitDelete
<1>8. QED
  BY <1>6, <1>7

LEMMA LinksNext == Inv /\ LinksInv /\ [Next]_vars => LinksInv'
<1> SUFFICES ASSUME Inv, LinksInv, [Next]_vars
             PROVE  LinksInv'
  OBVIOUS
<1>1. ASSUME NEW q \in Requests, Receive(q)
      PROVE  LinksInv'
  <2>1. StartsLinked(q)
    BY <1>1, ReceiveStartsLinked DEF Inv, LinksInv
  <2>2. PICK r : req' = [req EXCEPT ![q] = r] /\ LinksChecked(r) /\ UNCHANGED table
    BY <2>1 DEF StartsLinked
  <2>3. ASSUME NEW p \in Requests
        PROVE  LinksChecked(req[p])'
    <3>1. req'[p] = IF p = q THEN r ELSE req[p]
      BY <2>2 DEF Inv, TypeOK, RequestsOK
    <3>2. LinksChecked(r) /\ LinksChecked(req[p])
      BY <2>2 DEF LinksInv
    <3>3. CASE p = q
      BY <2>2, <3>1, <3>2, <3>3 DEF LinksChecked, Linked, Known
    <3>4. CASE p # q
      BY <2>2, <3>1, <3>2, <3>4 DEF LinksChecked, Linked, Known
    <3>5. QED
      BY <3>3, <3>4
  <2>4. QED
    BY <2>2, <2>3 DEF LinksInv, LinksWereRecords
<1>2. ASSUME NEW q \in Requests, Find(q) \/ Answer(q) \/ Abandon(q)
      PROVE  LinksInv'
  <2>1. /\ UNCHANGED table
        /\ Finish(q) \/ \E phase \in Phases : Advance(q, phase)
    BY <1>2 DEF Find, FindGenerator, FindCarrier, FindManifest, Answer, Abandon, Phases
  <2>2. ASSUME NEW p \in Requests, p # q
        PROVE  LinksChecked(req[p])'
    <3>1. req'[p] = req[p]
      BY <2>1, <2>2, OtherRequestUnmoved
    <3>2. QED
      BY <2>1, <3>1 DEF LinksInv, LinksChecked, Linked, Known
  <2>3. LinksChecked(req[q])'
    <3>1. CASE Find(q)
      BY <3>1, FindChecked DEF LinksInv
    <3>2. CASE Answer(q) \/ Abandon(q)
      BY <3>2 DEF Answer, Abandon, Finish, Idle, Inv, TypeOK, RequestsOK, LinksChecked
    <3>3. QED
      BY <1>2, <3>1, <3>2
  <2>4. QED
    BY <2>1, <2>2, <2>3 DEF LinksInv, LinksWereRecords
<1>3. ASSUME NEW q \in Requests, Commit(q)
      PROVE  LinksInv'
  <2>1. ASSUME NEW p \in Requests, p # q
        PROVE  LinksChecked(req[p])'
    <3>1. req'[p] = req[p]
      BY <1>3, <2>1, OtherRequestUnmoved
         DEF Commit, CommitCreate, CommitUpdate, CommitDelete, Phases
    <3>2. QED
      BY <1>3, <3>1, CommitAdvances, CheckedStays DEF LinksInv
  <2>2. QED
    BY <1>3, <2>1, CommitLinks DEF LinksInv
<1>4. CASE Tick \/ UNCHANGED vars
  BY <1>4 DEF Tick, vars, LinksInv, LinksWereRecords, LinksChecked, Linked, Known
<1>5. QED
  BY <1>1, <1>2, <1>3, <1>4 DEF Next, Handle

\* No manifest and no check ever links to a record that was never entered: the
\* lookups come before the transaction, and no row ever leaves the database.
THEOREM LinksAreKnown == Spec => []LinksWereRecords
<1>1. Inv /\ LinksInv /\ [Next]_vars => LinksInv'
  BY LinksNext
<1>2. LinksInv => LinksWereRecords
  BY DEF LinksInv
<1>3. QED
  BY LinksInit, Invariance, <1>1, <1>2, PTL DEF Spec
===============================================================================
