--------------------------- MODULE ComplianceProofs ---------------------------
(***************************************************************************)
(* Proofs about Compliance for every set of records and of requests, every *)
(* seed and every bound.                                                   *)
(***************************************************************************)
EXTENDS ComplianceProperties, TLAPS

-------------------------------------------------------------------------------
(* The kinds are disjoint, so that each rule looked up by code is the rule *)
(* of the code's own aggregate.                                            *)

LEMMA GeneratorRules ==
    ASSUME NEW c \in Generators
    PROVE  /\ c \in Records /\ Statuses(c) = GeneratorStatuses /\ Links(c) = { <<>> }
           /\ Graph(c) = WasteGeneratorTransitions /\ InitialStatus(c) = "active"
BY KindsAreDisjoint
   DEF Records, Permits, Statuses, Links, Graph, InitialStatus

LEMMA CarrierRules ==
    ASSUME NEW c \in Carriers
    PROVE  /\ c \in Records /\ Statuses(c) = CarrierStatuses /\ Links(c) = { <<>> }
           /\ Graph(c) = CarrierProfileTransitions /\ InitialStatus(c) = "pending"
BY KindsAreDisjoint
   DEF Records, Permits, Statuses, Links, Graph, InitialStatus

LEMMA ManifestRules ==
    ASSUME NEW c \in Manifests
    PROVE  /\ c \in Records /\ Statuses(c) = ManifestStatuses
           /\ Links(c) = Generators \X Carriers
           /\ Graph(c) = TransferManifestTransitions /\ InitialStatus(c) = "draft"
BY KindsAreDisjoint
   DEF Records, Permits, Statuses, Links, Graph, InitialStatus

LEMMA CheckRules ==
    ASSUME NEW c \in Checks
    PROVE  /\ c \in Records /\ Statuses(c) = CheckStatuses
           /\ Links(c) = { <<m>> : m \in Manifests }
           /\ Graph(c) = ComplianceCheckTransitions /\ InitialStatus(c) = "pending"
BY KindsAreDisjoint
   DEF Records, Permits, Statuses, Links, Graph, InitialStatus

LEMMA StatusesOfRecords ==
    ASSUME NEW c \in Records
    PROVE  /\ Statuses(c) \subseteq AnyStatus
           /\ InitialStatus(c) \in Statuses(c)
<1>1. CASE c \in Generators
  BY <1>1, GeneratorRules DEF AnyStatus, GeneratorStatuses
<1>2. CASE c \in Carriers
  BY <1>2, CarrierRules DEF AnyStatus, CarrierStatuses
<1>3. CASE c \in Manifests
  BY <1>3, ManifestRules DEF AnyStatus, ManifestStatuses
<1>4. CASE c \in Checks
  BY <1>4, CheckRules DEF AnyStatus, CheckStatuses
<1>5. QED
  BY <1>1, <1>2, <1>3, <1>4 DEF Records, Permits

-------------------------------------------------------------------------------
(* A request that starts: it is well typed, what it means to write is      *)
(* allowed by the rules for the row it read, and (when clients send only   *)
(* versions they were shown) what it read is fresh.                        *)

RequestIsLegal(r) ==
    /\ r.op = "create" => /\ r.before = "" /\ r.current.version = 1
                          /\ r.current.status = InitialStatus(r.code)
    /\ r.op \in {"update", "transition"} => /\ r.current.version = r.expected + 1
                                            /\ r.current.version <= MaxVersion[r.code]
    /\ r.op = "update" => r.current.status = r.before /\ Open(r.code, r.before)
    /\ r.op = "transition" => CanTransition(Graph(r.code), r.before, r.current.status)
    /\ r.op = "delete" => Open(r.code, r.before)

Starts(q) ==
    /\ req[q] = Idle
    /\ UNCHANGED <<table, history, now>>
    /\ \E c \in Records : \E r \in InFlight(c) :
          /\ r.phase # "reply"
          /\ RequestIsLegal(r)
          /\ Foresight = 0 => Fresh(r)
          /\ req' = [req EXCEPT ![q] = r]

LEMMA AbsentFields ==
    AbsentRow.life = "absent" /\ AbsentRow.status = "" /\ AbsentRow.version = 0
BY DEF AbsentRow

LEMMA LiveRow ==
    ASSUME TypeOK, NEW c \in Records, Exists(c)
    PROVE  table[c] \in Rows(c, "live")
<1>1. table[c] \in Rows(c, "live") \/ table[c] \in Rows(c, "deleted") \/ table[c] = AbsentRow
  BY DEF TypeOK, TablesOK
<1>2. table[c] \notin Rows(c, "deleted")
  BY DEF Exists, Rows
<1>3. QED
  BY <1>1, <1>2, AbsentFields DEF Exists

LEMMA EditedRow ==
    ASSUME NEW c \in Records, NEW row \in Rows(c, "live"), NEW version \in Nat \ {0},
           NEW expiry \in Nat, NEW links \in Links(c)
    PROVE  [row EXCEPT !.expiry = expiry, !.links = links, !.version = version]
               \in Rows(c, "live")
<1> DEFINE row1 == [row EXCEPT !.expiry = expiry]
           row2 == [row1 EXCEPT !.links = links]
<1>1. row1 \in Rows(c, "live")
  BY DEF Rows
<1> HIDE DEF row1
<1>2. row2 \in Rows(c, "live")
  BY <1>1 DEF Rows
<1> HIDE DEF row2
<1>3. [row2 EXCEPT !.version = version] \in Rows(c, "live")
  BY <1>2 DEF Rows
<1>4. QED
  BY <1>3 DEF row1, row2

LEMMA MovedRow ==
    ASSUME NEW c \in Records, NEW row \in Rows(c, "live"), NEW version \in Nat \ {0},
           NEW status \in Statuses(c)
    PROVE  [row EXCEPT !.status = status, !.version = version] \in Rows(c, "live")
<1> DEFINE row1 == [row EXCEPT !.status = status]
<1>1. row1 \in Rows(c, "live")
  BY DEF Rows
<1> HIDE DEF row1
<1>2. [row1 EXCEPT !.version = version] \in Rows(c, "live")
  BY <1>1 DEF Rows
<1>3. QED
  BY <1>2 DEF row1

LEMMA CreateStarts ==
    ASSUME TypeOK, NEW q \in Requests, NEW c \in Records, NEW expiry \in Nat,
           NEW links \in Links(c), NEW phase \in Phases \ {"reply"},
           AcceptCreate(q, c, expiry, links, phase)
    PROVE  Starts(q)
<1> DEFINE r == [phase |-> phase, op |-> "create", code |-> c, expected |-> 0, before |-> "",
                 current |-> NewRow(c, expiry, links), started |-> now]
<1>1. NewRow(c, expiry, links) \in Rows(c, "live")
  BY StatusesOfRecords DEF NewRow, Rows
<1>2. r \in InFlight(c)
  BY <1>1 DEF InFlight, Changing, TypeOK
<1>3. RequestIsLegal(r) /\ Fresh(r) /\ r.phase # "reply"
  BY DEF RequestIsLegal, NewRow, Fresh, Writing
<1>4. req' = [req EXCEPT ![q] = r] /\ req[q] = Idle /\ UNCHANGED <<table, history, now>>
  BY DEF AcceptCreate, Accept
<1> HIDE DEF r
<1>5. QED
  BY <1>2, <1>3, <1>4 DEF Starts

LEMMA UpdateStarts ==
    ASSUME TypeOK, NEW q \in Requests, NEW c \in Records, NEW v \in ExpectedVersions(c),
           NEW expiry \in Nat, NEW links \in Links(c), NEW phase \in Phases \ {"reply"},
           Exists(c), Open(c, table[c].status),
           AcceptUpdate(q, c, v, expiry, links, phase)
    PROVE  Starts(q)
<1> DEFINE row == [table[c] EXCEPT !.expiry = expiry, !.links = links, !.version = v + 1]
           r == [phase |-> phase, op |-> "update", code |-> c, expected |-> v,
                 before |-> table[c].status, current |-> row, started |-> now]
<1>1. /\ v \in Nat \ {0} /\ v + 1 \in Nat \ {0} /\ v + 1 <= MaxVersion[c]
      /\ v <= table[c].version + Foresight
  BY BoundsAssumption DEF ExpectedVersions
<1>2. table[c] \in Rows(c, "live")
  BY LiveRow
<1>3. /\ row \in Rows(c, "live")
      /\ row.version = v + 1 /\ row.status = table[c].status
  <2>1. row \in Rows(c, "live")
    BY <1>1, <1>2, EditedRow
  <2>2. row.version = v + 1 /\ row.status = table[c].status
    BY <1>2 DEF Rows
  <2>3. QED
    BY <2>1, <2>2
<1>4. table[c].status \in AnyStatus
  BY <1>2, StatusesOfRecords DEF Rows
<1> HIDE DEF row
<1>5. r \in InFlight(c)
  BY <1>1, <1>3, <1>4 DEF InFlight, Changing, TypeOK
<1>6. RequestIsLegal(r) /\ r.phase # "reply"
  BY <1>1, <1>3 DEF RequestIsLegal
<1>7. Foresight = 0 => Fresh(r)
  BY <1>1, <1>2 DEF Fresh, Writing, Rows
<1>8. req' = [req EXCEPT ![q] = r] /\ req[q] = Idle /\ UNCHANGED <<table, history, now>>
  BY DEF AcceptUpdate, Accept, row
<1> HIDE DEF r
<1>9. QED
  BY <1>5, <1>6, <1>7, <1>8 DEF Starts

LEMMA TransitionStarts ==
    ASSUME TypeOK, NEW q \in Requests, NEW c \in Records, NEW v \in ExpectedVersions(c),
           NEW target \in Statuses(c), NEW phase \in Phases \ {"reply"},
           Exists(c), CanTransition(Graph(c), table[c].status, target),
           AcceptTransition(q, c, v, target, phase)
    PROVE  Starts(q)
<1> DEFINE row == [table[c] EXCEPT !.status = target, !.version = v + 1]
           r == [phase |-> phase, op |-> "transition", code |-> c, expected |-> v,
                 before |-> table[c].status, current |-> row, started |-> now]
<1>1. /\ v \in Nat \ {0} /\ v + 1 \in Nat \ {0} /\ v + 1 <= MaxVersion[c]
      /\ v <= table[c].version + Foresight
  BY BoundsAssumption DEF ExpectedVersions
<1>2. table[c] \in Rows(c, "live")
  BY LiveRow
<1>3. /\ row \in Rows(c, "live") /\ row.version = v + 1 /\ row.status = target
      /\ row.links = table[c].links /\ row.expiry = table[c].expiry
  <2>1. row \in Rows(c, "live")
    BY <1>1, <1>2, MovedRow
  <2>2. /\ row.version = v + 1 /\ row.status = target
        /\ row.links = table[c].links /\ row.expiry = table[c].expiry
    BY <1>2 DEF Rows
  <2>3. QED
    BY <2>1, <2>2
<1>4. table[c].status \in AnyStatus
  BY <1>2, StatusesOfRecords DEF Rows
<1> HIDE DEF row
<1>5. r \in InFlight(c)
  BY <1>1, <1>3, <1>4 DEF InFlight, Changing, TypeOK
<1>6. RequestIsLegal(r) /\ r.phase # "reply"
  BY <1>1, <1>3 DEF RequestIsLegal
<1>7. Foresight = 0 => Fresh(r)
  BY <1>1, <1>2, <1>3 DEF Fresh, Writing, Rows, SameData
<1>8. req' = [req EXCEPT ![q] = r] /\ req[q] = Idle /\ UNCHANGED <<table, history, now>>
  BY DEF AcceptTransition, Accept, row
<1> HIDE DEF r
<1>9. QED
  BY <1>5, <1>6, <1>7, <1>8 DEF Starts

LEMMA DeleteStarts ==
    ASSUME TypeOK, NEW q \in Requests, NEW c \in Records,
           Exists(c), Open(c, table[c].status), AcceptDelete(q, c)
    PROVE  Starts(q)
<1> DEFINE r == [phase |-> "commit", op |-> "delete", code |-> c, expected |-> 0,
                 before |-> table[c].status, current |-> AbsentRow, started |-> now]
<1>1. table[c].status \in Statuses(c)
  BY LiveRow DEF Rows
<1>2. r \in InFlight(c)
  BY <1>1 DEF InFlight, Deleting, TypeOK
<1>3. RequestIsLegal(r) /\ Fresh(r) /\ r.phase # "reply"
  BY DEF RequestIsLegal, Fresh, Writing
<1>4. req' = [req EXCEPT ![q] = r] /\ req[q] = Idle /\ UNCHANGED <<table, history, now>>
  BY DEF AcceptDelete, Accept
<1> HIDE DEF r
<1>5. QED
  BY <1>2, <1>3, <1>4 DEF Starts

LEMMA ReceiveStarts ==
    ASSUME TypeOK, NEW q \in Requests, Receive(q)
    PROVE  Starts(q)
<1>1. ValidExpiries \subseteq Nat
  BY DEF ValidExpiries
<1>2. \A p \in {"generator", "carrier", "manifest", "commit"} : p \in Phases \ {"reply"}
  BY DEF Phases
<1>3. CASE GeneratorCreate(q)
  BY <1>1, <1>2, <1>3, GeneratorRules, CreateStarts DEF GeneratorCreate
<1>4. CASE GeneratorUpdate(q)
  BY <1>1, <1>2, <1>4, GeneratorRules, UpdateStarts DEF GeneratorUpdate, Open, Permits
<1>5. CASE GeneratorTransition(q)
  BY <1>1, <1>2, <1>5, GeneratorRules, TransitionStarts DEF GeneratorTransition
<1>6. CASE GeneratorDelete(q)
  BY <1>1, <1>2, <1>6, GeneratorRules, DeleteStarts DEF GeneratorDelete, Open, Permits
<1>7. CASE CarrierCreate(q)
  BY <1>1, <1>2, <1>7, CarrierRules, CreateStarts DEF CarrierCreate
<1>8. CASE CarrierUpdate(q)
  BY <1>1, <1>2, <1>8, CarrierRules, UpdateStarts DEF CarrierUpdate, Open, Permits
<1>9. CASE CarrierTransition(q)
  BY <1>1, <1>2, <1>9, CarrierRules, TransitionStarts DEF CarrierTransition
<1>10. CASE CarrierDelete(q)
  BY <1>1, <1>2, <1>10, CarrierRules, DeleteStarts DEF CarrierDelete, Open, Permits
<1>11. CASE ManifestCreate(q)
  BY <1>1, <1>2, <1>11, ManifestRules, CreateStarts DEF ManifestCreate
<1>12. CASE ManifestUpdate(q)
  BY <1>1, <1>2, <1>12, ManifestRules, UpdateStarts DEF ManifestUpdate, Open
<1>13. CASE ManifestTransition(q)
  BY <1>1, <1>2, <1>13, ManifestRules, TransitionStarts DEF ManifestTransition
<1>14. CASE ManifestDelete(q)
  BY <1>1, <1>2, <1>14, ManifestRules, DeleteStarts DEF ManifestDelete, Open
<1>15. CASE CheckCreate(q)
  BY <1>1, <1>2, <1>15, CheckRules, CreateStarts DEF CheckCreate
<1>16. CASE CheckUpdate(q)
  BY <1>1, <1>2, <1>16, CheckRules, UpdateStarts DEF CheckUpdate, Open
<1>17. CASE CheckTransition(q)
  BY <1>1, <1>2, <1>17, CheckRules, TransitionStarts DEF CheckTransition
<1>18. CASE CheckDelete(q)
  BY <1>1, <1>2, <1>18, CheckRules, DeleteStarts DEF CheckDelete, Open
<1>19. QED
  BY <1>3, <1>4, <1>5, <1>6, <1>7, <1>8, <1>9, <1>10,
     <1>11, <1>12, <1>13, <1>14, <1>15, <1>16, <1>17, <1>18 DEF Receive

-------------------------------------------------------------------------------
(* The type invariant.  It is inductive together with RequestsAreLegal,    *)
(* which says the same of the rules as RequestsOK says of the types.       *)

RequestsAreLegal == \A q \in Requests : ~At(q, "idle") => RequestIsLegal(req[q])

Inv == TypeOK /\ RequestsAreLegal

LEMMA InFlightRequest ==
    ASSUME RequestsOK, NEW q \in Requests, ~At(q, "idle")
    PROVE  req[q].code \in Records /\ req[q] \in InFlight(req[q].code)
<1>1. PICK c \in Records : req[q] \in InFlight(c)
  BY DEF RequestsOK, At, Idle
<1>2. req[q].code = c
  BY <1>1 DEF InFlight, Changing, Deleting
<1>3. QED
  BY <1>1, <1>2

LEMMA StartTyped ==
    ASSUME Inv, NEW q \in Requests, Starts(q)
    PROVE  Inv'
<1>1. PICK c \in Records : \E r \in InFlight(c) :
          r.phase # "reply" /\ RequestIsLegal(r) /\ req' = [req EXCEPT ![q] = r]
  BY DEF Starts
<1>2. PICK r \in InFlight(c) : RequestIsLegal(r) /\ req' = [req EXCEPT ![q] = r]
  BY <1>1
<1>3. RequestsOK'
  BY <1>2 DEF Inv, TypeOK, RequestsOK
<1>4. TablesOK' /\ (now \in Nat)'
  BY DEF Inv, TypeOK, TablesOK, Starts
<1>5. RequestsAreLegal'
  <2> SUFFICES ASSUME NEW p \in Requests, ~At(p, "idle")'
               PROVE  RequestIsLegal(req[p])'
    BY DEF RequestsAreLegal
  <2>1. CASE p = q
    BY <1>2, <2>1 DEF Inv, TypeOK, RequestsOK, RequestIsLegal
  <2>2. CASE p # q
    BY <1>2, <2>2 DEF Inv, TypeOK, RequestsOK, RequestsAreLegal, RequestIsLegal, At
  <2>3. QED
    BY <2>1, <2>2
<1>6. QED
  BY <1>3, <1>4, <1>5 DEF Inv, TypeOK

LEMMA FinishTyped ==
    ASSUME RequestsOK, RequestsAreLegal, NEW q \in Requests, Finish(q)
    PROVE  RequestsOK' /\ RequestsAreLegal'
<1>1. RequestsOK'
  BY DEF RequestsOK, Finish
<1>2. ASSUME NEW p \in Requests, ~At(p, "idle")'
      PROVE  RequestIsLegal(req[p])'
  <2>1. p # q
    BY <1>2 DEF RequestsOK, Finish, At, Idle
  <2>2. req'[p] = req[p]
    BY <2>1 DEF RequestsOK, Finish
  <2>3. QED
    BY <1>2, <2>2 DEF RequestsAreLegal, RequestIsLegal, At
<1>3. QED
  BY <1>1, <1>2 DEF RequestsAreLegal

LEMMA AdvanceTyped ==
    ASSUME RequestsOK, RequestsAreLegal, NEW q \in Requests, NEW phase \in Phases,
           ~At(q, "idle"), req[q].op # "delete", Advance(q, phase)
    PROVE  RequestsOK' /\ RequestsAreLegal'
<1> DEFINE r == [req[q] EXCEPT !.phase = phase]
<1>1. PICK c \in Records : req[q] \in Changing(c)
  BY InFlightRequest DEF InFlight, Deleting
<1>2. /\ r \in Changing(c)
      /\ r.op = req[q].op /\ r.code = req[q].code /\ r.expected = req[q].expected
      /\ r.before = req[q].before /\ r.current = req[q].current
  BY <1>1 DEF Changing
<1>3. req' = [req EXCEPT ![q] = r]
  BY DEF Advance
<1> HIDE DEF r
<1>4. RequestsOK'
  BY <1>2, <1>3 DEF RequestsOK, InFlight
<1>5. ASSUME NEW p \in Requests, ~At(p, "idle")'
      PROVE  RequestIsLegal(req[p])'
  <2>1. CASE p = q
    <3>1. RequestIsLegal(r)
      BY <1>2 DEF RequestsAreLegal, RequestIsLegal
    <3>2. QED
      BY <1>3, <2>1, <3>1 DEF RequestsOK, RequestIsLegal
  <2>2. CASE p # q
    BY <1>3, <1>5, <2>2 DEF RequestsOK, RequestsAreLegal, RequestIsLegal, At
  <2>3. QED
    BY <2>1, <2>2
<1>6. QED
  BY <1>4, <1>5 DEF RequestsAreLegal

LEMMA EntryTyped ==
    ASSUME RequestsOK, NEW q \in Requests, At(q, "commit")
    PROVE  Entry(req[q]) \in AuditLogs
<1> DEFINE r == req[q]
<1>1. r.code \in Records /\ r \in InFlight(r.code)
  BY InFlightRequest DEF At
<1>2. CASE r \in Deleting(r.code)
  BY <1>1, <1>2, StatusesOfRecords DEF Deleting, Entry, AuditLogs
<1>3. CASE r \in Changing(r.code)
  <2>1. r.current.status \in AnyStatus /\ r.op \in {"create", "update", "transition"}
        /\ r.before \in AnyStatus \cup {""}
    BY <1>1, <1>3, StatusesOfRecords DEF Changing, Rows
  <2>2. QED
    BY <2>1 DEF Entry, AuditLogs
<1>4. QED
  BY <1>1, <1>2, <1>3 DEF InFlight

LEMMA WriteTyped ==
    ASSUME TablesOK, NEW r, r.code \in Records, Entry(r) \in AuditLogs,
           NEW row \in Rows(r.code, "live") \cup Rows(r.code, "deleted"), Write(r, row)
    PROVE  TablesOK'
<1>1. history' \in [Records -> Seq(AuditLogs)]
  BY DEF TablesOK, Write
<1>2. DOMAIN table' = Records
  BY DEF TablesOK, Write
<1>3. ASSUME NEW c \in Records
      PROVE  table'[c] \in Rows(c, "live") \cup Rows(c, "deleted") \cup {AbsentRow}
  <2>1. table'[c] = IF c = r.code THEN row ELSE table[c]
    BY DEF TablesOK, Write
  <2>2. QED
    BY <2>1 DEF TablesOK
<1>4. QED
  BY <1>1, <1>2, <1>3 DEF TablesOK

LEMMA FindTyped ==
    ASSUME Inv, NEW q \in Requests, Find(q)
    PROVE  Inv'
<1>1. /\ ~At(q, "idle") /\ ~At(q, "commit") /\ UNCHANGED <<table, history, now>>
      /\ Finish(q) \/ \E phase \in Phases : Advance(q, phase)
  BY DEF Find, FindGenerator, FindCarrier, FindManifest, At, Phases
<1>2. req[q].op # "delete"
  BY <1>1, InFlightRequest DEF Inv, TypeOK, InFlight, Changing, Deleting, At
<1>3. RequestsOK' /\ RequestsAreLegal'
  BY <1>1, <1>2, FinishTyped, AdvanceTyped DEF Inv, TypeOK
<1>4. QED
  BY <1>1, <1>3 DEF Inv, TypeOK, TablesOK

LEMMA CommitCreateTyped ==
    ASSUME Inv, NEW q \in Requests, CommitCreate(q)
    PROVE  Inv'
<1>1. At(q, "commit") /\ req[q].op = "create" /\ Finish(q) /\ UNCHANGED now
  BY DEF CommitCreate
<1>2. req[q].code \in Records /\ req[q].current \in Rows(req[q].code, "live")
  BY <1>1, InFlightRequest DEF Inv, TypeOK, InFlight, Changing, Deleting, At
<1>3. TablesOK'
  <2>1. CASE UNCHANGED <<table, history>>
    BY <2>1 DEF Inv, TypeOK, TablesOK
  <2>2. CASE Write(req[q], req[q].current)
    BY <1>1, <1>2, <2>2, EntryTyped, WriteTyped DEF Inv, TypeOK
  <2>3. QED
    BY <2>1, <2>2 DEF CommitCreate
<1>4. QED
  BY <1>1, <1>3, FinishTyped DEF Inv, TypeOK

LEMMA CommitUpdateTyped ==
    ASSUME Inv, NEW q \in Requests, CommitUpdate(q)
    PROVE  Inv'
<1>1. At(q, "commit") /\ req[q].op \in {"update", "transition"} /\ UNCHANGED now
  BY DEF CommitUpdate
<1>2. req[q].code \in Records /\ req[q].current \in Rows(req[q].code, "live")
  BY <1>1, InFlightRequest DEF Inv, TypeOK, InFlight, Changing, Deleting, At
<1>3. CASE Write(req[q], req[q].current) /\ Advance(q, "reply")
  <2>1. TablesOK'
    BY <1>1, <1>2, <1>3, EntryTyped, WriteTyped DEF Inv, TypeOK
  <2>2. RequestsOK' /\ RequestsAreLegal'
    BY <1>1, <1>3, AdvanceTyped DEF Inv, TypeOK, At, Phases
  <2>3. QED
    BY <1>1, <2>1, <2>2 DEF Inv, TypeOK
<1>4. CASE Finish(q) /\ UNCHANGED <<table, history>>
  BY <1>1, <1>4, FinishTyped DEF Inv, TypeOK, TablesOK
<1>5. QED
  BY <1>3, <1>4 DEF CommitUpdate

LEMMA CommitDeleteTyped ==
    ASSUME Inv, NEW q \in Requests, CommitDelete(q)
    PROVE  Inv'
<1> DEFINE c == req[q].code
           row == [table[c] EXCEPT !.life = "deleted"]
<1>1. At(q, "commit") /\ Finish(q) /\ UNCHANGED now
  BY DEF CommitDelete
<1>2. c \in Records
  BY <1>1, InFlightRequest DEF Inv, TypeOK, At
<1>3. TablesOK'
  <2>1. CASE UNCHANGED <<table, history>>
    BY <2>1 DEF Inv, TypeOK, TablesOK
  <2>2. CASE Exists(c) /\ Write(req[q], row)
    <3>1. table[c] \in Rows(c, "live")
      BY <1>2, <2>2, LiveRow DEF Inv
    <3>2. row \in Rows(c, "deleted")
      BY <3>1 DEF Rows
    <3>3. QED
      BY <1>1, <1>2, <2>2, <3>2, EntryTyped, WriteTyped DEF Inv, TypeOK
  <2>3. QED
    BY <2>1, <2>2 DEF CommitDelete
<1>4. QED
  BY <1>1, <1>3, FinishTyped DEF Inv, TypeOK

LEMMA InvInit == Init => Inv
<1> SUFFICES ASSUME Init
             PROVE  Inv
  OBVIOUS
<1>1. TablesOK
  BY SeedAssumption DEF Init, TablesOK
<1>2. RequestsOK /\ RequestsAreLegal
  BY DEF Init, RequestsOK, RequestsAreLegal, At, Idle
<1>3. QED
  BY <1>1, <1>2 DEF Init, Inv, TypeOK

LEMMA InvNext == Inv /\ [Next]_vars => Inv'
<1> SUFFICES ASSUME Inv, [Next]_vars
             PROVE  Inv'
  OBVIOUS
<1>1. ASSUME NEW q \in Requests, Receive(q)
      PROVE  Inv'
  BY <1>1, ReceiveStarts, StartTyped DEF Inv
<1>2. ASSUME NEW q \in Requests, Find(q)
      PROVE  Inv'
  BY <1>2, FindTyped
<1>3. ASSUME NEW q \in Requests, Commit(q)
      PROVE  Inv'
  BY <1>3, CommitCreateTyped, CommitUpdateTyped, CommitDeleteTyped DEF Commit
<1>4. ASSUME NEW q \in Requests, Answer(q) \/ Abandon(q)
      PROVE  Inv'
  BY <1>4, FinishTyped DEF Answer, Abandon, Inv, TypeOK, TablesOK
<1>5. CASE Tick
  <2>1. RequestsOK' /\ RequestsAreLegal'
    BY <1>5 DEF Tick, Inv, TypeOK, RequestsOK, RequestsAreLegal, RequestIsLegal, At
  <2>2. TablesOK' /\ now' \in Nat
    BY <1>5 DEF Tick, Inv, TypeOK, TablesOK
  <2>3. QED
    BY <2>1, <2>2 DEF Inv, TypeOK
<1>6. CASE UNCHANGED vars
  BY <1>6 DEF vars, Inv, TypeOK, TablesOK, RequestsOK, RequestsAreLegal, RequestIsLegal, At
<1>7. QED
  BY <1>1, <1>2, <1>3, <1>4, <1>5, <1>6 DEF Next, Handle

LEMMA Invariance == Spec => []Inv
<1>1. Inv /\ [Next]_vars => Inv'
  BY InvNext
<1>2. QED
  BY InvInit, <1>1, PTL DEF Spec

\* Rows, audit entries and requests in flight always have their types: every
\* row keeps to the statuses and links of its own aggregate.
THEOREM TypeCorrect == Spec => []TypeOK
<1>1. Inv => TypeOK
  BY DEF Inv
<1>2. QED
  BY <1>1, Invariance, PTL

-------------------------------------------------------------------------------
(* The optimistic lock.                                                    *)

\* What a step does to a record's row, as far as freshness is concerned.
LEMMA OtherRequestUnmoved ==
    ASSUME Inv, NEW q \in Requests, NEW p \in Requests, p # q, Finish(q) \/ \E phase \in Phases : Advance(q, phase)
    PROVE  req'[p] = req[p]
BY DEF Inv, TypeOK, RequestsOK, Finish, Advance

LEMMA FreshStart ==
    ASSUME Inv, Foresight = 0, ReadIsFresh, NEW q \in Requests, Starts(q)
    PROVE  ReadIsFresh'
<1>1. PICK c \in Records : \E r \in InFlight(c) : Fresh(r) /\ req' = [req EXCEPT ![q] = r]
  BY DEF Starts
<1>2. PICK r \in InFlight(c) : Fresh(r) /\ req' = [req EXCEPT ![q] = r]
  BY <1>1
<1>3. UNCHANGED table
  BY DEF Starts
<1>4. ASSUME NEW p \in Requests
      PROVE  Fresh(req[p])'
  <2>1. req'[p] = IF p = q THEN r ELSE req[p]
    BY <1>2 DEF Inv, TypeOK, RequestsOK
  <2>2. QED
    BY <1>2, <1>3, <2>1 DEF ReadIsFresh, Fresh, Writing, SameData
<1>5. QED
  BY <1>4 DEF ReadIsFresh

LEMMA FreshFind ==
    ASSUME Inv, ReadIsFresh, NEW q \in Requests, Find(q)
    PROVE  ReadIsFresh'
<1>1. /\ ~At(q, "idle") /\ ~At(q, "reply") /\ UNCHANGED table
      /\ Finish(q) \/ \E phase \in Phases : Advance(q, phase)
  BY DEF Find, FindGenerator, FindCarrier, FindManifest, At, Phases
<1>2. req[q].phase \in {"generator", "carrier", "manifest", "commit"}
  BY <1>1, InFlightRequest DEF Inv, TypeOK, InFlight, Changing, Deleting, At, Phases
<1>3. ASSUME NEW p \in Requests
      PROVE  Fresh(req[p])'
  <2>1. CASE p # q
    BY <1>1, <2>1, OtherRequestUnmoved DEF ReadIsFresh, Fresh, Writing, SameData
  <2>2. CASE p = q /\ Finish(q)
    BY <2>2 DEF Inv, TypeOK, RequestsOK, Finish, Idle, Fresh, Writing
  <2>3. CASE p = q /\ \E phase \in Phases : Advance(q, phase)
    <3>1. PICK phase \in Phases : req' = [req EXCEPT ![q].phase = phase]
      BY <2>3 DEF Advance
    <3>2. req[q] \in Changing(req[q].code) \/ req[q] \in Deleting(req[q].code)
      BY <1>1, InFlightRequest DEF Inv, TypeOK, InFlight
    <3>3. /\ req'[q].op = req[q].op /\ req'[q].code = req[q].code
          /\ req'[q].expected = req[q].expected /\ req'[q].before = req[q].before
          /\ req'[q].current = req[q].current
      BY <3>1, <3>2 DEF Inv, TypeOK, RequestsOK, Changing, Deleting
    <3>4. QED
      BY <1>1, <1>2, <2>3, <3>3 DEF ReadIsFresh, Fresh, Writing, SameData
  <2>4. QED
    BY <1>1, <2>1, <2>2, <2>3
<1>4. QED
  BY <1>3 DEF ReadIsFresh

LEMMA VersionTyped ==
    ASSUME NEW c \in Records,
           NEW row \in Rows(c, "live") \cup Rows(c, "deleted") \cup {AbsentRow}
    PROVE  row.version \in Nat
<1>1. row \in Rows(c, "live") \/ row \in Rows(c, "deleted") => row.version \in Nat
  BY DEF Rows
<1>2. AbsentRow.version \in Nat
  BY DEF AbsentRow
<1>3. CASE row = AbsentRow
  BY <1>2, <1>3
<1>4. QED
  BY <1>1, <1>3

\* A write never lowers the version of a row, a live row stays in the
\* database, and a row that keeps its version keeps its content.
RowAdvances(c) ==
    table[c].life # "absent" =>
        /\ table'[c].life # "absent"
        /\ table'[c].version >= table[c].version
        /\ table'[c].version = table[c].version =>
             /\ table'[c].status = table[c].status
             /\ table'[c].links = table[c].links
             /\ table'[c].expiry = table[c].expiry

LEMMA FreshStays ==
    ASSUME Inv, Inv', ReadIsFresh, NEW p \in Requests, req'[p] = req[p],
           \A c \in Records : RowAdvances(c)
    PROVE  Fresh(req[p])'
<1> SUFFICES ASSUME Writing(req[p])
             PROVE  Fresh(req[p])'
  BY DEF Fresh, Writing
<1> DEFINE c == req[p].code
<1>1. c \in Records /\ req[p].expected \in Nat
  BY InFlightRequest DEF Inv, TypeOK, InFlight, Changing, Deleting, Writing, At
<1>2. Fresh(req[p])
  BY DEF ReadIsFresh
<1>3. table[c].version \in Nat /\ table'[c].version \in Nat
  BY <1>1, VersionTyped DEF Inv, TypeOK, TablesOK
<1>4. QED
  BY <1>1, <1>2, <1>3 DEF RowAdvances, Fresh, Writing, SameData

LEMMA CommitAdvances ==
    ASSUME Inv, NEW q \in Requests, Commit(q)
    PROVE  \A c \in Records : RowAdvances(c)
<1> DEFINE r == req[q]
           d == req[q].code
<1>1. /\ At(q, "commit") /\ d \in Records /\ r \in InFlight(d)
      /\ r.op \in {"create", "update", "transition", "delete"} /\ RequestIsLegal(r)
  BY InFlightRequest DEF Commit, CommitCreate, CommitUpdate, CommitDelete, At,
                         Inv, TypeOK, RequestsAreLegal
<1>2. \A c \in Records : table[c].version \in Nat
  BY VersionTyped DEF Inv, TypeOK, TablesOK
<1>3. ASSUME NEW c \in Records
      PROVE  RowAdvances(c)
  <2>1. CASE table' = table
    BY <1>2, <2>1 DEF RowAdvances
  <2>2. CASE CommitCreate(q) /\ Write(r, r.current)
    BY <1>1, <1>2, <2>2 DEF CommitCreate, Write, RowAdvances, Inv, TypeOK, TablesOK
  <2>3. CASE CommitUpdate(q) /\ VersionMatches(r) /\ Write(r, r.current)
    <3>1. /\ r.current.version = table[d].version + 1 /\ r.current.life = "live"
          /\ r.op \in {"update", "transition"}
      BY <1>1, <2>3 DEF CommitUpdate, VersionMatches, RequestIsLegal, InFlight, Changing,
                        Deleting, Rows
    <3>2. table'[c] = IF c = d THEN r.current ELSE table[c]
      BY <1>1, <2>3 DEF Write, Inv, TypeOK, TablesOK
    <3>3. QED
      BY <1>1, <1>2, <3>1, <3>2 DEF RowAdvances
  <2>4. CASE CommitDelete(q) /\ Exists(d) /\ Write(r, [table[d] EXCEPT !.life = "deleted"])
    <3>1. table[d] \in Rows(d, "live")
      BY <1>1, <2>4, LiveRow DEF Inv
    <3>2. table'[c] = IF c = d THEN [table[d] EXCEPT !.life = "deleted"] ELSE table[c]
      BY <1>1, <2>4 DEF Write, Inv, TypeOK, TablesOK
    <3>3. QED
      BY <1>1, <1>2, <3>1, <3>2 DEF RowAdvances, Rows
  <2>5. QED
    BY <2>1, <2>2, <2>3, <2>4 DEF Commit, CommitCreate, CommitUpdate, CommitDelete
<1>4. QED
  BY <1>3

LEMMA TransactionMoves ==
    ASSUME Inv, NEW q \in Requests, Commit(q)
    PROVE  /\ req[q].code \in Records
           /\ \A p \in Requests : p # q => req'[p] = req[p]
           /\ req'[q].phase # "commit"
<1>1. At(q, "commit") /\ ~At(q, "idle")
  BY DEF Commit, CommitCreate, CommitUpdate, CommitDelete, At
<1>2. Finish(q) \/ Advance(q, "reply")
  BY DEF Commit, CommitCreate, CommitUpdate, CommitDelete
<1>3. req'[q].phase # "commit"
  <2>1. CASE Finish(q)
    BY <2>1 DEF Finish, Idle, Inv, TypeOK, RequestsOK
  <2>2. CASE Advance(q, "reply")
    <3>1. req'[q] = [req[q] EXCEPT !.phase = "reply"]
      BY <2>2 DEF Advance, Inv, TypeOK, RequestsOK
    <3>2. req[q] \in InFlight(req[q].code)
      BY <1>1, InFlightRequest DEF Inv, TypeOK
    <3>3. QED
      BY <3>1, <3>2 DEF InFlight, Changing, Deleting
  <2>3. QED
    BY <1>2, <2>1, <2>2
<1>4. QED
  BY <1>1, <1>2, <1>3, InFlightRequest, OtherRequestUnmoved DEF Inv, TypeOK, Phases

LEMMA FreshCommit ==
    ASSUME Inv, Inv', ReadIsFresh, NEW q \in Requests, Commit(q)
    PROVE  ReadIsFresh' /\ \A c \in Records : RowAdvances(c)
<1> DEFINE r == req[q]
           d == req[q].code
<1>1. At(q, "commit") /\ r \in InFlight(d)
  BY InFlightRequest DEF Commit, CommitCreate, CommitUpdate, CommitDelete, At, Inv, TypeOK
<1>2. \A c \in Records : RowAdvances(c)
  BY CommitAdvances
<1>3. ASSUME NEW p \in Requests
      PROVE  Fresh(req[p])'
  <2>1. CASE p # q
    <3>1. req'[p] = req[p]
      BY <2>1, OtherRequestUnmoved
         DEF Commit, CommitCreate, CommitUpdate, CommitDelete, Phases
    <3>2. QED
      BY <1>2, <3>1, FreshStays
  <2>2. CASE p = q
    <3>1. Finish(q) \/ Advance(q, "reply")
      BY DEF Commit, CommitCreate, CommitUpdate, CommitDelete
    <3>2. req'[q].phase \in {"idle", "reply"}
      <4>1. CASE Finish(q)
        BY <4>1 DEF Finish, Idle, Inv, TypeOK, RequestsOK
      <4>2. CASE Advance(q, "reply")
        <5>1. r \in Changing(d) \/ r \in Deleting(d)
          BY <1>1 DEF InFlight
        <5>2. [r EXCEPT !.phase = "reply"].phase = "reply"
          BY <5>1 DEF Changing, Deleting
        <5>3. req'[q] = [r EXCEPT !.phase = "reply"]
          BY <4>2 DEF Advance, Inv, TypeOK, RequestsOK
        <5>4. QED
          BY <5>2, <5>3
      <4>3. QED
        BY <3>1, <4>1, <4>2
    <3>3. QED
      BY <2>2, <3>2 DEF Fresh, Writing
  <2>3. QED
    BY <2>1, <2>2
<1>4. QED
  BY <1>2, <1>3 DEF ReadIsFresh

LEMMA FreshInit == Init => ReadIsFresh
BY DEF Init, ReadIsFresh, Fresh, Writing, Idle

LEMMA FreshNext ==
    ASSUME Foresight = 0
    PROVE  Inv /\ Inv' /\ ReadIsFresh /\ [Next]_vars => ReadIsFresh'
<1> SUFFICES ASSUME Inv, Inv', ReadIsFresh, [Next]_vars
             PROVE  ReadIsFresh'
  OBVIOUS
<1>1. ASSUME NEW q \in Requests, Receive(q)
      PROVE  ReadIsFresh'
  BY <1>1, ReceiveStarts, FreshStart DEF Inv
<1>2. ASSUME NEW q \in Requests, Find(q)
      PROVE  ReadIsFresh'
  BY <1>2, FreshFind
<1>3. ASSUME NEW q \in Requests, Commit(q)
      PROVE  ReadIsFresh'
  BY <1>3, FreshCommit
<1>4. ASSUME NEW q \in Requests, Answer(q) \/ Abandon(q)
      PROVE  ReadIsFresh'
  <2>1. Finish(q) /\ UNCHANGED table
    BY <1>4 DEF Answer, Abandon
  <2>2. ASSUME NEW p \in Requests
        PROVE  Fresh(req[p])'
    <3>1. CASE p # q
      BY <2>1, <3>1, OtherRequestUnmoved DEF ReadIsFresh, Fresh, Writing, SameData
    <3>2. CASE p = q
      BY <2>1, <3>2 DEF Inv, TypeOK, RequestsOK, Finish, Idle, Fresh, Writing
    <3>3. QED
      BY <3>1, <3>2
  <2>3. QED
    BY <2>2 DEF ReadIsFresh
<1>5. CASE Tick \/ UNCHANGED vars
  BY <1>5 DEF Tick, vars, ReadIsFresh, Fresh, Writing, SameData
<1>6. QED
  BY <1>1, <1>2, <1>3, <1>4, <1>5 DEF Next, Handle

\* When clients send only versions they have been shown, an update or a
\* transition in flight whose version is still the row's has read that row:
\* comparing the client's version is as good as comparing the version read.
THEOREM OptimisticLock == ASSUME Foresight = 0 PROVE Spec => []ReadIsFresh
<1>1. Inv /\ Inv' /\ ReadIsFresh /\ [Next]_vars => ReadIsFresh'
  BY FreshNext
<1>2. QED
  BY FreshInit, Invariance, <1>1, PTL DEF Spec

-------------------------------------------------------------------------------
(* Every step that changes the database is one operation on one record.    *)

Puts(c, row) == table' = [table EXCEPT ![c] = row]

Logs(c, action, before, after) ==
    history' = [history EXCEPT
                  ![c] = Append(@, [action |-> action, before |-> before, after |-> after])]

Created(c, row) ==
    /\ table[c].life = "absent"
    /\ row.status = InitialStatus(c) /\ row.version = 1
    /\ Puts(c, row)
    /\ Logs(c, "create", "", row.status)

Edited(c, row) ==
    /\ Exists(c) /\ Open(c, table[c].status)
    /\ row.status = table[c].status
    /\ row.version = table[c].version + 1 /\ row.version <= MaxVersion[c]
    /\ Puts(c, row)
    /\ Logs(c, "update", row.status, row.status)

Moved(c, row) ==
    /\ Exists(c) /\ CanTransition(Graph(c), table[c].status, row.status)
    /\ row.version = table[c].version + 1 /\ row.version <= MaxVersion[c]
    /\ row.links = table[c].links
    /\ Puts(c, row)
    /\ Logs(c, "transition", table[c].status, row.status)

Removed(c, before) ==
    /\ Exists(c) /\ Open(c, before)
    /\ Puts(c, [table[c] EXCEPT !.life = "deleted"])
    /\ Logs(c, "delete", before, "deleted")

Operates(c) ==
    \/ \E row \in Rows(c, "live") : Created(c, row) \/ Edited(c, row) \/ Moved(c, row)
    \/ \E before \in Statuses(c) : Removed(c, before)

LEMMA CommitPuts ==
    ASSUME Inv, ReadIsFresh, NEW q \in Requests, CommitCreate(q) \/ CommitUpdate(q),
           ~UNCHANGED <<table, history>>
    PROVE  \E c \in Records : \E row \in Rows(c, "live") :
               Created(c, row) \/ Edited(c, row) \/ Moved(c, row)
<1> DEFINE r == req[q]
           c == req[q].code
<1>1. /\ At(q, "commit") /\ c \in Records /\ r \in InFlight(c) /\ RequestIsLegal(r)
      /\ r.code = c
  BY InFlightRequest DEF CommitCreate, CommitUpdate, At, Inv, TypeOK, RequestsAreLegal
<1>2. CASE CommitCreate(q)
  <2>1. /\ r.op = "create" /\ table[c].life = "absent" /\ Write(r, r.current)
    BY <1>2 DEF CommitCreate
  <2>2. r.current \in Rows(c, "live")
    BY <1>1, <2>1 DEF InFlight, Changing, Deleting
  <2>3. Entry(r) = [action |-> "create", before |-> "", after |-> r.current.status]
    BY <1>1, <2>1 DEF Entry, RequestIsLegal
  <2>4. Created(c, r.current)
    BY <1>1, <2>1, <2>3 DEF Created, Write, Puts, Logs, RequestIsLegal
  <2>5. QED
    BY <1>1, <2>2, <2>4
<1>3. CASE CommitUpdate(q)
  <2>1. /\ r.op \in {"update", "transition"} /\ Exists(c) /\ r.expected = table[c].version
        /\ Write(r, r.current)
    BY <1>3 DEF CommitUpdate, VersionMatches
  <2>2. r.current \in Rows(c, "live")
    BY <1>1, <2>1 DEF InFlight, Changing, Deleting
  <2>3. /\ r.before = table[c].status
        /\ r.op = "transition" => r.current.links = table[c].links
    BY <1>1, <2>1 DEF ReadIsFresh, Fresh, Writing, SameData, At
  <2>4. Entry(r) = [action |-> r.op, before |-> table[c].status, after |-> r.current.status]
    BY <2>1, <2>3 DEF Entry
  <2>5. CASE r.op = "update"
    <3>1. r.current.status = table[c].status
      BY <1>1, <2>3, <2>5 DEF RequestIsLegal
    <3>2. Edited(c, r.current)
      BY <1>1, <2>1, <2>3, <2>4, <2>5, <3>1 DEF Edited, Write, Puts, Logs, RequestIsLegal
    <3>3. QED
      BY <1>1, <2>2, <3>2
  <2>6. CASE r.op = "transition"
    <3>1. Moved(c, r.current)
      BY <1>1, <2>1, <2>3, <2>4, <2>6 DEF Moved, Write, Puts, Logs, RequestIsLegal
    <3>2. QED
      BY <1>1, <2>2, <3>1
  <2>7. QED
    BY <2>1, <2>5, <2>6
<1>4. QED
  BY <1>2, <1>3

LEMMA CommitOperates ==
    ASSUME Inv, ReadIsFresh, NEW q \in Requests, Commit(q), ~UNCHANGED <<table, history>>
    PROVE  \E c \in Records : Operates(c)
<1>1. CASE CommitCreate(q) \/ CommitUpdate(q)
  BY <1>1, CommitPuts DEF Operates
<1>2. CASE CommitDelete(q)
  <2> DEFINE r == req[q]
             c == req[q].code
  <2>1. /\ c \in Records /\ r \in InFlight(c) /\ RequestIsLegal(r) /\ r.code = c
    BY <1>2, InFlightRequest DEF CommitDelete, At, Inv, TypeOK, RequestsAreLegal
  <2>2. /\ r.op = "delete" /\ Exists(c)
        /\ Write(r, [table[c] EXCEPT !.life = "deleted"])
    BY <1>2 DEF CommitDelete
  <2>3. r.before \in Statuses(c)
    BY <2>1, <2>2 DEF InFlight, Changing, Deleting
  <2>4. Entry(r) = [action |-> "delete", before |-> r.before, after |-> "deleted"]
    BY <2>2 DEF Entry
  <2>5. Removed(c, r.before)
    BY <2>1, <2>2, <2>4 DEF Removed, Write, Puts, Logs, RequestIsLegal
  <2>6. QED
    BY <2>1, <2>3, <2>5 DEF Operates
<1>3. QED
  BY <1>1, <1>2 DEF Commit

\* Every step but a transaction leaves the rows and the log alone.
LEMMA OnlyCommitsWrite ==
    ASSUME Inv, [Next]_vars, ~UNCHANGED <<table, history>>
    PROVE  \E q \in Requests : Commit(q)
<1>1. ASSUME NEW q \in Requests, Receive(q)
      PROVE  UNCHANGED <<table, history>>
  BY <1>1, ReceiveStarts DEF Starts, Inv
<1>2. ASSUME NEW q \in Requests, Find(q) \/ Answer(q) \/ Abandon(q)
      PROVE  UNCHANGED <<table, history>>
  BY <1>2 DEF Find, FindGenerator, FindCarrier, FindManifest, Answer, Abandon
<1>3. QED
  BY <1>1, <1>2 DEF Next, Handle, Tick, vars

LEMMA StepOperates ==
    ASSUME Inv, ReadIsFresh, [Next]_vars, ~UNCHANGED <<table, history>>
    PROVE  \E c \in Records : Operates(c)
BY OnlyCommitsWrite, CommitOperates

LEMMA RowAfterPut ==
    ASSUME Inv, NEW c \in Records, NEW row, Puts(c, row), NEW d \in Records
    PROVE  table'[d] = IF d = c THEN row ELSE table[d]
BY DEF Inv, TypeOK, TablesOK, Puts

LEMMA StatusStep ==
    ASSUME Inv, NEW c \in Records, Operates(c), NEW d \in Records
    PROVE  /\ table[d].life # "absent" /\ table'[d].status # table[d].status
                => CanTransition(Graph(d), table[d].status, table'[d].status)
           /\ table[d].life = "deleted" => table'[d] = table[d]
           /\ table[d].life = "live" /\ ~Open(d, table[d].status)
                => table'[d].links = table[d].links
<1>1. ASSUME NEW row \in Rows(c, "live"), Created(c, row) \/ Edited(c, row) \/ Moved(c, row)
      PROVE  /\ table'[d] = IF d = c THEN row ELSE table[d]
             /\ \/ table[c].life = "absent"
                \/ /\ Exists(c) /\ row.status = table[c].status /\ Open(c, table[c].status)
                \/ /\ Exists(c) /\ CanTransition(Graph(c), table[c].status, row.status)
                   /\ row.links = table[c].links
  BY <1>1, RowAfterPut DEF Created, Edited, Moved
<1>2. ASSUME NEW before \in Statuses(c), Removed(c, before)
      PROVE  /\ Exists(c)
             /\ table'[d] = IF d = c THEN [table[c] EXCEPT !.life = "deleted"] ELSE table[d]
  BY <1>2, RowAfterPut DEF Removed
<1>3. CASE \E row \in Rows(c, "live") : Created(c, row) \/ Edited(c, row) \/ Moved(c, row)
  BY <1>1, <1>3 DEF Exists
<1>4. CASE \E before \in Statuses(c) : Removed(c, before)
  <2>1. table[c] \in Rows(c, "live")
    BY <1>2, <1>4, LiveRow DEF Inv
  <2>2. [table[c] EXCEPT !.life = "deleted"].status = table[c].status
        /\ [table[c] EXCEPT !.life = "deleted"].links = table[c].links
    BY <2>1 DEF Rows
  <2>3. QED
    BY <1>2, <1>4, <2>2 DEF Exists
<1>5. QED
  BY <1>3, <1>4 DEF Operates

\* The lock and the types together, boxed once for the theorems below.
LEMMA FreshInvariance == ASSUME Foresight = 0 PROVE Spec => [](Inv /\ ReadIsFresh)
BY Invariance, OptimisticLock, PTL

\* Whatever requests overlap, the status of a row moves only along the status
\* graph of its aggregate, as long as clients send versions they were shown.
THEOREM StatusesMoveAlongGraphs ==
    ASSUME Foresight = 0 PROVE Spec => StatusMovesAlongGraph
<1>1. Inv /\ ReadIsFresh /\ [Next]_vars =>
        [\A c \in Records :
           table[c].life # "absent" /\ table'[c].status # table[c].status
             => CanTransition(Graph(c), table[c].status, table'[c].status)]_vars
  <2> SUFFICES ASSUME Inv, ReadIsFresh, [Next]_vars, NEW d \in Records,
                      table[d].life # "absent", table'[d].status # table[d].status
               PROVE  CanTransition(Graph(d), table[d].status, table'[d].status)
    OBVIOUS
  <2>1. ~UNCHANGED <<table, history>>
    OBVIOUS
  <2>2. QED
    BY <2>1, StepOperates, StatusStep
<1>2. QED
  BY <1>1, FreshInvariance, PTL DEF Spec, StatusMovesAlongGraph

\* Whatever requests overlap, the links of a submitted manifest or a decided
\* check are never rewritten and a deleted row is never touched again.
THEOREM DecidedDataStays ==
    ASSUME Foresight = 0 PROVE Spec => DecidedDataIsFixed
<1>1. Inv /\ ReadIsFresh /\ [Next]_vars =>
        [\A c \in Records :
          /\ table[c].life = "deleted" => table'[c] = table[c]
          /\ table[c].life = "live" /\ ~Open(c, table[c].status)
               => table'[c].links = table[c].links]_vars
  <2> SUFFICES ASSUME Inv, ReadIsFresh, [Next]_vars, NEW d \in Records
               PROVE  /\ table[d].life = "deleted" => table'[d] = table[d]
                      /\ table[d].life = "live" /\ ~Open(d, table[d].status)
                           => table'[d].links = table[d].links
    OBVIOUS
  <2>1. CASE UNCHANGED <<table, history>>
    BY <2>1
  <2>2. CASE ~UNCHANGED <<table, history>>
    BY <2>2, StepOperates, StatusStep
  <2>3. QED
    BY <2>1, <2>2
<1>2. QED
  BY <1>1, FreshInvariance, PTL DEF Spec, DecidedDataIsFixed

-------------------------------------------------------------------------------
(* The audit trail.                                                        *)

LEMMA Appended ==
    ASSUME NEW h \in Seq(AuditLogs), NEW e \in AuditLogs
    PROVE  /\ Append(h, e) \in Seq(AuditLogs)
           /\ Len(Append(h, e)) = Len(h) + 1
           /\ DOMAIN h = 1..Len(h) /\ DOMAIN Append(h, e) = 1..(Len(h) + 1)
           /\ \A i \in 1..Len(h) : Append(h, e)[i] = h[i]
           /\ Append(h, e)[Len(h) + 1] = e
OBVIOUS

\* A log stays replayable when an entry is appended that the rules allow and
\* that follows from where the log ends.
LEMMA ReplaysAppended ==
    ASSUME NEW c \in Records, NEW h \in Seq(AuditLogs), NEW e \in AuditLogs,
           Replays(c, h), Legal(c, e),
           e.action # "delete" => e.before = StatusAfter(c, h, Len(h))
    PROVE  /\ Replays(c, Append(h, e))
           /\ StatusAfter(c, Append(h, e), Len(Append(h, e))) = e.after
<1> DEFINE g == Append(h, e)
           n == Len(h)
<1>1. /\ n \in Nat /\ DOMAIN h = 1..n /\ DOMAIN g = 1..(n + 1) /\ Len(g) = n + 1
      /\ \A i \in 1..n : g[i] = h[i]
      /\ g[n + 1] = e
  BY Appended
<1> HIDE DEF g, n
<1>2. \A i \in 0..n : StatusAfter(c, g, i) = StatusAfter(c, h, i)
  BY <1>1 DEF StatusAfter
<1>3. ASSUME NEW i \in 1..(n + 1)
      PROVE  /\ Legal(c, g[i])
             /\ g[i].action # "delete" => g[i].before = StatusAfter(c, g, i - 1)
  <2>1. CASE i \in 1..n
    <3>1. i - 1 \in 0..n /\ g[i] = h[i] /\ i \in DOMAIN h
      BY <1>1, <2>1
    <3>2. QED
      BY <1>2, <3>1 DEF Replays
  <2>2. CASE i = n + 1
    <3>1. i - 1 = n /\ n \in 0..n /\ g[i] = e
      BY <1>1, <2>2
    <3>2. QED
      BY <1>2, <3>1 DEF n
  <2>3. QED
    BY <1>1, <2>1, <2>2
<1>4. StatusAfter(c, g, n + 1) = e.after
  BY <1>1 DEF StatusAfter
<1>5. QED
  BY <1>1, <1>3, <1>4 DEF Replays, g

\* What an operation on record c appends to its log.
LogsLegally(c, e) ==
    /\ history' = [history EXCEPT ![c] = Append(@, e)]
    /\ Legal(c, e)
    /\ e.action # "delete" => e.before = table[c].status /\ table[c].life # "deleted"
    /\ e.after = IF table'[c].life = "deleted" THEN "deleted" ELSE table'[c].status

LEMMA OperatesLogs ==
    ASSUME Inv, NEW c \in Records, Operates(c)
    PROVE  \E e \in AuditLogs : LogsLegally(c, e)
<1>1. ASSUME NEW row \in Rows(c, "live"), Created(c, row) \/ Edited(c, row) \/ Moved(c, row)
      PROVE  table'[c] = row /\ row.life = "live" /\ row.status \in AnyStatus
  BY <1>1, RowAfterPut, StatusesOfRecords DEF Created, Edited, Moved, Rows
<1>2. ASSUME NEW row \in Rows(c, "live"), Created(c, row)
      PROVE  \E e \in AuditLogs : LogsLegally(c, e)
  <2> DEFINE e == [action |-> "create", before |-> "", after |-> row.status]
  <2>1. e \in AuditLogs
    BY <1>1, <1>2 DEF AuditLogs
  <2>2. table[c].status = "" /\ table[c].life # "deleted"
    <3>1. table[c] = AbsentRow
      BY <1>2 DEF Created, Inv, TypeOK, TablesOK, Rows
    <3>2. QED
      BY <1>2, <3>1, AbsentFields DEF Created
  <2>3. LogsLegally(c, e)
    BY <1>1, <1>2, <2>2 DEF Created, Logs, Legal, LogsLegally
  <2>4. QED
    BY <2>1, <2>3
<1>3. ASSUME NEW row \in Rows(c, "live"), Edited(c, row)
      PROVE  \E e \in AuditLogs : LogsLegally(c, e)
  <2> DEFINE e == [action |-> "update", before |-> row.status, after |-> row.status]
  <2>1. e \in AuditLogs
    BY <1>1, <1>3 DEF AuditLogs
  <2>2. LogsLegally(c, e)
    BY <1>1, <1>3 DEF Edited, Logs, Legal, Exists, LogsLegally
  <2>3. QED
    BY <2>1, <2>2
<1>4. ASSUME NEW row \in Rows(c, "live"), Moved(c, row)
      PROVE  \E e \in AuditLogs : LogsLegally(c, e)
  <2> DEFINE e == [action |-> "transition", before |-> table[c].status, after |-> row.status]
  <2>1. table[c].status \in AnyStatus
    BY <1>4, LiveRow, StatusesOfRecords DEF Moved, Rows, Inv
  <2>2. e \in AuditLogs
    BY <1>1, <1>4, <2>1 DEF AuditLogs
  <2>3. LogsLegally(c, e)
    BY <1>1, <1>4 DEF Moved, Logs, Legal, Exists, LogsLegally
  <2>4. QED
    BY <2>2, <2>3
<1>5. ASSUME NEW before \in Statuses(c), Removed(c, before)
      PROVE  \E e \in AuditLogs : LogsLegally(c, e)
  <2> DEFINE e == [action |-> "delete", before |-> before, after |-> "deleted"]
  <2>1. e \in AuditLogs
    BY StatusesOfRecords DEF AuditLogs
  <2>2. table'[c].life = "deleted"
    BY <1>5, RowAfterPut, LiveRow DEF Removed, Rows, Inv
  <2>3. LogsLegally(c, e)
    BY <1>5, <2>2 DEF Removed, Logs, Legal, LogsLegally
  <2>4. QED
    BY <2>1, <2>3
<1>6. QED
  BY <1>2, <1>3, <1>4, <1>5 DEF Operates

LEMMA OperatesReplays ==
    ASSUME Inv, AuditTrailReplays, NEW c \in Records, Operates(c)
    PROVE  AuditTrailReplays'
<1>1. PICK e \in AuditLogs : LogsLegally(c, e)
  BY OperatesLogs
<1>2. ASSUME NEW d \in Records
      PROVE  /\ Replays(d, history'[d])
             /\ StatusAfter(d, history'[d], Len(history'[d]))
                  = IF table'[d].life = "deleted" THEN "deleted" ELSE table'[d].status
  <2>1. CASE d = c
    <3>1. history[c] \in Seq(AuditLogs) /\ history'[c] = Append(history[c], e)
      BY <1>1 DEF Inv, TypeOK, TablesOK, LogsLegally
    <3>2. /\ Legal(c, e)
          /\ e.action # "delete" => e.before = StatusAfter(c, history[c], Len(history[c]))
      BY <1>1 DEF LogsLegally, AuditTrailReplays
    <3>3. /\ Replays(c, history'[c])
          /\ StatusAfter(c, history'[c], Len(history'[c])) = e.after
      BY <3>1, <3>2, ReplaysAppended DEF AuditTrailReplays
    <3>4. QED
      BY <1>1, <2>1, <3>3 DEF LogsLegally
  <2>2. CASE d # c
    <3>1. history'[d] = history[d]
      BY <1>1, <2>2 DEF Inv, TypeOK, TablesOK, LogsLegally
    <3>2. table'[d] = table[d]
      <4>1. \E row : Puts(c, row)
        BY DEF Operates, Created, Edited, Moved, Removed
      <4>2. QED
        BY <2>2, <4>1, RowAfterPut
    <3>3. QED
      BY <3>1, <3>2 DEF AuditTrailReplays
  <2>3. QED
    BY <2>1, <2>2
<1>3. QED
  BY <1>2 DEF AuditTrailReplays

\* The audit log of every record replays, from the row it was seeded with, to
\* the row in the database, whatever requests overlap.
THEOREM TrailReplays == ASSUME Foresight = 0 PROVE Spec => []AuditTrailReplays
<1>1. Init => AuditTrailReplays
  <2> SUFFICES ASSUME Init, NEW c \in Records
               PROVE  /\ Replays(c, history[c])
                      /\ StatusAfter(c, history[c], Len(history[c]))
                           = IF table[c].life = "deleted" THEN "deleted" ELSE table[c].status
    BY DEF AuditTrailReplays
  <2>1. history[c] = <<>> /\ table[c] = SeedTable[c]
    BY DEF Init
  <2>2. SeedTable[c].life # "deleted"
    BY SeedAssumption, AbsentFields DEF Rows
  <2>3. QED
    BY <2>1, <2>2 DEF Replays, StatusAfter
<1>2. Inv /\ ReadIsFresh /\ AuditTrailReplays /\ [Next]_vars => AuditTrailReplays'
  <2> SUFFICES ASSUME Inv, ReadIsFresh, AuditTrailReplays, [Next]_vars
               PROVE  AuditTrailReplays'
    OBVIOUS
  <2>1. CASE UNCHANGED <<table, history>>
    BY <2>1 DEF AuditTrailReplays
  <2>2. CASE ~UNCHANGED <<table, history>>
    BY <2>2, StepOperates, OperatesReplays
  <2>3. QED
    BY <2>1, <2>2
<1>3. QED
  BY <1>1, <1>2, FreshInvariance, PTL DEF Spec

-------------------------------------------------------------------------------
(* What a transaction writes, whatever versions clients name.              *)

\* A transaction that inserts an entry creates the record, writes the version
\* after the one its client named, or deletes the record.
Inserts(c, r) ==
    /\ \A d \in Records : d # c => table'[d] = table[d]
    /\ \E e \in AuditLogs : history' = [history EXCEPT ![c] = Append(@, e)]
    /\ \/ table[c].life = "absent" /\ table'[c].life = "live" /\ table'[c].version = 1
       \/ /\ r.op \in {"update", "transition"} /\ r.code = c /\ VersionMatches(r)
          /\ table'[c].life = "live" /\ table'[c].version = table[c].version + 1
       \/ /\ Exists(c)
          /\ table'[c].life = "deleted" /\ table'[c].version = table[c].version

LEMMA WriteInserts ==
    ASSUME Inv, NEW r, r.code \in Records, Entry(r) \in AuditLogs, NEW row, Write(r, row)
    PROVE  /\ \A d \in Records : table'[d] = IF d = r.code THEN row ELSE table[d]
           /\ \E e \in AuditLogs : history' = [history EXCEPT ![r.code] = Append(@, e)]
BY DEF Inv, TypeOK, TablesOK, Write

LEMMA CommitInserts ==
    ASSUME Inv, NEW q \in Requests, Commit(q)
    PROVE  UNCHANGED <<table, history>> \/ Inserts(req[q].code, req[q])
<1> DEFINE r == req[q]
           c == req[q].code
<1>1. At(q, "commit") /\ ~At(q, "idle")
  BY DEF Commit, CommitCreate, CommitUpdate, CommitDelete, At
<1>2. c \in Records /\ r \in InFlight(c) /\ RequestIsLegal(r) /\ Entry(r) \in AuditLogs
  BY <1>1, InFlightRequest, EntryTyped DEF Inv, TypeOK, RequestsAreLegal
<1>3. CASE CommitCreate(q)
  <2>1. SUFFICES ASSUME table[c].life = "absent", Write(r, r.current)
                 PROVE  Inserts(c, r)
    BY <1>3 DEF CommitCreate
  <2>2. r.current.life = "live" /\ r.current.version = 1
    BY <1>2, <1>3 DEF CommitCreate, InFlight, Changing, Deleting, Rows, RequestIsLegal
  <2>3. QED
    BY <1>2, <2>1, <2>2, WriteInserts DEF Inserts
<1>4. CASE CommitUpdate(q)
  <2>1. SUFFICES ASSUME VersionMatches(r), Write(r, r.current)
                 PROVE  Inserts(c, r)
    BY <1>4 DEF CommitUpdate
  <2>2. /\ r.op \in {"update", "transition"} /\ r.current.life = "live"
        /\ r.current.version = table[c].version + 1
    BY <1>2, <1>4, <2>1
       DEF CommitUpdate, VersionMatches, RequestIsLegal, InFlight, Changing, Deleting, Rows
  <2>3. QED
    BY <1>2, <2>1, <2>2, WriteInserts DEF Inserts
<1>5. CASE CommitDelete(q)
  <2> DEFINE deleted == [table[c] EXCEPT !.life = "deleted"]
  <2>1. SUFFICES ASSUME Exists(c), Write(r, deleted)
                 PROVE  Inserts(c, r)
    BY <1>5 DEF CommitDelete
  <2>2. deleted.life = "deleted" /\ deleted.version = table[c].version
    BY <1>2, <2>1, LiveRow DEF Inv, Rows
  <2>3. PICK row : row.life = "deleted" /\ row.version = table[c].version /\ Write(r, row)
    BY <2>1, <2>2
  <2> HIDE DEF deleted
  <2>4. QED
    BY <1>2, <2>1, <2>3, WriteInserts DEF Inserts
<1>6. QED
  BY <1>3, <1>4, <1>5 DEF Commit

LEMMA StepInserts ==
    ASSUME Inv, [Next]_vars, ~UNCHANGED <<table, history>>
    PROVE  \E c \in Records : \E r : Inserts(c, r)
BY OnlyCommitsWrite, CommitInserts, TransactionMoves

\* What a write does to the count of entries and to the version.
LEMMA InsertsCount ==
    ASSUME Inv, Inv', VersionCountsTheTrail, NEW c \in Records, NEW r, Inserts(c, r)
    PROVE  VersionCountsTheTrail'
<1> DEFINE Extra(row) == IF row.life = "deleted" THEN 1 ELSE 0
<1>1. /\ Len(history'[c]) = Len(history[c]) + 1 /\ Len(history[c]) \in Nat
      /\ \A d \in Records : d # c => history'[d] = history[d]
  BY Appended DEF Inv, TypeOK, TablesOK, Inserts
<1>2. /\ table[c].version \in Nat /\ table[c].life # "deleted"
      /\ table'[c].version + Extra(table'[c]) = table[c].version + 1
  <2>1. table[c].version \in Nat
    BY VersionTyped DEF Inv, TypeOK, TablesOK
  <2>2. table[c].life = "absent" => table[c].version = 0
    BY AbsentFields DEF Inv, TypeOK, TablesOK, Rows
  <2>3. QED
    BY <2>1, <2>2 DEF Inserts, VersionMatches, Exists
<1>3. \A d \in Records : d # c => table'[d] = table[d]
  BY DEF Inserts
<1>4. \A d \in Records : SeedTable[d].version \in Nat
  BY SeedAssumption, VersionTyped
<1>5. ASSUME NEW d \in Records
      PROVE  SeedTable[d].version + Len(history'[d]) = table'[d].version + Extra(table'[d])
  <2>1. CASE d # c
    BY <1>1, <1>3, <2>1 DEF VersionCountsTheTrail
  <2>2. CASE d = c
    <3>1. SeedTable[c].version + Len(history[c]) = table[c].version
      BY <1>2, <1>4 DEF VersionCountsTheTrail
    <3>2. table'[c].version \in Nat /\ Extra(table'[c]) \in Nat
      BY VersionTyped DEF Inv, TypeOK, TablesOK
    <3>3. QED
      BY <1>1, <1>2, <1>4, <2>2, <3>1, <3>2
  <2>3. QED
    BY <2>1, <2>2
<1>6. QED
  BY <1>5 DEF VersionCountsTheTrail

\* Every write leaves one audit entry and raises the version by one: the audit
\* log of a record is exactly as long as its version says.  This needs nothing
\* of the clients, not even that they only name versions they were shown.
THEOREM VersionIsTrailLength == Spec => []VersionCountsTheTrail
<1>1. Init => VersionCountsTheTrail
  <2> SUFFICES ASSUME Init, NEW c \in Records
               PROVE  SeedTable[c].version + Len(history[c])
                        = table[c].version + (IF table[c].life = "deleted" THEN 1 ELSE 0)
    BY DEF VersionCountsTheTrail
  <2>1. history[c] = <<>> /\ table[c] = SeedTable[c]
    BY DEF Init
  <2>2. SeedTable[c].version \in Nat
    BY SeedAssumption, VersionTyped
  <2>3. AbsentRow.life # "deleted"
    BY DEF AbsentRow
  <2>4. SeedTable[c].life # "deleted"
    BY <2>3, SeedAssumption DEF Rows
  <2>5. QED
    BY <2>1, <2>2, <2>4
<1>2. Inv /\ Inv' /\ VersionCountsTheTrail /\ [Next]_vars => VersionCountsTheTrail'
  <2> SUFFICES ASSUME Inv, Inv', VersionCountsTheTrail, [Next]_vars
               PROVE  VersionCountsTheTrail'
    OBVIOUS
  <2>1. CASE UNCHANGED <<table, history>>
    BY <2>1 DEF VersionCountsTheTrail
  <2>2. CASE ~UNCHANGED <<table, history>>
    BY <2>2, StepInserts, InsertsCount
  <2>3. QED
    BY <2>1, <2>2
<1>3. QED
  BY <1>1, <1>2, Invariance, PTL DEF Spec

-------------------------------------------------------------------------------
(* Refinement: every operation is an operation of RecordLifecycle.         *)

Shown == [c \in Records |-> Seen(table[c])]

\* The rules as RecordLifecycle sees them are the rules of Compliance.
LEMMA SameRules ==
    /\ Lifecycle!Records = Records
    /\ \A c : /\ Lifecycle!InitialStatus(c) = InitialStatus(c)
             /\ Lifecycle!Statuses(c) = Statuses(c)
             /\ Lifecycle!Graph(c) = Graph(c)
             /\ \A s : Lifecycle!Open(c, s) <=> Open(c, s)
    /\ \A g, a, b : Lifecycle!CanTransition(g, a, b) <=> CanTransition(g, a, b)
<1>1. Lifecycle!Records = Records /\ Lifecycle!Permits = Permits
  BY DEF Lifecycle!Records, Records, Lifecycle!Permits, Permits
<1>2. \A c : Lifecycle!InitialStatus(c) = InitialStatus(c)
  BY DEF Lifecycle!InitialStatus, InitialStatus
<1>3. \A c : Lifecycle!Statuses(c) = Statuses(c)
  BY DEF Lifecycle!Statuses, Statuses, Lifecycle!GeneratorStatuses, GeneratorStatuses,
         Lifecycle!CarrierStatuses, CarrierStatuses, Lifecycle!ManifestStatuses,
         ManifestStatuses, Lifecycle!CheckStatuses, CheckStatuses
<1>4. /\ Lifecycle!WasteGeneratorTransitions = WasteGeneratorTransitions
      /\ Lifecycle!CarrierProfileTransitions = CarrierProfileTransitions
      /\ Lifecycle!TransferManifestTransitions = TransferManifestTransitions
      /\ Lifecycle!ComplianceCheckTransitions = ComplianceCheckTransitions
  BY Zenon DEF Lifecycle!WasteGeneratorTransitions, WasteGeneratorTransitions,
         Lifecycle!CarrierProfileTransitions, CarrierProfileTransitions,
         Lifecycle!TransferManifestTransitions, TransferManifestTransitions,
         Lifecycle!ComplianceCheckTransitions, ComplianceCheckTransitions
<1>5. \A c : Lifecycle!Graph(c) = Graph(c)
  BY <1>4 DEF Lifecycle!Graph, Graph
<1>6. \A c, s : Lifecycle!Open(c, s) <=> Open(c, s)
  BY <1>1, <1>2 DEF Lifecycle!Open, Open
<1>7. \A g, a, b : Lifecycle!CanTransition(g, a, b) <=> CanTransition(g, a, b)
  BY DEF Lifecycle!CanTransition, CanTransition
<1>8. QED
  BY <1>1, <1>2, <1>3, <1>5, <1>6, <1>7

\* What RecordLifecycle sees of a record, and of a write to it.
LEMMA SeenFields ==
    ASSUME NEW c \in Records
    PROVE  /\ Shown[c].life = table[c].life
           /\ Shown[c].status = table[c].status
           /\ Shown[c].version = table[c].version
           /\ Lifecycle!Live(c) <=> Exists(c)
BY DEF Shown, Seen, Lifecycle!Live, Exists

LEMMA PutsShows ==
    ASSUME Inv, NEW c \in Records, NEW row, Puts(c, row)
    PROVE  Lifecycle!Becomes(c, row.life, row.status, row.version)
<1>1. Shown' = [Shown EXCEPT ![c] = [life |-> row.life, status |-> row.status,
                                     version |-> row.version]]
  BY RowAfterPut DEF Shown, Seen
<1>2. QED
  BY <1>1 DEF Lifecycle!Becomes, Shown

LEMMA LogsShow ==
    ASSUME NEW c, NEW action, NEW before, NEW after, Logs(c, action, before, after)
    PROVE  Lifecycle!Log(c, action, before, after)
BY DEF Logs, Lifecycle!Log

LEMMA WritesRefine ==
    ASSUME Inv, NEW c \in Records,
           \E row \in Rows(c, "live") : Created(c, row) \/ Edited(c, row) \/ Moved(c, row)
    PROVE  Lifecycle!Act(c)
<1>1. CASE \E row \in Rows(c, "live") : Created(c, row)
  <2>1. PICK row \in Rows(c, "live") : Created(c, row)
    BY <1>1
  <2>2. row.life = "live" /\ row.status = InitialStatus(c) /\ row.version = 1
    BY <2>1 DEF Created, Rows
  <2>3. Lifecycle!Becomes(c, "live", InitialStatus(c), 1)
    BY <2>1, <2>2, PutsShows DEF Created
  <2>4. Lifecycle!Log(c, "create", "", InitialStatus(c))
    BY <2>1, <2>2, LogsShow DEF Created
  <2>5. table[c].life = "absent"
    BY <2>1 DEF Created
  <2>6. Lifecycle!Create(c)
    BY <2>3, <2>4, <2>5, SeenFields, SameRules DEF Lifecycle!Create, Shown
  <2>7. QED
    BY <2>6 DEF Lifecycle!Act
<1>2. CASE \E row \in Rows(c, "live") : Edited(c, row)
  <2>1. PICK row \in Rows(c, "live") : Edited(c, row)
    BY <1>2
  <2>2. row.life = "live" /\ row.status = table[c].status /\ row.version = table[c].version + 1
    BY <2>1 DEF Edited, Rows
  <2>3. Lifecycle!Becomes(c, "live", table[c].status, table[c].version + 1)
    BY <2>1, <2>2, PutsShows DEF Edited
  <2>4. Lifecycle!Log(c, "update", table[c].status, table[c].status)
    BY <2>1, <2>2, LogsShow DEF Edited
  <2>5. Exists(c) /\ Open(c, table[c].status)
    BY <2>1 DEF Edited
  <2>6. Lifecycle!Edit(c)
    BY <2>3, <2>4, <2>5, SeenFields, SameRules DEF Lifecycle!Edit, Shown
  <2>7. QED
    BY <2>6 DEF Lifecycle!Act
<1>3. CASE \E row \in Rows(c, "live") : Moved(c, row)
  <2>1. PICK row \in Rows(c, "live") : Moved(c, row)
    BY <1>3
  <2>2. row.life = "live" /\ row.status \in Statuses(c) /\ row.version = table[c].version + 1
    BY <2>1 DEF Moved, Rows
  <2>3. Lifecycle!Becomes(c, "live", row.status, table[c].version + 1)
    BY <2>1, <2>2, PutsShows DEF Moved
  <2>4. Lifecycle!Log(c, "transition", table[c].status, row.status)
    BY <2>1, <2>2, LogsShow DEF Moved
  <2>5. Exists(c) /\ CanTransition(Graph(c), table[c].status, row.status)
    BY <2>1 DEF Moved
  <2>6. Lifecycle!Move(c, row.status)
    BY <2>3, <2>4, <2>5, SeenFields, SameRules DEF Lifecycle!Move, Shown
  <2>7. QED
    BY <2>2, <2>6, SameRules DEF Lifecycle!Act
<1>4. QED
  BY <1>1, <1>2, <1>3

LEMMA RemovalRefines ==
    ASSUME Inv, NEW c \in Records, NEW before \in Statuses(c), Removed(c, before)
    PROVE  Lifecycle!RemoveLate(c, before)
<1> DEFINE row == [table[c] EXCEPT !.life = "deleted"]
<1>1. row.life = "deleted" /\ row.status = table[c].status /\ row.version = table[c].version
  BY LiveRow DEF Removed, Rows
<1>2. Puts(c, row)
  BY DEF Removed
<1> HIDE DEF row
<1>3. Lifecycle!Becomes(c, "deleted", table[c].status, table[c].version)
  BY <1>1, <1>2, PutsShows
<1>4. Lifecycle!Log(c, "delete", before, "deleted")
  BY LogsShow DEF Removed
<1>5. Exists(c) /\ Open(c, before)
  BY DEF Removed
<1>6. QED
  BY <1>3, <1>4, <1>5, SeenFields, SameRules DEF Lifecycle!RemoveLate, Shown

LEMMA OperatesRefines ==
    ASSUME Inv, NEW c \in Records, Operates(c)
    PROVE  \E d \in Records : Lifecycle!Act(d) \/ \E s \in Statuses(d) : Lifecycle!RemoveLate(d, s)
BY WritesRefine, RemovalRefines DEF Operates

\* Overlapping requests implement the abstract life of every record: each
\* write is one create, edit, move or removal of one record together with its
\* one audit entry, and only a removal may act on a status already left.
THEOREM ImplementsLifecycle ==
    ASSUME Foresight = 0 PROVE Spec => ImplementsOverlappingPromise
<1>1. Init => Lifecycle!Begin
  BY SameRules DEF Init, Lifecycle!Begin, Seen
<1>2. Inv /\ ReadIsFresh /\ [Next]_vars =>
        [\E c \in Records : Lifecycle!Act(c)
                              \/ \E s \in Statuses(c) : Lifecycle!RemoveLate(c, s)
        ]_(Lifecycle!lifecycleVars)
  <2> SUFFICES ASSUME Inv, ReadIsFresh, [Next]_vars
               PROVE  [\E c \in Records : Lifecycle!Act(c)
                              \/ \E s \in Statuses(c) : Lifecycle!RemoveLate(c, s)
                      ]_(Lifecycle!lifecycleVars)
    OBVIOUS
  <2>1. CASE UNCHANGED <<table, history>>
    BY <2>1 DEF Lifecycle!lifecycleVars, Seen
  <2>2. CASE ~UNCHANGED <<table, history>>
    BY <2>2, StepOperates, OperatesRefines
  <2>3. QED
    BY <2>1, <2>2
<1>3. [\E c \in Records : Lifecycle!Act(c)
                            \/ \E s \in Statuses(c) : Lifecycle!RemoveLate(c, s)
      ]_(Lifecycle!lifecycleVars)
      <=> [\E c \in Lifecycle!Records : Lifecycle!Act(c)
                            \/ \E s \in Lifecycle!Statuses(c) : Lifecycle!RemoveLate(c, s)
          ]_(Lifecycle!lifecycleVars)
  BY SameRules
<1>4. QED
  BY <1>1, <1>2, <1>3, FreshInvariance, PTL
     DEF Spec, ImplementsOverlappingPromise, Lifecycle!OverlappingPromise

-------------------------------------------------------------------------------
(* Composition: every operation is a write or a deletion as Workbench      *)
(* expects them of the server.                                             *)

\* The rules as Workbench sees them are the rules of Compliance.
LEMMA SamePageRules ==
    /\ Page!Records = Records
    /\ \A c : /\ Page!InitialStatus(c) = InitialStatus(c)
             /\ Page!Statuses(c) = Statuses(c)
             /\ Page!Graph(c) = Graph(c)
             /\ \A s : Page!Open(c, s) <=> Open(c, s)
    /\ \A g, a, b : Page!CanTransition(g, a, b) <=> CanTransition(g, a, b)
<1>1. Page!Records = Records /\ Page!Permits = Permits
  BY DEF Page!Records, Records, Page!Permits, Permits
<1>2. \A c : Page!InitialStatus(c) = InitialStatus(c)
  BY DEF Page!InitialStatus, InitialStatus
<1>3. \A c : Page!Statuses(c) = Statuses(c)
  BY DEF Page!Statuses, Statuses, Page!GeneratorStatuses, GeneratorStatuses,
         Page!CarrierStatuses, CarrierStatuses, Page!ManifestStatuses,
         ManifestStatuses, Page!CheckStatuses, CheckStatuses
<1>4. /\ Page!WasteGeneratorTransitions = WasteGeneratorTransitions
      /\ Page!CarrierProfileTransitions = CarrierProfileTransitions
      /\ Page!TransferManifestTransitions = TransferManifestTransitions
      /\ Page!ComplianceCheckTransitions = ComplianceCheckTransitions
  BY Zenon DEF Page!WasteGeneratorTransitions, WasteGeneratorTransitions,
         Page!CarrierProfileTransitions, CarrierProfileTransitions,
         Page!TransferManifestTransitions, TransferManifestTransitions,
         Page!ComplianceCheckTransitions, ComplianceCheckTransitions
<1>5. \A c : Page!Graph(c) = Graph(c)
  BY <1>4 DEF Page!Graph, Graph
<1>6. \A c, s : Page!Open(c, s) <=> Open(c, s)
  BY <1>1, <1>2 DEF Page!Open, Open
<1>7. \A g, a, b : Page!CanTransition(g, a, b) <=> CanTransition(g, a, b)
  BY DEF Page!CanTransition, CanTransition
<1>8. QED
  BY <1>1, <1>2, <1>3, <1>5, <1>6, <1>7

\* A write that raises the version within its bound is a Save of the page's table.
LEMMA PutsSave ==
    ASSUME Inv, NEW c \in Records, NEW row, Puts(c, row), row.life = "live",
           row.version = table[c].version + 1, table[c].version < MaxVersion[c]
    PROVE  Page!Save(c, row.status)
<1>1. Shown' = [Shown EXCEPT ![c] = [life |-> "live", status |-> row.status,
                                     version |-> table[c].version + 1]]
  BY RowAfterPut DEF Shown, Seen
<1>2. Shown[c].version = table[c].version
  BY SeenFields
<1>3. Shown' = [Shown EXCEPT ![c] = [life |-> "live", status |-> row.status,
                                     version |-> @.version + 1]]
  BY <1>1, <1>2
<1>4. QED
  BY <1>2, <1>3 DEF Page!Save, Shown

LEMMA AbsentIsShown ==
    ASSUME Inv, NEW c \in Records, table[c].life = "absent"
    PROVE  table[c].version = 0 /\ Shown[c] = Page!AbsentRow
<1>1. table[c] = AbsentRow
  BY DEF Inv, TypeOK, TablesOK, Rows
<1>2. QED
  BY <1>1, AbsentFields DEF Shown, Seen, Page!AbsentRow

LEMMA OperatesOnThePage ==
    ASSUME Inv, NEW c \in Records, Operates(c)
    PROVE  Page!Written(c) \/ Page!Deleted(c)
<1>1. CASE \E row \in Rows(c, "live") : Created(c, row)
  <2>1. PICK row \in Rows(c, "live") : Created(c, row)
    BY <1>1
  <2>2. row.life = "live" /\ row.status = InitialStatus(c) /\ row.version = 1
    BY <2>1 DEF Created, Rows
  <2>3. table[c].version = 0 /\ Shown[c] = Page!AbsentRow
    BY <2>1, AbsentIsShown DEF Created
  <2>4. table[c].version < MaxVersion[c]
    BY <2>3, BoundsAssumption
  <2>5. Puts(c, row) /\ row.version = table[c].version + 1
    <3>1. Puts(c, row)
      BY <2>1 DEF Created
    <3>2. row.version = 1 /\ table[c].version = 0
      BY <2>2, <2>3
    <3>3. QED
      BY <3>1, <3>2
  <2>6. Page!Save(c, row.status)
    BY <2>2, <2>4, <2>5, PutsSave
  <2>7. Page!Insert(c)
    BY <2>2, <2>3, <2>6, SamePageRules DEF Page!Insert, Shown
  <2>8. QED
    BY <2>7 DEF Page!Written
<1>2. CASE \E row \in Rows(c, "live") : Edited(c, row) \/ Moved(c, row)
  <2>1. PICK row \in Rows(c, "live") : Edited(c, row) \/ Moved(c, row)
    BY <1>2
  <2>2. /\ row.life = "live" /\ row.status \in Statuses(c) /\ Exists(c) /\ Puts(c, row)
        /\ row.version = table[c].version + 1 /\ row.version <= MaxVersion[c]
    BY <2>1 DEF Edited, Moved, Rows
  <2>3. table[c].version \in Nat /\ MaxVersion[c] \in Nat
    BY <2>2, LiveRow, BoundsAssumption DEF Inv, Rows
  <2>4. table[c].version < MaxVersion[c]
    BY <2>2, <2>3
  <2>5. Page!Save(c, row.status)
    BY <2>2, <2>4, PutsSave
  <2>6. Page!Live(c) /\ Shown[c].status = table[c].status
    BY <2>2, SeenFields DEF Page!Live, Shown, Exists
  <2>7. CASE Edited(c, row)
    BY <2>5, <2>6, <2>7, SamePageRules DEF Edited, Page!Written, Shown
  <2>8. CASE Moved(c, row)
    BY <2>2, <2>5, <2>6, <2>8, SamePageRules DEF Moved, Page!Written, Shown
  <2>9. QED
    BY <2>1, <2>7, <2>8
<1>3. CASE \E before \in Statuses(c) : Removed(c, before)
  <2> DEFINE row == [table[c] EXCEPT !.life = "deleted"]
  <2>1. Exists(c) /\ Puts(c, row)
    BY <1>3 DEF Removed
  <2>2. row.life = "deleted" /\ row.status = table[c].status /\ row.version = table[c].version
    BY <2>1, LiveRow DEF Rows, Inv
  <2> HIDE DEF row
  <2>3. Shown' = [Shown EXCEPT ![c] = [life |-> row.life, status |-> row.status,
                                       version |-> row.version]]
    BY <2>1, RowAfterPut DEF Shown, Seen
  <2>4. [Shown[c] EXCEPT !.life = "deleted"]
          = [life |-> "deleted", status |-> table[c].status, version |-> table[c].version]
    BY DEF Shown, Seen
  <2>5. Shown' = [Shown EXCEPT ![c].life = "deleted"]
    BY <2>2, <2>3, <2>4
  <2>6. Page!Live(c)
    BY <2>1, SeenFields DEF Page!Live, Shown, Exists
  <2>7. QED
    BY <2>5, <2>6 DEF Page!Deleted, Shown
<1>4. QED
  BY <1>1, <1>2, <1>3 DEF Operates

\* The server of Compliance is the server Workbench takes for granted: the rows
\* start as seeded, and every change of one is a write that raises its version,
\* along its graph when the status changes, or a deletion.
THEOREM ServerFeedsThePage ==
    ASSUME Foresight = 0 PROVE Spec => FeedsThePage
<1>1. Init => Page!Begin
  BY SamePageRules DEF Init, Page!Begin, Seen
<1>2. Inv /\ ReadIsFresh /\ [Next]_vars =>
        [\E c \in Page!Records : Page!Written(c) \/ Page!Deleted(c)]_Shown
  <2> SUFFICES ASSUME Inv, ReadIsFresh, [Next]_vars
               PROVE  [\E c \in Page!Records : Page!Written(c) \/ Page!Deleted(c)]_Shown
    OBVIOUS
  <2>1. CASE UNCHANGED <<table, history>>
    BY <2>1 DEF Shown, Seen
  <2>2. CASE ~UNCHANGED <<table, history>>
    <3>1. PICK c \in Records : Operates(c)
      BY <2>2, StepOperates
    <3>2. QED
      BY <3>1, OperatesOnThePage, SamePageRules
  <2>3. QED
    BY <2>1, <2>2
<1>3. QED
  BY <1>1, <1>2, FreshInvariance, PTL
     DEF Spec, FeedsThePage, Page!ServersTable, Shown
===============================================================================
