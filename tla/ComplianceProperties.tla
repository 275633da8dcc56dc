------------------------ MODULE ComplianceProperties --------------------------
(***************************************************************************)
(* What the API server must keep, stated over the state of Compliance.     *)
(***************************************************************************)
EXTENDS Compliance

-------------------------------------------------------------------------------
(* What holds whatever requests overlap.                                   *)

TablesOK ==
    /\ DOMAIN table = Records
    /\ \A c \in Records : table[c] \in Rows(c, "live") \cup Rows(c, "deleted") \cup {AbsentRow}
    /\ history \in [Records -> Seq(AuditLogs)]

RequestsOK ==
    /\ DOMAIN req = Requests
    /\ \A q \in Requests : \/ req[q] = Idle
                           \/ \E c \in Records : req[q] \in InFlight(c)

\* The shape of the state: every row has a status of its own graph and links
\* of its own kind, and a request in flight belongs to one record.
TypeOK == TablesOK /\ RequestsOK /\ now \in Nat

Writing(r) == r.phase \in {"generator", "carrier", "manifest", "commit"}
                /\ r.op \in {"update", "transition"}

\* What a transition writes besides status and version is what the row holds.
SameData(r) == r.current.links = table[r.code].links /\ r.current.expiry = table[r.code].expiry

\* What the handler of request r read is what the row holds.
Fresh(r) ==
    Writing(r) =>
        /\ table[r.code].life # "absent"
        /\ r.expected <= table[r.code].version
        /\ r.expected = table[r.code].version =>
             /\ r.before = table[r.code].status
             /\ r.op = "transition" => SameData(r)

\* The optimistic lock of updateRecord compares the version the CLIENT sent,
\* not the one the handler read.  It still protects the row: as long as that
\* version is the row's, what the handler read is what the row holds, so the
\* write overwrites nothing it has not seen.
ReadIsFresh == \A q \in Requests : Fresh(req[q])

\* The row an update or a transition answers with (the Get after the commit)
\* is the one it wrote or a later one, never an older one: until another
\* write or a deletion follows, the client is shown exactly its own write.
AnswerShowsTheWrite ==
    \A q \in Requests :
        At(q, "reply") =>
            LET r == req[q] IN
            /\ table[r.code].version >= r.expected + 1
            /\ table[r.code].version = r.expected + 1
                 => table[r.code] = [r.current EXCEPT !.life = table[r.code].life]

\* The status of record c after the first i entries of its log h.
StatusAfter(c, h, i) == IF i = 0 THEN SeedTable[c].status ELSE h[i].after

Legal(c, e) ==
    /\ e.action = "create"     => e.before = "" /\ e.after = InitialStatus(c)
    /\ e.action = "update"     => e.before = e.after /\ Open(c, e.before)
    /\ e.action = "transition" => CanTransition(Graph(c), e.before, e.after)
    /\ e.action = "delete"     => Open(c, e.before) /\ e.after = "deleted"

\* Every entry of log h is one the rules of c allow, and names as its before
\* state the status the entries before it lead to.  The before state of a
\* deletion is left out: it names the status that was read, which need not be
\* the row's any more (see RemovalsHoldUnlessOvertaken in Overtaking).
Replays(c, h) ==
    \A i \in DOMAIN h :
        /\ Legal(c, h[i])
        /\ h[i].action # "delete" => h[i].before = StatusAfter(c, h, i - 1)

\* Replaying the audit log of a record from its seeded row gives a walk along
\* its status graph that ends in the status of the row (in "deleted" when the
\* row is soft deleted); no entry is missing and none is out of place.
AuditTrailReplays ==
    \A c \in Records :
        /\ Replays(c, history[c])
        /\ StatusAfter(c, history[c], Len(history[c]))
              = IF table[c].life = "deleted" THEN "deleted" ELSE table[c].status

\* Each write bumped the version by one and left one audit entry: the version
\* of a row is the number of entries of its log, not counting a deletion, over
\* the version it was seeded with.
VersionCountsTheTrail ==
    \A c \in Records :
        SeedTable[c].version + Len(history[c])
            = table[c].version + (IF table[c].life = "deleted" THEN 1 ELSE 0)

\* A manifest names a generator and a carrier, and a check a manifest, that
\* were in the database once (deletions are soft): no link points at nothing.
LinksWereRecords ==
    \A c \in Manifests \cup Checks :
        table[c].life # "absent" =>
            \A i \in DOMAIN table[c].links : table[table[c].links[i]].life # "absent"

\* A step changes the status of an existing row only along its status graph.
\* README.md: the manifest goes draft -> submitted -> in_transit -> received or
\* rejected, and the decision of a check cannot be taken back.
StatusMovesAlongGraph ==
    [][\A c \in Records :
          table[c].life # "absent" /\ table'[c].status # table[c].status
            => CanTransition(Graph(c), table[c].status, table'[c].status)]_vars

\* Once a manifest has been submitted its parties are fixed, and once a check
\* has been decided it stays with its manifest; a deleted row is never touched.
DecidedDataIsFixed ==
    [][\A c \in Records :
          /\ table[c].life = "deleted" => table'[c] = table[c]
          /\ table[c].life = "live" /\ ~Open(c, table[c].status)
               => table'[c].links = table[c].links]_vars

-------------------------------------------------------------------------------
(* What the rules of the services promise of every state.  The handlers    *)
(* read before they write, so overlapping requests break each of these;    *)
(* Overtaking says what is left of them.                                   *)

\* Submitted manifests are not deleted (README; TransferManifestService.Delete).
SubmittedManifestsRetained ==
    \A m \in Manifests : table[m].life = "deleted" => table[m].status = "draft"

\* What validateLinkedParties asks of the parties of a manifest that moves, and
\* ComplianceCheckService.Transition of the manifest of a check that passes.
GeneratorInOrder(r) ==
    LET g == r.current.links[1]
    IN Exists(g) /\ table[g].status = "active" /\ table[g].expiry > r.started

CarrierInOrder(r) ==
    LET k == r.current.links[2]
    IN Exists(k) /\ table[k].status = "verified" /\ table[k].expiry > r.started

ManifestUnderWay(r) ==
    LET m == r.current.links[1]
    IN Exists(m) /\ table[m].status \in {"submitted", "in_transit", "received"}

\* Request q is about to commit a move of its record to one of the given statuses.
Moves(q, statuses) ==
    At(q, "commit") /\ req[q].op = "transition" /\ req[q].current.status \in statuses

Writes(q) == table'[req[q].code] # table[req[q].code]

\* When a manifest is submitted or dispatched, its generator is active and its
\* carrier verified, and neither permit had expired when the request came in
\* (validateLinkedParties).
PartiesValidAtDispatch ==
    [][\A q \in Requests :
          Moves(q, {"submitted", "in_transit"}) /\ Writes(q)
            => GeneratorInOrder(req[q]) /\ CarrierInOrder(req[q])]_vars

\* When a check passes, its manifest is submitted, in transit or received
\* (ComplianceCheckService.Transition).
OnlyActiveManifestPasses ==
    [][\A q \in Requests :
          Moves(q, {"pass"}) /\ Writes(q) => ManifestUnderWay(req[q])]_vars

\* A check that has passed is about a manifest that has left draft, for good: one
\* looked up before the decision may since have been rejected, or deleted by a
\* request that still read a draft, but nothing takes it back to draft or makes
\* it a manifest that was never entered.
PassedChecksWereSubmitted ==
    \A k \in Checks : table[k].status = "pass" =>
        LET m == table[k].links[1]
        IN table[m].life # "absent" /\ table[m].status # "draft"

-------------------------------------------------------------------------------
(* Compliance implements RecordLifecycle: a commit that writes is one step *)
(* of the record, everything else is a stutter.                            *)

Seen(row) == [life |-> row.life, status |-> row.status, version |-> row.version]

Lifecycle == INSTANCE RecordLifecycle
    WITH record <- [c \in Records |-> Seen(table[c])],
         trail  <- history,
         Seed   <- [c \in Records |-> Seen(SeedTable[c])]

\* Overlapping requests keep all of it but the timing of removals.
ImplementsOverlappingPromise == Lifecycle!OverlappingPromise

-------------------------------------------------------------------------------
(* Compliance is the server that the page of Workbench works against.      *)

\* The rows of Compliance, seen from a page that makes no calls.
Page == INSTANCE Workbench
    WITH Calls   <- {},
         Seed    <- [c \in Records |-> Seen(SeedTable[c])],
         rows    <- [c \in Records |-> Seen(table[c])],
         call    <- <<>>,
         items   <- {},
         loading <- FALSE,
         pending <- [open |-> FALSE],
         showCreate <- FALSE

\* Whatever the requests do to the rows is what Workbench lets other people do to
\* them: all that is shown of the page rests on this (a row that changes gets a
\* higher version, whose content then stays; one that is deleted stays deleted).
FeedsThePage == Page!ServersTable
===============================================================================
