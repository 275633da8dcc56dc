---------------------------- MODULE OvertakingProofs ----------------------------
(***************************************************************************)
(* What the checks of the handlers are worth, proved for any number of     *)
(* overlapping requests.  They are made before the transaction that relies *)
(* on them; what has to be shown is that whatever changes in between is    *)
(* something the request was overtaken on.                                 *)
(***************************************************************************)
EXTENDS ComplianceProofs, Overtaking

-------------------------------------------------------------------------------
(* The invariant: what request r has found out is still so, except about   *)
(* the records o that it was overtaken on.                                 *)

DeletesWhatItRead(r, o) ==
    r.phase = "commit" /\ r.op = "delete"
        => \/ Exists(r.code) /\ r.before = table[r.code].status
           \/ r.code \in o

MovesParties(r) ==
    /\ r.op = "transition" /\ r.code \in Manifests
    /\ r.current.status \in {"submitted", "in_transit"}

PartiesLookedUp(r, o) ==
    MovesParties(r) =>
        /\ r.phase # "manifest"
        /\ r.phase \in {"carrier", "commit"} => GeneratorInOrder(r) \/ r.current.links[1] \in o
        /\ r.phase = "commit" => CarrierInOrder(r) \/ r.current.links[2] \in o

Decides(r) == r.op = "transition" /\ r.code \in Checks

Passes(r) == Decides(r) /\ r.current.status = "pass"

LinkServes(r) == Exists(r.current.links[1]) /\ (Passes(r) => ManifestUnderWay(r))

ManifestLookedUp(r, o) ==
    Decides(r) => /\ r.phase \notin {"generator", "carrier"}
                  /\ r.phase = "commit" => LinkServes(r) \/ r.current.links[1] \in o

StillSo(r, o) ==
    r.phase # "idle" => /\ r.started \in Nat /\ r.started <= now
                        /\ DeletesWhatItRead(r, o)
                        /\ PartiesLookedUp(r, o)
                        /\ ManifestLookedUp(r, o)

AllStillSo == \A q \in Requests : StillSo(req[q], overtaken[q])

-------------------------------------------------------------------------------
(* A request that starts has found out nothing yet, but for the status the *)
(* entry of a deletion will name.                                          *)

StartsAware(q) ==
    \E r : /\ req' = [req EXCEPT ![q] = r] /\ UNCHANGED <<table, now>>
           /\ \A o : StillSo(r, o)
           /\ Decides(r) => r.phase = "manifest"

LEMMA AcceptStarts ==
    ASSUME TypeOK, NEW q \in Requests, NEW op, NEW c, NEW expected, NEW before, NEW current,
           NEW phase, Accept(q, op, c, expected, before, current, phase),
           op = "delete" => Exists(c) /\ before = table[c].status,
           op = "transition" /\ c \in Manifests /\ current.status \in {"submitted", "in_transit"}
               => phase = "generator",
           op = "transition" /\ c \in Checks => phase = "manifest"
    PROVE  StartsAware(q)
<1> DEFINE r == [phase |-> phase, op |-> op, code |-> c, expected |-> expected,
                 before |-> before, current |-> current, started |-> now]
<1>1. /\ r.phase = phase /\ r.op = op /\ r.code = c /\ r.before = before
      /\ r.current = current /\ r.started = now
  OBVIOUS
<1>2. req' = [req EXCEPT ![q] = r] /\ UNCHANGED <<table, now>>
  BY DEF Accept
<1>3. now \in Nat
  BY DEF TypeOK
<1> HIDE DEF r
<1>4. \A o : DeletesWhatItRead(r, o)
  BY <1>1 DEF DeletesWhatItRead
<1>5. \A o : PartiesLookedUp(r, o)
  BY <1>1 DEF PartiesLookedUp, MovesParties
<1>6. Decides(r) => r.phase = "manifest"
  BY <1>1 DEF Decides
<1>7. \A o : ManifestLookedUp(r, o)
  BY <1>6 DEF ManifestLookedUp
<1>8. \A o : StillSo(r, o)
  BY <1>1, <1>3, <1>4, <1>5, <1>7 DEF StillSo
<1>9. QED
  BY <1>2, <1>6, <1>8 DEF StartsAware

LEMMA MoveTarget ==
    ASSUME TypeOK, NEW c \in Records, Exists(c), NEW target, NEW v
    PROVE  [table[c] EXCEPT !.status = target, !.version = v + 1].status = target
<1>1. table[c] \in Rows(c, "live")
  BY LiveRow
<1>2. QED
  BY <1>1 DEF Rows

LEMMA KindsOfRecords ==
    /\ \A c \in Permits : c \notin Manifests /\ c \notin Checks
    /\ \A c \in Manifests : c \notin Checks
    /\ \A c \in Checks : c \notin Manifests
BY KindsAreDisjoint DEF Permits

LEMMA ReceiveStartsAware ==
    ASSUME TypeOK, NEW q \in Requests, Receive(q)
    PROVE  StartsAware(q)
<1>1. CASE GeneratorCreate(q) \/ CarrierCreate(q) \/ ManifestCreate(q) \/ CheckCreate(q)
  BY <1>1, AcceptStarts
     DEF GeneratorCreate, CarrierCreate, ManifestCreate, CheckCreate, AcceptCreate
<1>2. CASE GeneratorUpdate(q) \/ CarrierUpdate(q) \/ ManifestUpdate(q) \/ CheckUpdate(q)
  BY <1>2, AcceptStarts
     DEF GeneratorUpdate, CarrierUpdate, ManifestUpdate, CheckUpdate, AcceptUpdate
<1>3. CASE GeneratorDelete(q) \/ CarrierDelete(q) \/ ManifestDelete(q) \/ CheckDelete(q)
  BY <1>3, AcceptStarts
     DEF GeneratorDelete, CarrierDelete, ManifestDelete, CheckDelete, AcceptDelete
<1>4. CASE GeneratorTransition(q) \/ CarrierTransition(q)
  <2>1. PICK c \in Permits : \E v, target : AcceptTransition(q, c, v, target, "commit")
    BY <1>4 DEF GeneratorTransition, CarrierTransition, Permits
  <2>2. PICK v, target : AcceptTransition(q, c, v, target, "commit")
    BY <2>1
  <2>3. QED
    BY <2>2, KindsOfRecords, AcceptStarts DEF AcceptTransition
<1>5. CASE ManifestTransition(q)
  <2>1. PICK c \in Manifests : \E v, target :
          /\ Exists(c)
          /\ AcceptTransition(q, c, v, target,
               IF target \in {"submitted", "in_transit"} THEN "generator" ELSE "commit")
    BY <1>5 DEF ManifestTransition
  <2>2. PICK v, target :
          AcceptTransition(q, c, v, target,
               IF target \in {"submitted", "in_transit"} THEN "generator" ELSE "commit")
    BY <2>1
  <2>3. [table[c] EXCEPT !.status = target, !.version = v + 1].status = target
    BY <2>1, ManifestRules, MoveTarget
  <2>4. c \notin Checks
    BY KindsOfRecords
  <2>5. QED
    BY <2>2, <2>3, <2>4, AcceptStarts DEF AcceptTransition
<1>6. CASE CheckTransition(q)
  <2>1. PICK c \in Checks : \E v, target : AcceptTransition(q, c, v, target, "manifest")
    BY <1>6 DEF CheckTransition
  <2>2. PICK v, target : AcceptTransition(q, c, v, target, "manifest")
    BY <2>1
  <2>3. QED
    BY <2>2, KindsOfRecords, AcceptStarts DEF AcceptTransition
<1>7. QED
  BY <1>1, <1>2, <1>3, <1>4, <1>5, <1>6 DEF Receive

-------------------------------------------------------------------------------
(* A request that does not move.                                           *)

\* The links of a move are links of its record's kind.
LEMMA LinksOfMove ==
    ASSUME TypeOK, NEW q \in Requests, ~At(q, "idle"), req[q].op = "transition"
    PROVE  /\ MovesParties(req[q]) =>
                /\ req[q].current.links \in Generators \X Carriers
                /\ {req[q].current.links[1], req[q].current.links[2]}
                       \subseteq Range(req[q].current.links)
           /\ Decides(req[q]) =>
                /\ req[q].current.links[1] \in Manifests
                /\ req[q].current.links[1] \in Range(req[q].current.links)
<1>1. /\ req[q].code \in Records
      /\ req[q].current.links \in Links(req[q].code)
  BY InFlightRequest DEF TypeOK, InFlight, Changing, Deleting, Rows
<1>2. ASSUME MovesParties(req[q])
      PROVE  /\ req[q].current.links \in Generators \X Carriers
             /\ {req[q].current.links[1], req[q].current.links[2]}
                    \subseteq Range(req[q].current.links)
  <2>1. req[q].current.links \in Generators \X Carriers
    BY <1>1, <1>2, ManifestRules DEF MovesParties
  <2>2. {1, 2} \subseteq DOMAIN req[q].current.links
    BY <2>1
  <2>3. QED
    BY <2>1, <2>2 DEF Range
<1>3. ASSUME Decides(req[q])
      PROVE  /\ req[q].current.links[1] \in Manifests
             /\ req[q].current.links[1] \in Range(req[q].current.links)
  <2>1. PICK m \in Manifests : req[q].current.links = <<m>>
    BY <1>1, <1>3, CheckRules DEF Decides
  <2>2. req[q].current.links[1] = m /\ 1 \in DOMAIN req[q].current.links
    BY <2>1
  <2>3. QED
    BY <2>2 DEF Range
<1>4. QED
  BY <1>2, <1>3

\* What a waiting request has looked at is as it was, or it was overtaken on it.
LEMMA LookedAtStays ==
    ASSUME NEW q \in Requests, Overtake, req[q].phase \in Deciding, req'[q].phase \in Deciding
    PROVE  /\ overtaken[q] \subseteq overtaken'[q]
           /\ \A c \in LookedAt(req[q]) : table'[c] = table[c] \/ c \in overtaken'[q]
BY DEF Overtake

LEMMA UnmovedIsSo ==
    ASSUME Inv, AllStillSo, Overtake, now' \in Nat, now' >= now,
           NEW p \in Requests, req'[p] = req[p]
    PROVE  StillSo(req[p], overtaken[p])'
<1> SUFFICES ASSUME req[p].phase # "idle"
             PROVE  StillSo(req[p], overtaken[p])'
  BY DEF StillSo
<1>1. /\ StillSo(req[p], overtaken[p]) /\ now \in Nat /\ ~At(p, "idle")
  BY DEF AllStillSo, Inv, TypeOK, At
<1>2. req'[p].started \in Nat /\ req'[p].started <= now'
  BY <1>1 DEF StillSo
<1>3. CASE req[p].phase \notin Deciding
  <2>1. /\ DeletesWhatItRead(req[p], overtaken[p])'
        /\ PartiesLookedUp(req[p], overtaken[p])'
        /\ ManifestLookedUp(req[p], overtaken[p])'
    BY <1>3 DEF Deciding, DeletesWhatItRead, PartiesLookedUp, ManifestLookedUp
  <2>2. QED
    BY <1>2, <2>1 DEF StillSo
<1>4. CASE req[p].phase \in Deciding
  <2>1. /\ overtaken[p] \subseteq overtaken'[p]
        /\ \A c \in LookedAt(req[p]) : table'[c] = table[c] \/ c \in overtaken'[p]
    BY <1>4, LookedAtStays
  <2>2. DeletesWhatItRead(req[p], overtaken[p])'
    <3>1. req[p].code \in LookedAt(req[p])
      BY DEF LookedAt
    <3>2. QED
      BY <1>1, <2>1, <3>1 DEF StillSo, DeletesWhatItRead, Exists
  <2>3. PartiesLookedUp(req[p], overtaken[p])'
    <3>1. SUFFICES ASSUME MovesParties(req[p])
                   PROVE  PartiesLookedUp(req[p], overtaken[p])'
      BY DEF PartiesLookedUp, MovesParties
    <3>2. PartiesLookedUp(req[p], overtaken[p])
      BY <1>1 DEF StillSo
    <3>3. {req[p].current.links[1], req[p].current.links[2]} \subseteq Range(req[p].current.links)
      BY <1>1, <3>1, LinksOfMove DEF MovesParties, Inv
    <3>4. req[p].phase \in {"carrier", "commit"} => req[p].current.links[1] \in LookedAt(req[p])
      BY <3>3 DEF LookedAt
    <3>5. req[p].phase = "commit" => req[p].current.links[2] \in LookedAt(req[p])
      BY <3>3 DEF LookedAt
    <3>6. req[p].phase \in {"carrier", "commit"} =>
              GeneratorInOrder(req[p])' \/ req[p].current.links[1] \in overtaken'[p]
      BY <2>1, <3>1, <3>2, <3>4 DEF PartiesLookedUp, GeneratorInOrder, Exists
    <3>7. req[p].phase = "commit" =>
              CarrierInOrder(req[p])' \/ req[p].current.links[2] \in overtaken'[p]
      BY <2>1, <3>1, <3>2, <3>5 DEF PartiesLookedUp, CarrierInOrder, Exists
    <3>8. QED
      BY <3>1, <3>2, <3>6, <3>7 DEF PartiesLookedUp
  <2>4. ManifestLookedUp(req[p], overtaken[p])'
    <3>1. SUFFICES ASSUME Decides(req[p])
                   PROVE  ManifestLookedUp(req[p], overtaken[p])'
      BY DEF ManifestLookedUp, Decides
    <3>2. ManifestLookedUp(req[p], overtaken[p])
      BY <1>1 DEF StillSo
    <3>3. req[p].current.links[1] \in Range(req[p].current.links)
      BY <1>1, <3>1, LinksOfMove DEF Decides, Inv
    <3>4. req[p].phase = "commit" => req[p].current.links[1] \in LookedAt(req[p])
      BY <3>3 DEF LookedAt
    <3>5. req[p].phase = "commit" =>
              LinkServes(req[p])' \/ req[p].current.links[1] \in overtaken'[p]
      BY <2>1, <3>1, <3>2, <3>4
         DEF ManifestLookedUp, LinkServes, Passes, Decides, ManifestUnderWay, Exists
    <3>6. QED
      BY <3>1, <3>2, <3>5 DEF ManifestLookedUp
  <2>5. QED
    BY <1>2, <2>2, <2>3, <2>4 DEF StillSo
<1>5. QED
  BY <1>3, <1>4

-------------------------------------------------------------------------------
(* The request that moves.                                                 *)

\* A request that comes to another phase has kept everything else.
LEMMA Advanced ==
    ASSUME Inv, NEW q \in Requests, ~At(q, "idle"), NEW phase \in Phases, Advance(q, phase)
    PROVE  /\ req'[q].phase = phase
           /\ req'[q].op = req[q].op /\ req'[q].code = req[q].code
           /\ req'[q].before = req[q].before /\ req'[q].current = req[q].current
           /\ req'[q].started = req[q].started
<1>1. req'[q] = [req[q] EXCEPT !.phase = phase]
  BY DEF Inv, TypeOK, RequestsOK, Advance
<1>2. req[q] \in InFlight(req[q].code)
  BY InFlightRequest DEF Inv, TypeOK
<1>3. CASE req[q] \in Changing(req[q].code)
  BY <1>1, <1>3 DEF Changing
<1>4. CASE req[q] \in Deleting(req[q].code)
  BY <1>1, <1>4 DEF Deleting
<1>5. QED
  BY <1>2, <1>3, <1>4 DEF InFlight

LEMMA FinishedIsSo ==
    ASSUME Inv, NEW q \in Requests, Finish(q)
    PROVE  StillSo(req[q], overtaken[q])'
<1>1. req'[q].phase = "idle"
  BY DEF Inv, TypeOK, RequestsOK, Finish, Idle
<1>2. QED
  BY <1>1 DEF StillSo

\* The records a manifest links have a time they expire at.
LEMMA LinkTyped ==
    ASSUME TypeOK, NEW q \in Requests, ~At(q, "idle"), req[q].code \in Manifests,
           req[q].op = "transition", NEW i \in {1, 2}, Exists(req[q].current.links[i])
    PROVE  table[req[q].current.links[i]].expiry \in Nat
<1>1. req[q] \in InFlight(req[q].code)
  BY InFlightRequest DEF TypeOK
<1>2. req[q].current.links \in Generators \X Carriers
  BY <1>1, ManifestRules DEF InFlight, Changing, Deleting, Rows
<1>3. req[q].current.links[i] \in Records
  BY <1>2, GeneratorRules, CarrierRules
<1>4. QED
  BY <1>3, LiveRow DEF Rows

\* What the lookups found is so when they find it, and nothing else is forgotten.
LEMMA FindIsSo ==
    ASSUME Inv, AllStillSo, Overtake, NEW q \in Requests, Find(q)
    PROVE  StillSo(req[q], overtaken[q])'
<1>1. UNCHANGED <<table, now>>
  BY DEF Find, FindGenerator, FindCarrier, FindManifest
<1>2. CASE Finish(q)
  BY <1>2, FinishedIsSo
<1>3. SUFFICES ASSUME ~Finish(q)
               PROVE  StillSo(req[q], overtaken[q])'
  BY <1>2
<1>4. StillSo(req[q], overtaken[q])
  BY DEF AllStillSo
<1>5. now \in Nat
  BY DEF Inv, TypeOK
<1>6. CASE FindGenerator(q)
  <2>1. /\ At(q, "generator") /\ Advance(q, "carrier")
        /\ GeneratorServes(req[q], req[q].current.links[1])
    BY <1>3, <1>6 DEF FindGenerator
  <2>2. /\ req'[q].phase = "carrier"
        /\ req'[q].op = req[q].op /\ req'[q].code = req[q].code
        /\ req'[q].current = req[q].current /\ req'[q].started = req[q].started
    BY <2>1, Advanced DEF Phases, At
  <2>3. ~Decides(req[q])
    BY <1>4, <2>1 DEF StillSo, ManifestLookedUp, At
  <2>4. MovesParties(req[q]) => GeneratorInOrder(req[q])
    <3>1. SUFFICES ASSUME MovesParties(req[q])
                   PROVE  GeneratorInOrder(req[q])
      OBVIOUS
    <3>2. Exists(req[q].current.links[1])
      BY <2>1 DEF GeneratorServes
    <3>3. /\ table[req[q].current.links[1]].status = "active"
          /\ table[req[q].current.links[1]].expiry > now
      BY <2>1, <3>1 DEF GeneratorServes, MovesParties
    <3>4. table[req[q].current.links[1]].expiry \in Nat
      BY <2>1, <3>1, <3>2, LinkTyped DEF MovesParties, At, Inv
    <3>5. req[q].started \in Nat /\ req[q].started <= now
      BY <1>4, <2>1 DEF StillSo, At
    <3>6. table[req[q].current.links[1]].expiry > req[q].started
      BY <1>5, <3>3, <3>4, <3>5
    <3>7. QED
      BY <3>2, <3>3, <3>6 DEF GeneratorInOrder
  <2>5. DeletesWhatItRead(req[q], overtaken[q])' /\ ManifestLookedUp(req[q], overtaken[q])'
    BY <2>2, <2>3 DEF DeletesWhatItRead, ManifestLookedUp, Decides
  <2>6. PartiesLookedUp(req[q], overtaken[q])'
    BY <1>1, <2>2, <2>4 DEF PartiesLookedUp, MovesParties, GeneratorInOrder, Exists
  <2>7. QED
    BY <1>1, <1>4, <2>1, <2>2, <2>5, <2>6 DEF StillSo, At
<1>7. CASE FindCarrier(q)
  <2>1. /\ At(q, "carrier") /\ Advance(q, "commit")
        /\ CarrierServes(req[q], req[q].current.links[2])
    BY <1>3, <1>7 DEF FindCarrier
  <2>2. /\ req'[q].phase = "commit"
        /\ req'[q].op = req[q].op /\ req'[q].code = req[q].code
        /\ req'[q].current = req[q].current /\ req'[q].started = req[q].started
        /\ req[q].op # "delete"
    <3>1. req[q].op # "delete"
      BY <2>1, InFlightRequest DEF Inv, TypeOK, At, InFlight, Changing, Deleting
    <3>2. QED
      BY <2>1, <3>1, Advanced DEF Phases, At
  <2>3. ~Decides(req[q])
    BY <1>4, <2>1 DEF StillSo, ManifestLookedUp, At
  <2>4. MovesParties(req[q]) =>
          /\ GeneratorInOrder(req[q]) \/ req[q].current.links[1] \in overtaken[q]
          /\ CarrierInOrder(req[q])
    <3>1. SUFFICES ASSUME MovesParties(req[q])
                   PROVE  /\ GeneratorInOrder(req[q]) \/ req[q].current.links[1] \in overtaken[q]
                          /\ CarrierInOrder(req[q])
      OBVIOUS
    <3>2. Exists(req[q].current.links[2])
      BY <2>1 DEF CarrierServes
    <3>3. /\ table[req[q].current.links[2]].status = "verified"
          /\ table[req[q].current.links[2]].expiry > now
      BY <2>1, <3>1 DEF CarrierServes, MovesParties
    <3>4. table[req[q].current.links[2]].expiry \in Nat
      BY <2>1, <3>1, <3>2, LinkTyped DEF MovesParties, At, Inv
    <3>5. req[q].started \in Nat /\ req[q].started <= now
      BY <1>4, <2>1 DEF StillSo, At
    <3>6. table[req[q].current.links[2]].expiry > req[q].started
      BY <1>5, <3>3, <3>4, <3>5
    <3>7. CarrierInOrder(req[q])
      BY <3>2, <3>3, <3>6 DEF CarrierInOrder
    <3>8. GeneratorInOrder(req[q]) \/ req[q].current.links[1] \in overtaken[q]
      BY <1>4, <2>1, <3>1 DEF StillSo, PartiesLookedUp, At
    <3>9. QED
      BY <3>7, <3>8
  <2>5. DeletesWhatItRead(req[q], overtaken[q])' /\ ManifestLookedUp(req[q], overtaken[q])'
    BY <2>2, <2>3 DEF DeletesWhatItRead, ManifestLookedUp, Decides
  <2>6. overtaken[q] \subseteq overtaken'[q]
    BY <2>1, <2>2, LookedAtStays DEF Deciding, At
  <2>7. PartiesLookedUp(req[q], overtaken[q])'
    BY <1>1, <2>2, <2>4, <2>6
       DEF PartiesLookedUp, MovesParties, GeneratorInOrder, CarrierInOrder, Exists
  <2>8. QED
    BY <1>1, <1>4, <2>1, <2>2, <2>5, <2>7 DEF StillSo, At
<1>8. CASE FindManifest(q)
  <2>1. /\ At(q, "manifest") /\ Advance(q, "commit")
        /\ ManifestServes(req[q], req[q].current.links[1])
    BY <1>3, <1>8 DEF FindManifest
  <2>2. /\ req'[q].phase = "commit"
        /\ req'[q].op = req[q].op /\ req'[q].code = req[q].code
        /\ req'[q].current = req[q].current /\ req'[q].started = req[q].started
        /\ req[q].op # "delete"
    <3>1. req[q].op # "delete"
      BY <2>1, InFlightRequest DEF Inv, TypeOK, At, InFlight, Changing, Deleting
    <3>2. QED
      BY <2>1, <3>1, Advanced DEF Phases, At
  <2>3. ~MovesParties(req[q])
    BY <1>4, <2>1 DEF StillSo, PartiesLookedUp, At
  <2>4. LinkServes(req[q])
    BY <2>1 DEF ManifestServes, LinkServes, Passes, Decides, ManifestUnderWay
  <2>5. DeletesWhatItRead(req[q], overtaken[q])' /\ PartiesLookedUp(req[q], overtaken[q])'
    BY <2>2, <2>3 DEF DeletesWhatItRead, PartiesLookedUp, MovesParties
  <2>6. ManifestLookedUp(req[q], overtaken[q])'
    BY <1>1, <2>2, <2>4 DEF ManifestLookedUp, LinkServes, Decides, Passes, ManifestUnderWay, Exists
  <2>7. QED
    BY <1>1, <1>4, <2>1, <2>2, <2>5, <2>6 DEF StillSo, At
<1>9. QED
  BY <1>6, <1>7, <1>8 DEF Find

LEMMA CommitIsSo ==
    ASSUME Inv, AllStillSo, NEW q \in Requests, Commit(q)
    PROVE  StillSo(req[q], overtaken[q])'
<1>1. CASE Finish(q)
  BY <1>1, FinishedIsSo
<1>2. CASE Advance(q, "reply")
  <2>1. UNCHANGED now /\ ~At(q, "idle")
    BY DEF Commit, CommitCreate, CommitUpdate, CommitDelete, At
  <2>2. /\ req'[q].phase = "reply" /\ req'[q].started = req[q].started
    BY <1>2, <2>1, Advanced DEF Phases
  <2>3. req'[q].phase \notin {"commit", "manifest", "carrier", "generator", "idle"}
    BY <2>2
  <2>4. /\ DeletesWhatItRead(req[q], overtaken[q])'
        /\ PartiesLookedUp(req[q], overtaken[q])'
        /\ ManifestLookedUp(req[q], overtaken[q])'
    BY <2>3 DEF DeletesWhatItRead, PartiesLookedUp, ManifestLookedUp
  <2>5. req[q].started \in Nat /\ req[q].started <= now
    BY <2>1 DEF AllStillSo, StillSo, At
  <2>6. QED
    BY <2>1, <2>2, <2>4, <2>5 DEF StillSo
<1>3. QED
  BY <1>1, <1>2 DEF Commit, CommitCreate, CommitUpdate, CommitDelete

LEMMA ReceivedIsSo ==
    ASSUME Inv, NEW q \in Requests, Receive(q)
    PROVE  StillSo(req[q], overtaken[q])'
<1>1. PICK r : /\ req' = [req EXCEPT ![q] = r] /\ UNCHANGED <<table, now>>
              /\ \A o : StillSo(r, o)
  BY ReceiveStartsAware DEF StartsAware, Inv
<1>2. req'[q] = r /\ StillSo(r, overtaken'[q])
  BY <1>1 DEF Inv, TypeOK, RequestsOK
<1>3. QED
  BY <1>1, <1>2
     DEF StillSo, DeletesWhatItRead, PartiesLookedUp, ManifestLookedUp, MovesParties, Decides,
         Passes, LinkServes, GeneratorInOrder, CarrierInOrder, ManifestUnderWay, Exists

-------------------------------------------------------------------------------
(* Every step keeps the invariant.                                         *)

LEMMA SoInit == OvertakingInit => AllStillSo
BY DEF OvertakingInit, Init, AllStillSo, StillSo, Idle

\* A step of one request leaves the others where they are.
LEMMA OthersUnmoved ==
    ASSUME Inv, NEW q \in Requests, Receive(q) \/ Handle(q) \/ Abandon(q),
           NEW p \in Requests, p # q
    PROVE  req'[p] = req[p]
<1>1. CASE Receive(q)
  BY <1>1, ReceiveStarts DEF Starts, Inv, TypeOK, RequestsOK
<1>2. CASE Find(q) \/ Answer(q) \/ Abandon(q)
  BY <1>2, OtherRequestUnmoved
     DEF Find, FindGenerator, FindCarrier, FindManifest, Answer, Abandon, Phases
<1>3. CASE Commit(q)
  BY <1>3, TransactionMoves
<1>4. QED
  BY <1>1, <1>2, <1>3 DEF Handle

\* Requests take no time: the clock is moved by Tick alone.
LEMMA ClockStands ==
    ASSUME Inv, NEW q \in Requests, Receive(q) \/ Handle(q) \/ Abandon(q)
    PROVE  UNCHANGED now
<1>1. CASE Receive(q)
  BY <1>1, ReceiveStarts DEF Starts, Inv
<1>2. QED
  BY <1>1 DEF Handle, Find, FindGenerator, FindCarrier, FindManifest, Commit, CommitCreate,
              CommitUpdate, CommitDelete, Answer, Abandon

LEMMA SoNext ==
    Inv /\ AllStillSo /\ [OvertakingNext]_OvertakingVars => AllStillSo'
<1> SUFFICES ASSUME Inv, AllStillSo, [OvertakingNext]_OvertakingVars
             PROVE  AllStillSo'
  OBVIOUS
<1>1. now \in Nat
  BY DEF Inv, TypeOK
<1>2. ASSUME NEW q \in Requests, Receive(q) \/ Handle(q) \/ Abandon(q), Overtake
      PROVE  AllStillSo'
  <2>1. StillSo(req[q], overtaken[q])'
    BY <1>2, ReceivedIsSo, FindIsSo, CommitIsSo, FinishedIsSo DEF Handle, Answer, Abandon
  <2>2. ASSUME NEW p \in Requests, p # q
        PROVE  StillSo(req[p], overtaken[p])'
    BY <1>1, <1>2, <2>2, OthersUnmoved, ClockStands, UnmovedIsSo
  <2>3. QED
    BY <2>1, <2>2 DEF AllStillSo
<1>3. CASE Tick /\ Overtake
  <2>1. UNCHANGED req /\ now' \in Nat /\ now' >= now
    BY <1>1, <1>3 DEF Tick
  <2>2. QED
    BY <1>3, <2>1, UnmovedIsSo DEF AllStillSo
<1>4. CASE UNCHANGED OvertakingVars
  BY <1>4
     DEF OvertakingVars, AllStillSo, StillSo, DeletesWhatItRead, PartiesLookedUp,
         ManifestLookedUp, MovesParties, Decides, Passes, LinkServes, GeneratorInOrder,
         CarrierInOrder, ManifestUnderWay, Exists
<1>5. QED
  BY <1>2, <1>3, <1>4 DEF OvertakingNext, Next

\* The history variable takes no step of its own.
LEMMA OvertakingStepIsAStep == [OvertakingNext]_OvertakingVars => [Next]_vars
BY DEF OvertakingNext, OvertakingVars, vars

LEMMA OvertakingIsCompliance == OvertakingSpec => Spec
BY OvertakingStepIsAStep, PTL DEF OvertakingSpec, OvertakingInit, Spec

LEMMA SoInvariance == OvertakingSpec => [](Inv /\ AllStillSo)
BY OvertakingIsCompliance, Invariance, SoInit, SoNext, PTL DEF OvertakingSpec

-------------------------------------------------------------------------------
(* The rules at the commit, for clients that send any version.             *)

LEMMA MovingParties ==
    ASSUME Inv, NEW q \in Requests, Moves(q, {"submitted", "in_transit"})
    PROVE  MovesParties(req[q]) /\ req[q].phase = "commit"
<1>1. /\ At(q, "commit") /\ req[q].op = "transition"
      /\ req[q].current.status \in {"submitted", "in_transit"}
  BY DEF Moves
<1>2. req[q].code \in Records /\ req[q].current.status \in Statuses(req[q].code)
  BY <1>1, InFlightRequest DEF At, Inv, TypeOK, InFlight, Changing, Deleting, Rows
<1>3. req[q].code \in Manifests
  BY <1>1, <1>2, GeneratorRules, CarrierRules, CheckRules
     DEF Records, Permits, GeneratorStatuses, CarrierStatuses, CheckStatuses
<1>4. QED
  BY <1>1, <1>3 DEF MovesParties, At

\* Submission and dispatch meet a generator and a carrier in order, with a
\* permit and a licence that had not expired when the request came in, unless
\* the party was written after validateLinkedParties looked it up.
THEOREM DispatchesHold == OvertakingSpec => []DispatchHoldsUnlessOvertaken
<1>1. Inv /\ AllStillSo => DispatchHoldsUnlessOvertaken
  BY MovingParties
     DEF DispatchHoldsUnlessOvertaken, AllStillSo, StillSo, PartiesLookedUp
<1>2. QED
  BY <1>1, SoInvariance, PTL

LEMMA PassingCheck ==
    ASSUME Inv, NEW q \in Requests, Moves(q, {"pass"})
    PROVE  Passes(req[q]) /\ req[q].phase = "commit"
<1>1. /\ At(q, "commit") /\ req[q].op = "transition" /\ req[q].current.status = "pass"
  BY DEF Moves
<1>2. req[q].code \in Records /\ req[q].current.status \in Statuses(req[q].code)
  BY <1>1, InFlightRequest DEF At, Inv, TypeOK, InFlight, Changing, Deleting, Rows
<1>3. req[q].code \in Checks
  BY <1>1, <1>2, GeneratorRules, CarrierRules, ManifestRules
     DEF Records, Permits, GeneratorStatuses, CarrierStatuses, ManifestStatuses
<1>4. QED
  BY <1>1, <1>3 DEF Passes, Decides, At

\* A check passes on a manifest that is submitted, in transit or received, unless
\* the manifest was written after ComplianceCheckService.Transition looked it up.
THEOREM PassesHold == OvertakingSpec => []PassHoldsUnlessOvertaken
<1>1. Inv /\ AllStillSo => PassHoldsUnlessOvertaken
  BY PassingCheck
     DEF PassHoldsUnlessOvertaken, AllStillSo, StillSo, ManifestLookedUp, LinkServes, Passes
<1>2. QED
  BY <1>1, SoInvariance, PTL

\* What a deletion is about to delete.
LEMMA RemovalReads ==
    ASSUME Inv, AllStillSo, NEW q \in Requests, At(q, "commit"), req[q].op = "delete"
    PROVE  LET c == req[q].code
           IN /\ c \in Records /\ Open(c, req[q].before) /\ req[q].before \in Statuses(c)
              /\ \/ Exists(c) /\ req[q].before = table[c].status
                 \/ c \in overtaken[q]
<1>1. ~At(q, "idle")
  BY DEF At
<1>2. req[q].code \in Records /\ req[q] \in InFlight(req[q].code) /\ RequestIsLegal(req[q])
  BY <1>1, InFlightRequest DEF Inv, TypeOK, RequestsAreLegal
<1>3. Open(req[q].code, req[q].before) /\ req[q].before \in Statuses(req[q].code)
  BY <1>2 DEF RequestIsLegal, InFlight, Changing, Deleting
<1>4. QED
  BY <1>2, <1>3 DEF AllStillSo, StillSo, DeletesWhatItRead, At

\* A deletion meets a live, open record whose status it names, unless the record
\* was written after the Delete of its service read it.
THEOREM RemovalsHold == OvertakingSpec => []RemovalsHoldUnlessOvertaken
<1>1. Inv /\ AllStillSo => RemovalsHoldUnlessOvertaken
  BY RemovalReads DEF RemovalsHoldUnlessOvertaken
<1>2. QED
  BY <1>1, SoInvariance, PTL

-------------------------------------------------------------------------------
(* Checks whose manifest is gone, for clients that send versions they were *)
(* shown.                                                                  *)

LEMMA OvertakingFresh ==
    ASSUME Foresight = 0 PROVE OvertakingSpec => [](Inv /\ ReadIsFresh /\ AllStillSo)
BY OvertakingIsCompliance, FreshInvariance, SoInvariance, PTL

\* A request that commits moves, and is overtaken on what its set o holds.
LEMMA CommitOvertaken ==
    ASSUME Inv, NEW q \in Requests, Commit(q), NEW c \in overtaken[q], NEW S, c \in S
    PROVE  OvertakenOn(q, req[q].code, S)
<1>1. At(q, "commit")
  BY DEF Commit, CommitCreate, CommitUpdate, CommitDelete
<1>2. req'[q] # req[q]
  BY <1>1, TransactionMoves DEF At
<1>3. QED
  BY <1>1, <1>2 DEF OvertakenOn

\* A step that touches a live check edits or deletes it while it is pending, or
\* moves it, and then its manifest is there; or it was overtaken.
LEMMA CheckStep ==
    ASSUME Inv, ReadIsFresh, AllStillSo, [Next]_vars, NEW k \in Checks, Exists(k),
           table'[k] # table[k]
    PROVE  \/ table'[k].status = table[k].status /\ Open(k, table[k].status)
           \/ Exists(table[k].links[1])
           \/ \E q \in Requests : OvertakenOn(q, k, {k, table[k].links[1]})
<1>1. k \in Records
  BY CheckRules
<1>2. PICK q \in Requests : Commit(q)
  BY OnlyCommitsWrite
<1>3. /\ At(q, "commit") /\ req[q].code \in Records /\ req[q] \in InFlight(req[q].code)
      /\ RequestIsLegal(req[q])
  BY <1>2, InFlightRequest
     DEF Commit, CommitCreate, CommitUpdate, CommitDelete, At, Inv, TypeOK, RequestsAreLegal
<1>4. CASE CommitDelete(q)
  <2>1. /\ Exists(req[q].code) /\ req[q].op = "delete"
        /\ Puts(req[q].code, [table[req[q].code] EXCEPT !.life = "deleted"])
    BY <1>4 DEF CommitDelete, Write, Puts
  <2>2. req[q].code = k
    BY <1>1, <1>3, <2>1, RowAfterPut
  <2>3. table'[k].status = table[k].status
    BY <1>1, <2>1, <2>2, RowAfterPut, LiveRow DEF Inv, Rows
  <2>4. CASE k \in overtaken[q]
    BY <1>2, <2>2, <2>4, CommitOvertaken
  <2>5. CASE k \notin overtaken[q]
    BY <1>3, <2>1, <2>2, <2>3, <2>5, RemovalReads
  <2>6. QED
    BY <2>4, <2>5
<1>5. CASE CommitCreate(q)
  <2>1. Puts(req[q].code, req[q].current) /\ ~Exists(req[q].code)
    BY <1>5 DEF CommitCreate, Write, Puts, Exists
  <2>2. QED
    BY <1>1, <1>3, <2>1, RowAfterPut
<1>6. CASE CommitUpdate(q)
  <2>1. /\ Puts(req[q].code, req[q].current) /\ VersionMatches(req[q])
        /\ req[q].op \in {"update", "transition"}
    BY <1>6 DEF CommitUpdate, Write, Puts
  <2>2. req[q].code = k /\ table'[k] = req[q].current
    BY <1>1, <1>3, <2>1, RowAfterPut
  <2>3. /\ req[q].before = table[k].status
        /\ req[q].op = "transition" => req[q].current.links = table[k].links
    BY <1>3, <2>1, <2>2 DEF ReadIsFresh, Fresh, Writing, SameData, VersionMatches, At
  <2>4. CASE req[q].op = "update"
    BY <1>3, <2>2, <2>3, <2>4 DEF RequestIsLegal
  <2>5. CASE req[q].op = "transition"
    <3>1. Decides(req[q]) /\ req[q].phase = "commit"
      BY <1>3, <2>2, <2>5 DEF Decides, At
    <3>2. Exists(req[q].current.links[1]) \/ req[q].current.links[1] \in overtaken[q]
      BY <3>1 DEF AllStillSo, StillSo, ManifestLookedUp, LinkServes
    <3>3. QED
      BY <1>2, <2>2, <2>3, <2>5, <3>2, CommitOvertaken
  <2>6. QED
    BY <2>1, <2>4, <2>5
<1>7. QED
  BY <1>2, <1>4, <1>5, <1>6 DEF Commit

\* A check whose manifest was deleted is not decided any more, and one that was
\* decided before stays as it is, never escalated, edited or deleted, except by a
\* request that was overtaken on the check or on its manifest.
THEOREM OrphansAreStuck ==
    ASSUME Foresight = 0 PROVE OvertakingSpec => OrphansAreStuckUnlessOvertaken
<1>1. Inv /\ ReadIsFresh /\ AllStillSo /\ [OvertakingNext]_OvertakingVars =>
        [\A k \in Checks :
            Exists(k) /\ ~Exists(table[k].links[1]) /\ table'[k] # table[k] =>
              \/ Open(k, table[k].status) /\ table'[k].status = table[k].status
              \/ \E q \in Requests : OvertakenOn(q, k, {k, table[k].links[1]})]_OvertakingVars
  BY OvertakingStepIsAStep, CheckStep
<1>2. QED
  BY <1>1, OvertakingFresh, PTL DEF OvertakingSpec, OrphansAreStuckUnlessOvertaken

-------------------------------------------------------------------------------
(* The promised life of a record.                                          *)

LEMMA StepKinds ==
    ASSUME Inv, ReadIsFresh, [Next]_vars, ~UNCHANGED <<table, history>>
    PROVE  \/ \E c \in Records : \E row \in Rows(c, "live") :
                Created(c, row) \/ Edited(c, row) \/ Moved(c, row)
           \/ \E q \in Requests : CommitDelete(q) /\ Exists(req[q].code)
<1>1. PICK q \in Requests : Commit(q)
  BY OnlyCommitsWrite
<1>2. CASE CommitDelete(q)
  BY <1>2 DEF CommitDelete
<1>3. CASE CommitCreate(q) \/ CommitUpdate(q)
  BY <1>3, CommitPuts
<1>4. QED
  BY <1>1, <1>2, <1>3 DEF Commit

\* A deletion is a promised removal, or it was overtaken.
LEMMA RemovalKeepsOrOvertaken ==
    ASSUME Inv, AllStillSo, NEW q \in Requests, CommitDelete(q), Exists(req[q].code)
    PROVE  LET c == req[q].code
           IN c \in Records /\ (Lifecycle!Act(c) \/ OvertakenRemoval(c))
<1> DEFINE c == req[q].code
           before == req[q].before
<1>1. At(q, "commit") /\ req[q].op = "delete" /\ Commit(q)
  BY DEF CommitDelete, Commit
<1>2. /\ c \in Records /\ Open(c, before) /\ before \in Statuses(c)
      /\ before = table[c].status \/ c \in overtaken[q]
  BY <1>1, RemovalReads
<1>3. Write(req[q], [table[c] EXCEPT !.life = "deleted"])
  BY DEF CommitDelete
<1>4. Removed(c, before)
  BY <1>1, <1>2, <1>3 DEF Removed, Write, Entry, Puts, Logs
<1>5. Lifecycle!RemoveLate(c, before)
  BY <1>2, <1>4, RemovalRefines
<1>6. CASE before = table[c].status
  <2>1. Lifecycle!Remove(c)
    BY <1>2, <1>5, <1>6, SeenFields DEF Lifecycle!RemoveLate, Lifecycle!Remove, Shown
  <2>2. QED
    BY <1>2, <2>1 DEF Lifecycle!Act
<1>7. CASE c \in overtaken[q]
  <2>1. OvertakenOn(q, c, {c})
    BY <1>1, <1>7, CommitOvertaken
  <2>2. QED
    BY <1>1, <1>2, <1>5, <2>1 DEF OvertakenRemoval
<1>8. QED
  BY <1>2, <1>6, <1>7

\* Every write is one create, edit, move or removal that the rules allow in the
\* status the record is in, together with its one audit entry, or the removal
\* of a record by a request that was overtaken on it.
THEOREM PromiseIsKept ==
    ASSUME Foresight = 0 PROVE OvertakingSpec => KeepsPromiseUnlessOvertaken
<1>1. Inv /\ ReadIsFresh /\ AllStillSo /\ [OvertakingNext]_OvertakingVars =>
        [\E c \in Records : Lifecycle!Act(c) \/ OvertakenRemoval(c)]_(Lifecycle!lifecycleVars)
  <2> SUFFICES ASSUME Inv, ReadIsFresh, AllStillSo, [Next]_vars
               PROVE  [\E c \in Records :
                         Lifecycle!Act(c) \/ OvertakenRemoval(c)]_(Lifecycle!lifecycleVars)
    BY OvertakingStepIsAStep
  <2>1. CASE UNCHANGED <<table, history>>
    BY <2>1 DEF Lifecycle!lifecycleVars, Seen
  <2>2. ASSUME NEW c \in Records,
               \E row \in Rows(c, "live") : Created(c, row) \/ Edited(c, row) \/ Moved(c, row)
        PROVE  Lifecycle!Act(c)
    BY <2>2, WritesRefine
  <2>3. ASSUME NEW q \in Requests, CommitDelete(q), Exists(req[q].code)
        PROVE  \E c \in Records : Lifecycle!Act(c) \/ OvertakenRemoval(c)
    BY <2>3, RemovalKeepsOrOvertaken
  <2>4. QED
    BY <2>1, <2>2, <2>3, StepKinds
<1>2. QED
  BY <1>1, OvertakingFresh, PTL DEF OvertakingSpec, KeepsPromiseUnlessOvertaken

-------------------------------------------------------------------------------
(* Passed checks.  A manifest that was entered and has left draft remains  *)
(* such a manifest, so here no request can be overtaken.                   *)

LeftDraft(m) == table[m].life # "absent" /\ table[m].status # "draft"

\* A decision that has looked its manifest up and lets the check pass has found
\* one that had left draft.
PassesWhatLeftDraft(r) ==
    Decides(r) => /\ r.phase \notin {"generator", "carrier"}
                  /\ r.phase = "commit" /\ r.current.status = "pass"
                        => LeftDraft(r.current.links[1])

PassingInv ==
    /\ PassedChecksWereSubmitted
    /\ \A q \in Requests : PassesWhatLeftDraft(req[q])

LEMMA LeftDraftStays ==
    ASSUME Inv, ReadIsFresh, [Next]_vars, NEW m \in Manifests, LeftDraft(m)
    PROVE  LeftDraft(m)'
<1>1. m \in Records /\ Graph(m) = TransferManifestTransitions
  BY ManifestRules
<1>2. CASE UNCHANGED <<table, history>>
  BY <1>2 DEF LeftDraft
<1>3. CASE ~UNCHANGED <<table, history>>
  <2>1. PICK q \in Requests : Commit(q)
    BY <1>3, OnlyCommitsWrite
  <2>2. table'[m].life # "absent"
    BY <1>1, <2>1, CommitAdvances DEF RowAdvances, LeftDraft
  <2>3. PICK c \in Records : Operates(c)
    BY <1>3, StepOperates
  <2>4. table'[m].status # table[m].status
          => CanTransition(TransferManifestTransitions, table[m].status, table'[m].status)
    BY <1>1, <2>3, StatusStep DEF LeftDraft
  <2>5. table'[m].status # "draft"
    BY <2>4 DEF LeftDraft, CanTransition, TransferManifestTransitions
  <2>6. QED
    BY <2>2, <2>5 DEF LeftDraft
<1>4. QED
  BY <1>2, <1>3

LEMMA CheckLink ==
    ASSUME Inv, NEW k \in Checks, table[k].life # "absent"
    PROVE  table[k].links[1] \in Manifests
<1>1. table[k] \in Rows(k, "live") \cup Rows(k, "deleted")
  BY CheckRules, AbsentFields DEF Inv, TypeOK, TablesOK
<1>2. table[k].links \in { <<m>> : m \in Manifests }
  BY <1>1, CheckRules DEF Rows
<1>3. QED
  BY <1>2

\* A request that moves keeps to PassesWhatLeftDraft.
LEMMA MoverPasses ==
    ASSUME Inv, ReadIsFresh, NEW q \in Requests, Receive(q) \/ Handle(q) \/ Abandon(q),
           PassesWhatLeftDraft(req[q])
    PROVE  PassesWhatLeftDraft(req[q])'
<1>1. CASE Receive(q)
  <2>1. PICK r : req' = [req EXCEPT ![q] = r] /\ (Decides(r) => r.phase = "manifest")
    BY <1>1, ReceiveStartsAware DEF StartsAware, Inv
  <2>2. req'[q] = r
    BY <2>1 DEF Inv, TypeOK, RequestsOK
  <2>3. QED
    BY <2>1, <2>2 DEF PassesWhatLeftDraft, Decides
<1>2. CASE Finish(q)
  <2>1. req'[q].phase = "idle"
    BY <1>2 DEF Inv, TypeOK, RequestsOK, Finish, Idle
  <2>2. QED
    BY <2>1 DEF PassesWhatLeftDraft
<1>3. CASE Commit(q) /\ ~Finish(q)
  <2>1. Advance(q, "reply") /\ ~At(q, "idle")
    BY <1>3 DEF Commit, CommitCreate, CommitUpdate, CommitDelete, At
  <2>2. req'[q].phase = "reply"
    BY <2>1, Advanced DEF Phases
  <2>3. QED
    BY <2>2 DEF PassesWhatLeftDraft
<1>4. CASE (FindGenerator(q) \/ FindCarrier(q)) /\ ~Finish(q)
  <2>1. PICK phase \in Phases : Advance(q, phase)
    BY <1>4 DEF FindGenerator, FindCarrier, Phases
  <2>2. req'[q].op = req[q].op /\ req'[q].code = req[q].code
    BY <1>4, <2>1, Advanced DEF FindGenerator, FindCarrier, At
  <2>3. ~Decides(req[q])
    BY <1>4 DEF PassesWhatLeftDraft, FindGenerator, FindCarrier, At
  <2>4. QED
    BY <2>2, <2>3 DEF PassesWhatLeftDraft, Decides
<1>5. CASE FindManifest(q) /\ ~Finish(q)
  <2>1. /\ At(q, "manifest") /\ Advance(q, "commit") /\ UNCHANGED table
        /\ ManifestServes(req[q], req[q].current.links[1])
    BY <1>5 DEF FindManifest
  <2>2. /\ req'[q].phase = "commit" /\ req'[q].op = req[q].op
        /\ req'[q].code = req[q].code /\ req'[q].current = req[q].current
    BY <2>1, Advanced DEF Phases, At
  <2>3. Decides(req[q]) /\ req[q].current.status = "pass"
          => LeftDraft(req[q].current.links[1])
    BY <2>1 DEF Decides, ManifestServes, LeftDraft, Exists
  <2>4. QED
    BY <2>1, <2>2, <2>3 DEF PassesWhatLeftDraft, Decides, LeftDraft
<1>6. QED
  BY <1>1, <1>2, <1>3, <1>4, <1>5 DEF Handle, Find, Answer, Abandon

LEMMA UnmovedPasses ==
    ASSUME Inv, ReadIsFresh, [Next]_vars, NEW p \in Requests, req'[p] = req[p],
           PassesWhatLeftDraft(req[p])
    PROVE  PassesWhatLeftDraft(req[p])'
<1>1. SUFFICES ASSUME Decides(req[p]), At(p, "commit"), req[p].current.status = "pass"
               PROVE  LeftDraft(req[p].current.links[1])'
  BY DEF PassesWhatLeftDraft, Decides, At
<1>2. req[p].current.links[1] \in Manifests
  BY <1>1, LinksOfMove DEF Inv, Decides, At
<1>3. LeftDraft(req[p].current.links[1])
  BY <1>1 DEF PassesWhatLeftDraft, At
<1>4. PICK m \in Manifests : m = req[p].current.links[1]
  BY <1>2
<1>5. LeftDraft(m)'
  BY <1>3, <1>4, LeftDraftStays
<1>6. QED
  BY <1>4, <1>5 DEF LeftDraft

\* A check that passes in a step has been looked up a manifest that left draft.
LEMMA PassesOnLeftDraft ==
    ASSUME Inv, ReadIsFresh, PassingInv, [Next]_vars, NEW k \in Checks,
           table'[k].status = "pass", table[k].status # "pass"
    PROVE  table'[k].links[1] \in Manifests /\ LeftDraft(table'[k].links[1])
<1>1. k \in Records
  BY CheckRules
<1>2. PICK q \in Requests : Commit(q)
  BY OnlyCommitsWrite
<1>3. /\ At(q, "commit") /\ req[q].code \in Records /\ req[q] \in InFlight(req[q].code)
      /\ RequestIsLegal(req[q])
  BY <1>2, InFlightRequest
     DEF Commit, CommitCreate, CommitUpdate, CommitDelete, At, Inv, TypeOK, RequestsAreLegal
<1>4. CASE CommitDelete(q)
  <2>1. /\ Exists(req[q].code)
        /\ Puts(req[q].code, [table[req[q].code] EXCEPT !.life = "deleted"])
    BY <1>1, <1>4 DEF CommitDelete, Write, Puts
  <2>2. [table[req[q].code] EXCEPT !.life = "deleted"].status = table[req[q].code].status
    BY <1>3, <2>1, LiveRow DEF Inv, Rows
  <2>3. QED
    BY <1>1, <1>3, <2>1, <2>2, RowAfterPut
<1>5. CASE CommitCreate(q) \/ CommitUpdate(q)
  <2>1. Puts(req[q].code, req[q].current)
    BY <1>1, <1>5 DEF CommitCreate, CommitUpdate, Write, Puts
  <2>2. req[q].code = k /\ table'[k] = req[q].current
    BY <1>1, <1>3, <2>1, RowAfterPut
  <2>3. req[q].current.status = "pass" /\ req[q].op \in {"create", "update", "transition"}
    BY <1>5, <2>2 DEF CommitCreate, CommitUpdate
  <2>4. req[q].op # "create"
    BY <1>3, <2>2, <2>3, CheckRules DEF RequestIsLegal
  <2>5. req[q].op # "update"
    BY <1>3, <2>2, <2>3, CheckRules, KindsOfRecords DEF RequestIsLegal, Open
  <2>6. Decides(req[q])
    BY <2>2, <2>3, <2>4, <2>5 DEF Decides
  <2>7. LeftDraft(req[q].current.links[1])
    BY <1>3, <2>3, <2>6 DEF PassingInv, PassesWhatLeftDraft, At
  <2>8. req[q].current.links[1] \in Manifests
    BY <1>3, <2>6, LinksOfMove DEF Decides, Inv, At
  <2>9. QED
    BY <2>2, <2>7, <2>8
<1>6. QED
  BY <1>2, <1>4, <1>5 DEF Commit

LEMMA PassedStay ==
    ASSUME Inv, ReadIsFresh, PassingInv, [Next]_vars
    PROVE  PassedChecksWereSubmitted'
<1>1. SUFFICES ASSUME NEW k \in Checks, table'[k].status = "pass"
               PROVE  table'[table'[k].links[1]].life # "absent"
                        /\ table'[table'[k].links[1]].status # "draft"
  BY DEF PassedChecksWereSubmitted
<1>2. SUFFICES \E m \in Manifests : m = table'[k].links[1] /\ LeftDraft(m)
  BY LeftDraftStays DEF LeftDraft
<1>3. CASE table[k].status # "pass"
  BY <1>1, <1>3, PassesOnLeftDraft
<1>4. CASE table[k].status = "pass"
  <2>1. k \in Records /\ table[k].life # "absent"
    BY <1>4, CheckRules, AbsentFields DEF Inv, TypeOK, TablesOK, Rows
  <2>2. table[k].links[1] \in Manifests /\ LeftDraft(table[k].links[1])
    BY <1>4, <2>1, CheckLink DEF PassingInv, PassedChecksWereSubmitted, LeftDraft
  <2>3. table'[k].links = table[k].links
    <3>1. CASE UNCHANGED <<table, history>>
      BY <3>1
    <3>2. CASE ~UNCHANGED <<table, history>>
      <4>1. PICK c \in Records : Operates(c)
        BY <3>2, StepOperates
      <4>2. ~Open(k, table[k].status)
        BY <1>4, CheckRules, KindsOfRecords DEF Open
      <4>3. table[k] \in Rows(k, "live") \cup Rows(k, "deleted")
        BY <2>1, AbsentFields DEF Inv, TypeOK, TablesOK
      <4>4. table[k].life \in {"live", "deleted"}
        BY <4>3 DEF Rows
      <4>5. QED
        BY <2>1, <4>1, <4>2, <4>4, StatusStep
    <3>3. QED
      BY <3>1, <3>2
  <2>4. QED
    BY <2>2, <2>3
<1>5. QED
  BY <1>3, <1>4

LEMMA PassingNext ==
    ASSUME Inv, ReadIsFresh, PassingInv, [Next]_vars PROVE PassingInv'
<1>1. ASSUME NEW q \in Requests, Receive(q) \/ Handle(q) \/ Abandon(q), NEW p \in Requests
      PROVE  PassesWhatLeftDraft(req[p])'
  <2>1. CASE p = q
    BY <1>1, <2>1, MoverPasses DEF PassingInv
  <2>2. CASE p # q
    BY <1>1, <2>2, OthersUnmoved, UnmovedPasses DEF PassingInv
  <2>3. QED
    BY <2>1, <2>2
<1>2. ASSUME Tick \/ UNCHANGED vars, NEW p \in Requests
      PROVE  PassesWhatLeftDraft(req[p])'
  BY <1>2, UnmovedPasses DEF PassingInv, Tick, vars
<1>3. QED
  BY <1>1, <1>2, PassedStay DEF PassingInv, Next

\* A check that has passed is about a manifest that was entered and has left draft,
\* for good and whatever requests overlap, if the seeded ones are: it is not
\* undone by a rejection of the manifest, nor by its late deletion.
THEOREM PassedChecksLeftDraft ==
    ASSUME Foresight = 0,
           \A k \in Checks :
               SeedTable[k].status = "pass" => SeedTable[SeedTable[k].links[1]].status # "draft"
    PROVE  Spec => []PassedChecksWereSubmitted
<1>1. Init => PassingInv
  <2> SUFFICES ASSUME Init
               PROVE  PassingInv
    OBVIOUS
  <2>1. ASSUME NEW k \in Checks, table[k].status = "pass"
        PROVE  LeftDraft(table[k].links[1])
    <3>1. Inv /\ k \in Records /\ table[k] = SeedTable[k] /\ SeedTable[k] # AbsentRow
      BY <2>1, InvInit, CheckRules, AbsentFields DEF Init
    <3>2. table[k].life # "absent"
      BY <3>1, SeedAssumption DEF Rows
    <3>3. PICK m \in Manifests : m = table[k].links[1]
      BY <3>1, <3>2, CheckLink
    <3>4. table[k].links \in { <<n>> : n \in Manifests }
      BY <3>1, SeedAssumption, CheckRules DEF Rows
    <3>5. SeedTable[m] # AbsentRow /\ m \in Records
      BY <3>1, <3>3, <3>4, SeedLinksAssumption, ManifestRules
    <3>6. table[m].life # "absent" /\ table[m] = SeedTable[m]
      BY <3>5, SeedAssumption DEF Init, Rows
    <3>7. SeedTable[m].status # "draft"
      BY <2>1, <3>1, <3>3
    <3>8. QED
      BY <3>3, <3>6, <3>7 DEF LeftDraft
  <2>2. ASSUME NEW q \in Requests
        PROVE  PassesWhatLeftDraft(req[q])
    BY DEF Init, PassesWhatLeftDraft, Idle
  <2>3. QED
    BY <2>1, <2>2 DEF PassingInv, PassedChecksWereSubmitted, LeftDraft
<1>2. Inv /\ ReadIsFresh /\ PassingInv /\ [Next]_vars => PassingInv'
  BY PassingNext
<1>3. PassingInv => PassedChecksWereSubmitted
  BY DEF PassingInv
<1>4. QED
  BY <1>1, <1>2, <1>3, FreshInvariance, PTL DEF Spec
===============================================================================
