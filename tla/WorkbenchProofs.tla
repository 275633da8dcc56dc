---------------------------- MODULE WorkbenchProofs ----------------------------
(***************************************************************************)
(* Theorems about Workbench, for all four pages, any number of records and *)
(* of calls in flight, and every bound on the versions.                    *)
(*                                                                         *)
(* The page works on snapshots of rows.  The argument is that a row only   *)
(* ever advances - its version grows whenever its content changes - so     *)
(* that whatever was a row stays one, through every answer that is late or *)
(* lost.                                                                   *)
(***************************************************************************)
EXTENDS Workbench, TLAPS

-------------------------------------------------------------------------------
(* The two moves by which the page's graphs differ from the server's.      *)

\* The moves the page offers and the server's graph has not: a pending carrier
\* cannot expire, and a pending check cannot be escalated.
Drifted(c) == IF c \in Carriers THEN {<<"pending", "expired">>}
              ELSE IF c \in Checks THEN {<<"pending", "escalated">>}
              ELSE {}

\* When the server knows no such move, either somebody has changed the record
\* since the page read it, or it is one of these two: what is left of
\* OnlyChangedIsRefused, which the two break.
OnlyDriftIsRefused ==
    \A k \in Calls : At(k, "move", "answered") =>
        LET item == call[k].item
        IN call[k].result = "invalid_transition" =>
             \/ rows[item.code].version > item.version
             \/ <<item.status, call[k].target>> \in Drifted(item.code)

-------------------------------------------------------------------------------
(* What the page knows.                                                    *)

\* The snapshots that have been rows: of a version the row has reached, and with
\* the status the row had then.
WasRows ==
    { s \in [code : Records, status : AnyStatus, version : Nat] :
        /\ rows[s.code].version >= s.version
        /\ rows[s.code].version = s.version => rows[s.code].status = s.status }

\* The moves the page may offer of such snapshots.
IsOffered(m) == <<m.item.status, m.target>> \in Offered(m.item.code)

Dialogs == { d \in [open : {TRUE}, item : WasRows, target : AnyStatus] : IsOffered(d) }

Results == {"", "ok", "invalid_transition", "refused"}

\* A move the server has no edge for.
IsExplained(m) == \/ rows[m.item.code].version > m.item.version
                  \/ <<m.item.status, m.target>> \in Drifted(m.item.code)

Loads   == [kind : {"load"}, phase : {"sent", "answered"},
            for : {"page", "move", "create"}, answer : SUBSET WasRows]
Moves   == { m \in [kind : {"move"}, phase : {"sent", "answered", "abandoned"},
                    item : WasRows, target : AnyStatus, result : Results] :
               /\ IsOffered(m)
               /\ m.result = "invalid_transition" => IsExplained(m) }
Creates == [kind : {"create"}, phase : {"sent", "answered", "abandoned"}, result : Results]

CallStates == {NoCall} \cup Loads \cup Moves \cup Creates

RowsOK ==
    /\ rows \in [Records -> [life : {"absent", "live", "deleted"},
                             status : AnyStatus \cup {""}, version : Nat]]
    /\ \A c \in Records : /\ rows[c].version <= MaxVersion[c]
                          /\ rows[c].status \in Statuses(c) \cup {""}
                          /\ Live(c) => rows[c].status \in Statuses(c)

PageOK ==
    /\ items \subseteq WasRows
    /\ pending \in Dialogs \cup {NoDialog}
    /\ call \in [Calls -> CallStates]
    /\ loading \in BOOLEAN /\ showCreate \in BOOLEAN

WorkbenchInv == RowsOK /\ PageOK

-------------------------------------------------------------------------------
(* The status graphs.                                                      *)

LEMMA StatusesTyped ==
  ASSUME NEW c \in Records
  PROVE  Statuses(c) \subseteq AnyStatus /\ InitialStatus(c) \in Statuses(c)
  <1>1. CASE c \in Generators
        BY <1>1 DEF Statuses, AnyStatus, InitialStatus, GeneratorStatuses
  <1>2. CASE c \in Carriers
        BY <1>2, KindsAreDisjoint
        DEF Statuses, AnyStatus, InitialStatus, CarrierStatuses
  <1>3. CASE c \in Manifests
        BY <1>3, KindsAreDisjoint
        DEF Statuses, AnyStatus, InitialStatus, ManifestStatuses
  <1>4. CASE c \in Checks
        BY <1>4, KindsAreDisjoint
        DEF Statuses, AnyStatus, InitialStatus, CheckStatuses
  <1> QED  BY <1>1, <1>2, <1>3, <1>4 DEF Records, Permits

LEMMA GraphTargets ==
  ASSUME NEW c \in Records, NEW from, NEW to, <<from, to>> \in Graph(c)
  PROVE  to \in Statuses(c)
  <1>1. CASE c \in Generators
        BY <1>1 DEF Statuses, Graph, GeneratorStatuses, WasteGeneratorTransitions
  <1>2. CASE c \in Carriers
        BY <1>2, KindsAreDisjoint
        DEF Statuses, Graph, CarrierStatuses, CarrierProfileTransitions
  <1>3. CASE c \in Manifests
        BY <1>3, KindsAreDisjoint
        DEF Statuses, Graph, ManifestStatuses, TransferManifestTransitions
  <1>4. CASE c \in Checks
        BY <1>4, KindsAreDisjoint
        DEF Statuses, Graph, CheckStatuses, ComplianceCheckTransitions
  <1> QED  BY <1>1, <1>2, <1>3, <1>4 DEF Records, Permits

\* The page offers no move the server does not know, but for two.
LEMMA OfferedOrDrifted ==
  ASSUME NEW c \in Records PROVE Offered(c) \subseteq Graph(c) \cup Drifted(c)
  <1>1. CarrierMovesOffered \subseteq CarrierProfileTransitions \cup {<<"pending", "expired">>}
        BY DEF CarrierMovesOffered, CarrierProfileTransitions
  <1>2. CheckMovesOffered \subseteq ComplianceCheckTransitions \cup {<<"pending", "escalated">>}
        BY DEF CheckMovesOffered, ComplianceCheckTransitions
  <1>3. CASE c \in Carriers
        BY <1>1, <1>3, KindsAreDisjoint DEF Offered, Graph, Drifted
  <1>4. CASE c \in Checks
        BY <1>2, <1>4, KindsAreDisjoint DEF Offered, Graph, Drifted
  <1> QED  BY <1>3, <1>4 DEF Offered

-------------------------------------------------------------------------------
(* Rows advance.                                                           *)

Advance ==
    \A c \in Records : \/ rows'[c].version > rows[c].version
                       \/ /\ rows'[c].version = rows[c].version
                          /\ rows'[c].status = rows[c].status

LEMMA SnapshotsStay ==
  ASSUME RowsOK, RowsOK', Advance PROVE WasRows \subseteq WasRows'
  <1> SUFFICES ASSUME NEW s \in WasRows PROVE s \in WasRows'  OBVIOUS
  <1>1. /\ s \in [code : Records, status : AnyStatus, version : Nat]
        /\ rows[s.code].version >= s.version
        /\ rows[s.code].version = s.version => rows[s.code].status = s.status
        BY DEF WasRows
  <1>2. s.code \in Records /\ s.version \in Nat  BY <1>1
  <1>3. rows[s.code].version \in Nat /\ rows'[s.code].version \in Nat  BY <1>2 DEF RowsOK
  <1>4. /\ rows'[s.code].version >= s.version
        /\ rows'[s.code].version = s.version => rows'[s.code].status = s.status
        BY <1>1, <1>2, <1>3 DEF Advance
  <1> QED  BY <1>1, <1>4 DEF WasRows

LEMMA ExplanationsStay ==
  ASSUME RowsOK, RowsOK', Advance, NEW m, m.item \in WasRows, IsExplained(m)
  PROVE  IsExplained(m)'
  <1>1. m.item.code \in Records /\ m.item.version \in Nat  BY DEF WasRows
  <1>2. rows[m.item.code].version \in Nat /\ rows'[m.item.code].version \in Nat
        BY <1>1 DEF RowsOK
  <1> QED  BY <1>1, <1>2 DEF Advance, IsExplained

\* A step need only be looked at with the rows it starts from.
LEMMA PageStays ==
  ASSUME RowsOK, RowsOK', Advance,
         items' \subseteq WasRows,
         pending' \in Dialogs \cup {NoDialog},
         call' \in [Calls -> CallStates],
         loading' \in BOOLEAN, showCreate' \in BOOLEAN
  PROVE  WorkbenchInv'
  <1>1. WasRows \subseteq WasRows'  BY SnapshotsStay
  <1>2. Dialogs \subseteq Dialogs'  BY <1>1 DEF Dialogs, IsOffered
  <1>3. Loads \subseteq Loads'  BY <1>1 DEF Loads
  <1>4. Moves \subseteq Moves'
    <2> SUFFICES ASSUME NEW m \in Moves PROVE m \in Moves'  OBVIOUS
    <2>1. m \in [kind : {"move"}, phase : {"sent", "answered", "abandoned"},
                 item : WasRows', target : AnyStatus, result : Results]
          BY <1>1 DEF Moves
    <2>2. m.item \in WasRows /\ IsOffered(m)  BY DEF Moves
    <2>3. m.result = "invalid_transition" => IsExplained(m)'
          BY <2>2, ExplanationsStay DEF Moves
    <2> QED  BY <2>1, <2>2, <2>3 DEF Moves, IsOffered
  <1>5. call' \in [Calls -> {NoCall} \cup Loads' \cup Moves' \cup Creates]
        BY <1>3, <1>4 DEF CallStates
  <1> QED  BY <1>1, <1>2, <1>5 DEF WorkbenchInv, PageOK, CallStates, Creates, NoDialog, NoCall

LEMMA RowsKept == ASSUME RowsOK, UNCHANGED rows PROVE RowsOK' /\ Advance
  BY DEF RowsOK, Advance, Live

LEMMA SaveAdvances ==
  ASSUME RowsOK, NEW c \in Records, NEW status \in Statuses(c), Save(c, status)
  PROVE  RowsOK' /\ Advance
  <1> DEFINE row == [life |-> "live", status |-> status, version |-> rows[c].version + 1]
  <1>1. rows' = [rows EXCEPT ![c] = row] /\ rows[c].version < MaxVersion[c]  BY DEF Save
  <1>2. status \in AnyStatus  BY StatusesTyped
  <1>3. rows[c].version \in Nat /\ MaxVersion[c] \in Nat
        BY BoundsAssumption DEF RowsOK
  <1>4. row.version \in Nat /\ row.version <= MaxVersion[c]  BY <1>1, <1>3
  <1>5. row \in [life : {"absent", "live", "deleted"}, status : AnyStatus \cup {""}, version : Nat]
        BY <1>2, <1>4
  <1>6. row.status = status /\ row.version = rows[c].version + 1  OBVIOUS
  <1> HIDE DEF row
  <1>7. RowsOK'  BY <1>1, <1>4, <1>5, <1>6 DEF RowsOK, Live
  <1>8. Advance
    <2> SUFFICES ASSUME NEW d \in Records
                 PROVE  \/ rows'[d].version > rows[d].version
                        \/ /\ rows'[d].version = rows[d].version
                           /\ rows'[d].status = rows[d].status
        BY DEF Advance
    <2>1. CASE d = c
      <3>1. rows'[c] = row  BY <1>1 DEF RowsOK
      <3>2. rows'[c].version > rows[c].version  BY <1>3, <1>6, <3>1
      <3> QED  BY <2>1, <3>2
    <2>2. CASE d # c  BY <1>1, <2>2
    <2> QED  BY <2>1, <2>2
  <1> QED  BY <1>7, <1>8

\* What the kind of a call tells about it.
LEMMA CallByKind ==
  ASSUME NEW c \in CallStates, c # NoCall
  PROVE  /\ c.kind \in {"load", "move", "create"}
         /\ c.kind = "load" => c \in Loads
         /\ c.kind = "move" => c \in Moves
         /\ c.kind = "create" => c \in Creates
  <1>1. c \in Loads => c.kind = "load"  BY DEF Loads
  <1>2. c \in Moves => c.kind = "move"  BY DEF Moves
  <1>3. c \in Creates => c.kind = "create"  BY DEF Creates
  <1> QED  BY <1>1, <1>2, <1>3 DEF CallStates

-------------------------------------------------------------------------------
(* The steps.                                                              *)

RowType == [life : {"absent", "live", "deleted"}, status : AnyStatus \cup {""}, version : Nat]

LEMMA AbsentFields ==
  /\ AbsentRow \in RowType
  /\ AbsentRow.life = "absent" /\ AbsentRow.status = "" /\ AbsentRow.version = 0
  BY DEF AbsentRow, RowType

LEMMA InitHolds == Init => WorkbenchInv
  <1> SUFFICES ASSUME Init PROVE WorkbenchInv  OBVIOUS
  <1>1. RowsOK
    <2> SUFFICES ASSUME NEW c \in Records
                 PROVE  /\ rows[c] \in RowType
                        /\ rows[c].version <= MaxVersion[c]
                        /\ rows[c].status \in Statuses(c) \cup {""}
                        /\ Live(c) => rows[c].status \in Statuses(c)
        BY DEF RowsOK, Init, Begin, RowType
    <2>1. MaxVersion[c] \in Nat /\ rows[c] = Seed[c]  BY BoundsAssumption DEF Init, Begin
    <2>2. CASE Seed[c] = AbsentRow
      <3>1. rows[c].life # "live" /\ rows[c].status = "" /\ rows[c].version = 0
            BY <2>1, <2>2, AbsentFields
      <3>2. rows[c] \in RowType  BY <2>1, <2>2, AbsentFields
      <3>3. rows[c].version = 0  BY <3>1
      <3>4. rows[c].version <= MaxVersion[c]  BY <2>1, <3>3
      <3> QED  BY <3>1, <3>2, <3>4 DEF Live
    <2>3. CASE Seed[c] \in [life : {"live", "deleted"}, status : Statuses(c),
                            version : 1..MaxVersion[c]]
      <3>1. /\ rows[c].life \in {"live", "deleted"} /\ rows[c].status \in Statuses(c)
            /\ rows[c].version \in 1..MaxVersion[c]
            BY <2>1, <2>3
      <3>2. rows[c].version \in Nat /\ rows[c].version <= MaxVersion[c]  BY <2>1, <3>1
      <3>3. rows[c].status \in AnyStatus  BY <3>1, StatusesTyped
      <3>4. rows[c] \in [life : {"live", "deleted"}, status : Statuses(c), version : Nat]
            BY <2>1, <2>3, <3>2
      <3>5. rows[c] \in RowType  BY <3>3, <3>4, StatusesTyped DEF RowType
      <3> QED  BY <3>1, <3>2, <3>5
    <2> QED  BY <2>2, <2>3, SeedAssumption
  <1>2. PageOK  BY DEF Init, PageOK, CallStates
  <1> QED  BY <1>1, <1>2 DEF WorkbenchInv

\* The steps of the browser leave the rows alone.
LEMMA BrowserStays ==
  ASSUME WorkbenchInv, UNCHANGED rows,
         items' \subseteq WasRows,
         pending' \in Dialogs \cup {NoDialog},
         call' \in [Calls -> CallStates],
         loading' \in BOOLEAN, showCreate' \in BOOLEAN
  PROVE  WorkbenchInv'
  BY RowsKept, PageStays DEF WorkbenchInv

LEMMA StartLoadCall ==
  ASSUME WorkbenchInv, NEW k \in Calls, NEW for \in {"page", "move", "create"},
         StartLoad(k, for)
  PROVE  call' \in [Calls -> CallStates] /\ loading' \in BOOLEAN
  <1>1. [kind |-> "load", phase |-> "sent", for |-> for, answer |-> {}] \in Loads  BY DEF Loads
  <1> QED  BY <1>1 DEF StartLoad, Put, WorkbenchInv, PageOK, CallStates

LEMMA LoadPageHolds ==
  ASSUME WorkbenchInv, NEW k \in Calls, LoadPage(k) PROVE WorkbenchInv'
  BY StartLoadCall, BrowserStays DEF WorkbenchInv, PageOK, LoadPage, dialogs

LEMMA OpenTransitionHolds ==
  ASSUME WorkbenchInv, NEW item \in items, NEW target \in Statuses(item.code),
         OpenTransition(item, target)
  PROVE  WorkbenchInv'
  <1>1. item \in WasRows /\ item.code \in Records  BY DEF WorkbenchInv, PageOK, WasRows
  <1>2. target \in AnyStatus  BY <1>1, StatusesTyped
  <1>3. [open |-> TRUE, item |-> item, target |-> target] \in Dialogs
        BY <1>1, <1>2 DEF Dialogs, IsOffered, OpenTransition, CanTransition
  <1> QED  BY <1>3, BrowserStays DEF WorkbenchInv, PageOK, OpenTransition

LEMMA DialogButtonsHold ==
  ASSUME WorkbenchInv, CloseTransition \/ OpenCreate \/ CloseCreate PROVE WorkbenchInv'
  BY BrowserStays
  DEF WorkbenchInv, PageOK, CloseTransition, OpenCreate, CloseCreate

LEMMA ConfirmTransitionHolds ==
  ASSUME WorkbenchInv, NEW k \in Calls, ConfirmTransition(k) PROVE WorkbenchInv'
  <1>1. pending \in Dialogs  BY DEF WorkbenchInv, PageOK, ConfirmTransition
  <1>2. [kind |-> "move", phase |-> "sent", item |-> pending.item, target |-> pending.target,
         result |-> ""] \in Moves
        BY <1>1 DEF Dialogs, Moves, IsOffered, Results
  <1> QED  BY <1>2, BrowserStays
           DEF WorkbenchInv, PageOK, ConfirmTransition, StartMove, Put, CallStates, dialogs

LEMMA CreateDemoHolds ==
  ASSUME WorkbenchInv, NEW k \in Calls, CreateDemo(k) PROVE WorkbenchInv'
  <1>1. [kind |-> "create", phase |-> "sent", result |-> ""] \in Creates
        BY DEF Creates, Results
  <1> QED  BY <1>1, BrowserStays
           DEF WorkbenchInv, PageOK, CreateDemo, StartCreate, Put, CallStates, dialogs

LEMMA WritesSave ==
  ASSUME WorkbenchInv, NEW c \in Records, Written(c)
  PROVE  \E status \in Statuses(c) : Save(c, status)
  BY StatusesTyped DEF Written, Insert, WorkbenchInv, RowsOK

LEMMA OthersHold ==
  ASSUME WorkbenchInv, OthersWork PROVE WorkbenchInv'
  <1>1. PICK c \in Records : Written(c) \/ Deleted(c)  BY DEF OthersWork
  <1>2. RowsOK' /\ Advance
    <2>1. CASE Deleted(c)
          BY <2>1 DEF Deleted, WorkbenchInv, RowsOK, Advance, Live
    <2>2. CASE Written(c)
          BY <2>2, WritesSave, SaveAdvances DEF WorkbenchInv
    <2> QED  BY <1>1, <2>1, <2>2
  <1> QED  BY <1>2, PageStays DEF WorkbenchInv, PageOK, OthersWork, dialogs

\* A live row is a snapshot of itself.
LEMMA ItemIsRow ==
  ASSUME RowsOK, NEW c \in Records, Live(c) PROVE Item(c) \in WasRows
  <1>1. rows[c].status \in AnyStatus /\ rows[c].version \in Nat
        BY StatusesTyped DEF RowsOK
  <1> QED  BY <1>1 DEF Item, WasRows

LEMMA AnswerListHolds ==
  ASSUME WorkbenchInv, NEW k \in Calls, AnswerList(k) PROVE WorkbenchInv'
  <1>1. call[k] \in Loads  BY CallByKind DEF WorkbenchInv, PageOK, AnswerList, At
  <1>2. PICK listed \in SUBSET { c \in Records : Live(c) } :
          Put(k, [call[k] EXCEPT !.phase = "answered", !.answer = { Item(c) : c \in listed }])
        BY DEF AnswerList
  <1> DEFINE answer == { Item(c) : c \in listed }
  <1>3. answer \in SUBSET WasRows  BY ItemIsRow DEF WorkbenchInv
  <1>4. call' = [call EXCEPT ![k] = [call[k] EXCEPT !.phase = "answered", !.answer = answer]]
        BY <1>2 DEF Put
  <1> HIDE DEF answer
  <1>5. [call[k] EXCEPT !.phase = "answered"] \in Loads  BY <1>1 DEF Loads
  <1>6. [call[k] EXCEPT !.phase = "answered", !.answer = answer] \in Loads
        BY <1>3, <1>5 DEF Loads
  <1>7. call' \in [Calls -> CallStates]
        BY <1>4, <1>6 DEF WorkbenchInv, PageOK, CallStates
  <1> QED  BY <1>7, BrowserStays DEF WorkbenchInv, PageOK, AnswerList, dialogs

\* The answer to a move or to a creation.
LEMMA MoveReplied ==
  ASSUME WorkbenchInv, NEW k \in Calls, Waiting(k, "move"), NEW result \in Results,
         result = "invalid_transition" => IsExplained(call[k]),
         Reply(k, result)
  PROVE  call' \in [Calls -> CallStates]
  <1>1. call[k] \in Moves  BY CallByKind DEF WorkbenchInv, PageOK, Waiting, At
  <1>2. CASE call[k].phase = "abandoned"
        BY <1>2 DEF Reply, Put, WorkbenchInv, PageOK, CallStates
  <1>3. CASE call[k].phase # "abandoned"
    <2> DEFINE m == [call[k] EXCEPT !.phase = "answered"]
               n == [call[k] EXCEPT !.phase = "answered", !.result = result]
               T == [kind : {"move"}, phase : {"sent", "answered", "abandoned"},
                     item : WasRows, target : AnyStatus, result : Results]
    <2>1. /\ m \in T /\ m.item = call[k].item /\ m.target = call[k].target
          BY <1>1 DEF Moves
    <2>2. n = [m EXCEPT !.result = result]  OBVIOUS
    <2> HIDE DEF m
    <2>3. n \in T /\ n.item = m.item /\ n.target = m.target /\ n.result = result
          BY <2>1, <2>2
    <2>4. call' = [call EXCEPT ![k] = n]  BY <1>3 DEF Reply, Put
    <2> HIDE DEF n
    <2>5. IsOffered(n)  BY <1>1, <2>1, <2>3 DEF Moves, IsOffered
    <2>6. n.result = "invalid_transition" => IsExplained(n)
          BY <2>1, <2>3 DEF IsExplained
    <2>7. n \in Moves  BY <2>3, <2>5, <2>6 DEF Moves
    <2> QED  BY <2>4, <2>7 DEF WorkbenchInv, PageOK, CallStates
  <1> QED  BY <1>2, <1>3

LEMMA CreateReplied ==
  ASSUME WorkbenchInv, NEW k \in Calls, Waiting(k, "create"), NEW result \in Results,
         Reply(k, result)
  PROVE  call' \in [Calls -> CallStates]
  <1>1. call[k] \in Creates  BY CallByKind DEF WorkbenchInv, PageOK, Waiting, At
  <1>2. [call[k] EXCEPT !.phase = "answered", !.result = result] \in Creates
        BY <1>1 DEF Creates
  <1> QED  BY <1>2 DEF Reply, Put, WorkbenchInv, PageOK, CallStates

LEMMA AcceptMoveHolds ==
  ASSUME WorkbenchInv, NEW k \in Calls, AcceptMove(k) PROVE WorkbenchInv'
  <1>1. call[k] \in Moves
        BY CallByKind DEF WorkbenchInv, PageOK, AcceptMove, Waiting, At
  <1> DEFINE c == call[k].item.code
  <1>2. c \in Records /\ Live(c)  BY <1>1 DEF Moves, WasRows, AcceptMove
  <1>3. <<rows[c].status, call[k].target>> \in Graph(c)  BY DEF AcceptMove, CanTransition
  <1>4. call[k].target \in Statuses(c)  BY <1>2, <1>3, GraphTargets
  <1>5. RowsOK' /\ Advance  BY <1>2, <1>4, SaveAdvances DEF AcceptMove, WorkbenchInv
  <1>6. call' \in [Calls -> CallStates]  BY MoveReplied DEF AcceptMove, Results
  <1> QED  BY <1>5, <1>6, PageStays DEF WorkbenchInv, PageOK, AcceptMove, dialogs

\* The server refuses a move for want of an edge only if the row has changed,
\* or the page's copy of the graph has an edge the server's has not.
LEMMA RefuseEdgeHolds ==
  ASSUME WorkbenchInv, NEW k \in Calls, RefuseEdge(k) PROVE WorkbenchInv'
  <1>1. call[k] \in Moves
        BY CallByKind DEF WorkbenchInv, PageOK, RefuseEdge, Waiting, At
  <1> DEFINE item == call[k].item
             c == call[k].item.code
  <1>2. item \in WasRows /\ c \in Records /\ item.version \in Nat  BY <1>1 DEF Moves, WasRows
  <1>3. <<rows[c].status, call[k].target>> \notin Graph(c)  BY DEF RefuseEdge, CanTransition
  <1>4. <<item.status, call[k].target>> \in Graph(c) \cup Drifted(c)
        BY <1>1, <1>2, OfferedOrDrifted DEF Moves, IsOffered
  <1>5. rows[c].version \in Nat  BY <1>2 DEF WorkbenchInv, RowsOK
  <1>6. rows[c].version > item.version \/ rows[c].version = item.version
        BY <1>2, <1>5 DEF WasRows
  <1>7. rows[c].version = item.version => rows[c].status = item.status
        BY <1>2 DEF WasRows
  <1>8. IsExplained(call[k])  BY <1>3, <1>4, <1>6, <1>7 DEF IsExplained
  <1>9. call' \in [Calls -> CallStates]  BY <1>8, MoveReplied DEF RefuseEdge, Results
  <1> QED  BY <1>9, BrowserStays DEF WorkbenchInv, PageOK, RefuseEdge, dialogs

LEMMA RefuseHolds ==
  ASSUME WorkbenchInv, NEW k \in Calls, Refuse(k) PROVE WorkbenchInv'
  <1>1. call' \in [Calls -> CallStates]
        BY MoveReplied, CreateReplied DEF Refuse, Results
  <1> QED  BY <1>1, BrowserStays DEF WorkbenchInv, PageOK, Refuse, dialogs

LEMMA AcceptCreateHolds ==
  ASSUME WorkbenchInv, NEW k \in Calls, AcceptCreate(k) PROVE WorkbenchInv'
  <1>1. PICK c \in Records : Insert(c)  BY DEF AcceptCreate
  <1>2. RowsOK' /\ Advance
        BY <1>1, SaveAdvances, StatusesTyped DEF Insert, WorkbenchInv
  <1>3. call' \in [Calls -> CallStates]  BY CreateReplied DEF AcceptCreate, Results
  <1> QED  BY <1>2, <1>3, PageStays DEF WorkbenchInv, PageOK, AcceptCreate, dialogs

-------------------------------------------------------------------------------
LEMMA DialogsAfter ==
  ASSUME WorkbenchInv, NEW for, CloseDialogAfter(for)
  PROVE  /\ pending' \in Dialogs \cup {NoDialog} /\ showCreate' \in BOOLEAN
  BY DEF WorkbenchInv, PageOK, CloseDialogAfter

LEMMA CallDropped ==
  ASSUME WorkbenchInv, NEW k \in Calls, Put(k, NoCall) PROVE call' \in [Calls -> CallStates]
  BY DEF WorkbenchInv, PageOK, Put, CallStates

LEMMA ReceiveListHolds ==
  ASSUME WorkbenchInv, NEW k \in Calls, ReceiveList(k) PROVE WorkbenchInv'
  <1>1. call[k] \in Loads  BY CallByKind DEF WorkbenchInv, PageOK, ReceiveList, At
  <1>2. items' \subseteq WasRows  BY <1>1 DEF ReceiveList, Loads
  <1> QED  BY <1>2, DialogsAfter, CallDropped, BrowserStays DEF ReceiveList

LEMMA ReceiveWrittenHolds ==
  ASSUME WorkbenchInv, NEW k \in Calls, ReceiveWritten(k) PROVE WorkbenchInv'
  BY StartLoadCall, BrowserStays DEF WorkbenchInv, PageOK, ReceiveWritten, dialogs

LEMMA ReceiveRefusalHolds ==
  ASSUME WorkbenchInv, NEW k \in Calls, ReceiveRefusal(k) PROVE WorkbenchInv'
  BY CallDropped, BrowserStays DEF WorkbenchInv, PageOK, ReceiveRefusal, dialogs

LEMMA LoseLoadHolds ==
  ASSUME WorkbenchInv, NEW k \in Calls, LoseLoad(k) PROVE WorkbenchInv'
  <1>1. items' \subseteq WasRows  BY DEF LoseLoad, WorkbenchInv, PageOK
  <1> QED  BY <1>1, DialogsAfter, CallDropped, BrowserStays DEF LoseLoad

LEMMA LoseWriteHolds ==
  ASSUME WorkbenchInv, NEW k \in Calls, LoseWrite(k) PROVE WorkbenchInv'
  <1>1. call[k] \in Moves \cup Creates
        BY CallByKind DEF WorkbenchInv, PageOK, LoseWrite
  <1>2. [call[k] EXCEPT !.phase = "abandoned"] \in Moves \cup Creates
    <2>1. CASE call[k] \in Creates  BY <2>1 DEF Creates
    <2>2. CASE call[k] \in Moves
      <3> DEFINE m == [call[k] EXCEPT !.phase = "abandoned"]
      <3>1. /\ m \in [kind : {"move"}, phase : {"sent", "answered", "abandoned"},
                      item : WasRows, target : AnyStatus, result : Results]
            /\ m.item = call[k].item /\ m.target = call[k].target
            /\ m.result = call[k].result
            BY <2>2 DEF Moves
      <3>2. IsOffered(call[k]) /\ (call[k].result = "invalid_transition" => IsExplained(call[k]))
            BY <2>2 DEF Moves
      <3> HIDE DEF m
      <3>3. m \in Moves  BY <3>1, <3>2 DEF Moves, IsOffered, IsExplained
      <3> QED  BY <3>3 DEF m
    <2> QED  BY <1>1, <2>1, <2>2
  <1>3. call' \in [Calls -> CallStates]
        BY <1>2, CallDropped DEF LoseWrite, Put, WorkbenchInv, PageOK, CallStates
  <1> QED  BY <1>3, BrowserStays DEF WorkbenchInv, PageOK, LoseWrite, dialogs

LEMMA NextHolds == WorkbenchInv /\ [Next]_vars => WorkbenchInv'
  <1> SUFFICES ASSUME WorkbenchInv, [Next]_vars PROVE WorkbenchInv'  OBVIOUS
  <1>1. CASE UNCHANGED vars
        BY <1>1, BrowserStays DEF WorkbenchInv, PageOK, vars
  <1>2. CASE Press
        BY <1>2, LoadPageHolds, ConfirmTransitionHolds, CreateDemoHolds,
           OpenTransitionHolds, DialogButtonsHold DEF Press
  <1>3. ASSUME NEW k \in Calls, Serve(k) \/ Receive(k) \/ LoseLoad(k) \/ LoseWrite(k)
        PROVE  WorkbenchInv'
        BY <1>3, AnswerListHolds, AcceptMoveHolds, RefuseEdgeHolds, RefuseHolds,
           AcceptCreateHolds, ReceiveListHolds, ReceiveWrittenHolds, ReceiveRefusalHolds,
           LoseLoadHolds, LoseWriteHolds DEF Serve, Receive
  <1> QED  BY <1>1, <1>2, <1>3, OthersHold DEF Next

LEMMA WorkbenchInvHolds == Spec => []WorkbenchInv
  BY InitHolds, NextHolds, PTL DEF Spec

-------------------------------------------------------------------------------
\* On every page the variables keep their types, rows keep within their bound,
\* and no two dialogs are open (entity-page.component.ts).
THEOREM WorkbenchTypeCorrect == Spec => []TypeOK
  <1>1. WorkbenchInv => TypeOK
    <2> SUFFICES ASSUME WorkbenchInv PROVE TypeOK  OBVIOUS
    <2>1. ASSUME NEW c \in Records
          PROVE  /\ rows[c].life \in {"absent", "live", "deleted"}
                 /\ rows[c].status \in Statuses(c) \cup {""}
                 /\ rows[c].version \in 0..MaxVersion[c]
      <3>1. rows[c].version \in Nat /\ rows[c].version <= MaxVersion[c] /\ MaxVersion[c] \in Nat
            BY BoundsAssumption DEF WorkbenchInv, RowsOK
      <3>2. rows[c].version \in 0..MaxVersion[c]  BY <3>1
      <3> QED  BY <3>2 DEF WorkbenchInv, RowsOK
    <2>2. items \in SUBSET [code : Records, status : AnyStatus, version : Nat]
          BY DEF WorkbenchInv, PageOK, WasRows
    <2>3. \A k \in Calls : call[k] # NoCall => call[k].kind \in {"load", "move", "create"}
          BY CallByKind DEF WorkbenchInv, PageOK
    <2> QED  BY <2>1, <2>2, <2>3 DEF WorkbenchInv, PageOK, TypeOK
  <1> QED  BY <1>1, WorkbenchInvHolds, PTL

\* However late and reordered the answers the page has got, what it shows and
\* sends are versions the rows have had (stores/factory.ts).
THEOREM SnapshotsWereOnceRows == Spec => []SnapshotsWereRows
  <1>1. WorkbenchInv => SnapshotsWereRows
    <2> SUFFICES ASSUME WorkbenchInv PROVE Snapshots \subseteq WasRows
        BY DEF SnapshotsWereRows, WasRows
    <2>1. pending # NoDialog => pending.item \in WasRows
          BY DEF WorkbenchInv, PageOK, Dialogs
    <2>2. ASSUME NEW k \in Calls, call[k] # NoCall
          PROVE  /\ call[k].kind = "move" => call[k].item \in WasRows
                 /\ call[k].kind = "load" => call[k].answer \subseteq WasRows
          BY <2>2, CallByKind DEF WorkbenchInv, PageOK, Moves, Loads
    <2>3. ASSUME NEW k \in Calls
          PROVE  (IF call[k] = NoCall THEN {}
                  ELSE IF call[k].kind = "move" THEN {call[k].item}
                  ELSE IF call[k].kind = "load" THEN call[k].answer ELSE {}) \subseteq WasRows
          BY <2>2
    <2> QED  BY <2>1, <2>3 DEF Snapshots, WorkbenchInv, PageOK
  <1> QED  BY <1>1, WorkbenchInvHolds, PTL

\* The two edges by which types/status.ts differs from constants/status.go are
\* the only moves of an up-to-date page that the server has no edge for: run
\* drifted_graph shows that they are offered, this that there are no others.
THEOREM RefusalsAreExplained == Spec => []OnlyDriftIsRefused
  <1>1. WorkbenchInv => OnlyDriftIsRefused
    <2> SUFFICES ASSUME WorkbenchInv, NEW k \in Calls, At(k, "move", "answered"),
                        call[k].result = "invalid_transition"
                 PROVE  IsExplained(call[k])
        BY DEF OnlyDriftIsRefused, IsExplained
    <2>1. call[k] \in Moves  BY CallByKind DEF WorkbenchInv, PageOK, At
    <2> QED  BY <2>1 DEF Moves
  <1> QED  BY <1>1, WorkbenchInvHolds, PTL

\* A step that writes a row and ends a waiting move is that move's acceptance.
LEMMA MoveIsAccepted ==
  ASSUME WorkbenchInv, Next, NEW k \in Calls, Waiting(k, "move"),
         call'[k] # call[k], rows' # rows
  PROVE  AcceptMove(k)
  <1>1. call \in [Calls -> CallStates]  BY DEF WorkbenchInv, PageOK
  <1>2. ~Press
        BY DEF Press, LoadPage, ConfirmTransition, CreateDemo, OpenTransition,
               CloseTransition, OpenCreate, CloseCreate
  <1>3. ~OthersWork  BY DEF OthersWork
  <1>4. PICK l \in Calls : Serve(l) \/ Receive(l) \/ LoseLoad(l) \/ LoseWrite(l)
        BY <1>2, <1>3 DEF Next
  <1>5. AcceptMove(l) \/ AcceptCreate(l)
        BY <1>4 DEF Serve, Receive, AnswerList, RefuseEdge, Refuse, ReceiveList, ReceiveWritten,
                    ReceiveRefusal, LoseLoad, LoseWrite
  <1>6. l = k
        BY <1>1, <1>5 DEF AcceptMove, AcceptCreate, Reply, Put
  <1>7. ~AcceptCreate(k)  BY DEF AcceptCreate, Waiting, At
  <1> QED  BY <1>5, <1>6, <1>7

\* However often a button is pressed and however many answers are lost, a move
\* is carried out on the very row its dialog showed, and never a second time.
THEOREM ConfirmedMovesOnly == Spec => MovesAreAsConfirmed
  <1> DEFINE AsConfirmed ==
        \A k \in Calls : Waiting(k, "move") /\ call'[k] # call[k] /\ rows' # rows =>
          LET item == call[k].item
          IN /\ Item(item.code) = item
             /\ rows'[item.code].status = call[k].target
             /\ <<item.status, call[k].target>> \in Offered(item.code)
  <1>1. ASSUME WorkbenchInv, Next PROVE AsConfirmed
    <2> SUFFICES ASSUME NEW k \in Calls, Waiting(k, "move"), call'[k] # call[k], rows' # rows
                 PROVE  /\ Item(call[k].item.code) = call[k].item
                        /\ rows'[call[k].item.code].status = call[k].target
                        /\ <<call[k].item.status, call[k].target>> \in Offered(call[k].item.code)
        OBVIOUS
    <2>1. AcceptMove(k)  BY <1>1, MoveIsAccepted
    <2>2. call[k] \in Moves
          BY <1>1, CallByKind DEF WorkbenchInv, PageOK, Waiting, At
    <2>3. call[k].item \in WasRows /\ IsOffered(call[k])  BY <2>2 DEF Moves
    <2>4. Item(call[k].item.code) = call[k].item
          BY <2>1, <2>3 DEF AcceptMove, WasRows, Item
    <2>5. rows'[call[k].item.code].status = call[k].target
          BY <1>1, <2>1, <2>3 DEF AcceptMove, Save, WasRows, WorkbenchInv, RowsOK
    <2> QED  BY <2>3, <2>4, <2>5 DEF IsOffered
  <1>2. WorkbenchInv /\ [Next]_vars => [AsConfirmed]_vars  BY <1>1 DEF vars
  <1> QED  BY <1>2, WorkbenchInvHolds, PTL DEF Spec, MovesAreAsConfirmed

-------------------------------------------------------------------------------
\* A move the server accepts from the page is a write as other people's are.
LEMMA MoveWrites ==
  ASSUME WorkbenchInv, NEW k \in Calls, AcceptMove(k)
  PROVE  \E c \in Records : Written(c)
  <1>1. call[k] \in Moves  BY CallByKind DEF WorkbenchInv, PageOK, AcceptMove, Waiting, At
  <1> DEFINE c == call[k].item.code
  <1>2. c \in Records  BY <1>1 DEF Moves, WasRows
  <1>3. call[k].target \in Statuses(c)  BY <1>2, GraphTargets DEF AcceptMove, CanTransition
  <1> QED  BY <1>2, <1>3 DEF Written, AcceptMove

\* The page is a client like any other: with its own calls among them, nothing
\* happens to the rows but the writes and deletions of the server, which is what
\* Compliance is shown to keep to (FeedsThePage).
THEOREM PageKeepsToTheTable == Spec => ServersTable
  <1>1. Init => Begin  BY DEF Init
  <1>2. WorkbenchInv /\ [Next]_vars => [\E c \in Records : Written(c) \/ Deleted(c)]_rows
    <2> SUFFICES ASSUME WorkbenchInv, [Next]_vars, rows' # rows
                 PROVE  \E c \in Records : Written(c) \/ Deleted(c)
        OBVIOUS
    <2>1. Next  BY DEF vars
    <2>2. ~Press
          BY DEF Press, LoadPage, ConfirmTransition, CreateDemo, OpenTransition,
                 CloseTransition, OpenCreate, CloseCreate
    <2>3. CASE OthersWork  BY <2>3 DEF OthersWork
    <2>4. ASSUME NEW k \in Calls, Serve(k) \/ Receive(k) \/ LoseLoad(k) \/ LoseWrite(k)
          PROVE  AcceptMove(k) \/ AcceptCreate(k)
          BY <2>4 DEF Serve, Receive, AnswerList, RefuseEdge, Refuse, ReceiveList, ReceiveWritten,
                      ReceiveRefusal, LoseLoad, LoseWrite
    <2>5. ASSUME NEW k \in Calls, AcceptCreate(k) PROVE \E c \in Records : Written(c)
          BY <2>5 DEF AcceptCreate, Written
    <2> QED  BY <2>1, <2>2, <2>3, <2>4, <2>5, MoveWrites DEF Next
  <1> QED  BY <1>1, <1>2, WorkbenchInvHolds, PTL DEF Spec, ServersTable
===============================================================================
