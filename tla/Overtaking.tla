------------------------------ MODULE Overtaking ------------------------------
(***************************************************************************)
(* What the checks of a handler are worth when requests overlap.           *)
(*                                                                         *)
(* The handlers read before they write: what a rule was checked against    *)
(* may change before the transaction that acts on it.  A history variable  *)
(* records, for every request, which of the records it has looked at were  *)
(* written since; the rules of the services then hold at every commit but  *)
(* for the records the request was overtaken on.  The variable is read by  *)
(* no action: Compliance takes the same steps with it as without it.       *)
(***************************************************************************)
EXTENDS ComplianceProperties, Functions

VARIABLE overtaken  \* overtaken[q]: the records request q has looked at and
                    \* another request has written since

OvertakingVars == <<table, history, req, now, overtaken>>

\* From the first read to the transaction.
Deciding == {"generator", "carrier", "manifest", "commit"}

\* The records request r has looked at when it reaches its phase.  The links of
\* a move that looks none up are counted too: nothing is said of them.
LookedAt(r) ==
    {r.code} \cup (IF r.phase = "carrier" THEN {r.current.links[1]} ELSE {})
             \cup (IF r.phase = "commit" THEN Range(r.current.links) ELSE {})

Overtake ==
    overtaken' = [q \in Requests |->
        IF {req[q].phase, req'[q].phase} \subseteq Deciding
          THEN overtaken[q] \cup { c \in LookedAt(req[q]) : table'[c] # table[c] }
          ELSE {}]

OvertakingInit == Init /\ overtaken = [q \in Requests |-> {}]

OvertakingNext == Next /\ Overtake

OvertakingSpec == OvertakingInit /\ [][OvertakingNext]_OvertakingVars

-------------------------------------------------------------------------------
(* The rules at the commit.                                                *)

\* A manifest is submitted or dispatched with an active generator and a verified
\* carrier, whose permits outlast the arrival of the request, except for a
\* party that was written between its lookup (validateLinkedParties) and the
\* transaction.  The excuse is one party's: the other is in order still.
DispatchHoldsUnlessOvertaken ==
    \A q \in Requests :
        Moves(q, {"submitted", "in_transit"}) =>
            /\ GeneratorInOrder(req[q]) \/ req[q].current.links[1] \in overtaken[q]
            /\ CarrierInOrder(req[q]) \/ req[q].current.links[2] \in overtaken[q]

\* A check passes on a manifest that is submitted, in transit or received, unless
\* the manifest was written between its lookup and the transaction
\* (ComplianceCheckService.Transition).
PassHoldsUnlessOvertaken ==
    \A q \in Requests :
        Moves(q, {"pass"}) =>
            ManifestUnderWay(req[q]) \/ req[q].current.links[1] \in overtaken[q]

\* A deletion meets a live record that is still open (a draft, a pending check) and
\* its audit entry names the status the record is in, unless the record was
\* written between the read and the DELETE, which compares nothing
\* (the Delete of the services, deleteRecord in repository/base.go).
RemovalsHoldUnlessOvertaken ==
    \A q \in Requests :
        At(q, "commit") /\ req[q].op = "delete" =>
            LET c == req[q].code
            IN \/ Exists(c) /\ Open(c, table[c].status) /\ req[q].before = table[c].status
               \/ c \in overtaken[q]

\* The commit of request q changes record c and q was overtaken on a record of S.
OvertakenOn(q, c, S) ==
    /\ At(q, "commit") /\ req'[q] # req[q] /\ req[q].code = c
    /\ overtaken[q] \cap S # {}

\* A check may fail, or stay pending, while its manifest is a draft, and the draft
\* may be deleted.  From then on the check is stuck: one that is pending can be
\* edited or deleted but not decided, and one that was decided cannot be
\* escalated, edited or deleted (ComplianceCheckService.Transition looks the
\* manifest up for every move).  The only way out is a request that looked the
\* manifest up before the deletion, or read the check while it was pending.
OrphansAreStuckUnlessOvertaken ==
    [][\A k \in Checks :
          Exists(k) /\ ~Exists(table[k].links[1]) /\ table'[k] # table[k] =>
            \/ Open(k, table[k].status) /\ table'[k].status = table[k].status
            \/ \E q \in Requests : OvertakenOn(q, k, {k, table[k].links[1]})]_OvertakingVars

\* A removal that RecordLifecycle does not know, by a request overtaken on c.
OvertakenRemoval(c) ==
    /\ \E s \in Statuses(c) : Lifecycle!RemoveLate(c, s)
    /\ \E q \in Requests : req[q].op = "delete" /\ OvertakenOn(q, c, {c})

\* Every step is one of the record's promised life (RecordLifecycle) or the removal
\* of a record by a request that was overtaken on it.
KeepsPromiseUnlessOvertaken ==
    [][\E c \in Records : Lifecycle!Act(c) \/ OvertakenRemoval(c)]_(Lifecycle!lifecycleVars)
===============================================================================
