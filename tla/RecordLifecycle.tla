--------------------------- MODULE RecordLifecycle ----------------------------
(***************************************************************************)
(* What the API promises about one record, whoever else is at work: a row  *)
(* is created once in its initial status, edited only while it is open,    *)
(* moved only along its status graph, removed for good, and each of these  *)
(* happens at once together with the one audit entry that describes it.    *)
(* There are no requests here, no reads before writes and no versions to   *)
(* compare: Compliance is shown to implement this specification.           *)
(***************************************************************************)
EXTENDS Naturals, Sequences, StatusGraphs

CONSTANT Seed   \* Seed[c]: the record when the server starts serving

VARIABLES
    record,  \* record[c]: life, status and version of record c
    trail    \* trail[c]: its audit entries, oldest first

lifecycleVars == <<record, trail>>

Live(c) == record[c].life = "live"

Log(c, action, before, after) ==
    trail' = [trail EXCEPT
                ![c] = Append(@, [action |-> action, before |-> before, after |-> after])]

Begin == /\ record = Seed
         /\ trail = [c \in Records |-> <<>>]

Becomes(c, life, status, version) ==
    record' = [record EXCEPT ![c] = [life |-> life, status |-> status, version |-> version]]

Create(c) ==
    /\ Log(c, "create", "", InitialStatus(c))
    /\ record[c].life = "absent"
    /\ Becomes(c, "live", InitialStatus(c), 1)

Edit(c) ==
    /\ Log(c, "update", record[c].status, record[c].status)
    /\ Live(c)
    /\ Open(c, record[c].status)
    /\ Becomes(c, "live", record[c].status, record[c].version + 1)

Move(c, to) ==
    /\ Log(c, "transition", record[c].status, to)
    /\ Live(c)
    /\ CanTransition(Graph(c), record[c].status, to)
    /\ Becomes(c, "live", to, record[c].version + 1)

Remove(c) ==
    /\ Log(c, "delete", record[c].status, "deleted")
    /\ Live(c)
    /\ Open(c, record[c].status)
    /\ Becomes(c, "deleted", record[c].status, record[c].version)

\* A removal decided earlier, by a status the record may have left since: the
\* record goes whatever its status is now, the entry names the earlier one.
RemoveLate(c, before) ==
    /\ Log(c, "delete", before, "deleted")
    /\ Live(c)
    /\ Open(c, before)
    /\ Becomes(c, "deleted", record[c].status, record[c].version)

Act(c) == Create(c) \/ Edit(c) \/ (\E to \in Statuses(c) : Move(c, to)) \/ Remove(c)

\* What requests that overlap keep of this life: all of it but the timing of
\* removals.
OverlappingPromise ==
    Begin /\ [][\E c \in Records : Act(c) \/ \E s \in Statuses(c) : RemoveLate(c, s)]_lifecycleVars
===============================================================================
