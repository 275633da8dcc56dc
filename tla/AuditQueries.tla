----------------------------- MODULE AuditQueries -----------------------------
(***************************************************************************)
(* What the audit endpoints read while the handlers of Compliance write.   *)
(*                                                                         *)
(* An audit entry carries the time newAuditLog was called at, which is     *)
(* before its transaction: entries may be inserted in another order than   *)
(* their times.  EntityHistory sorts by that time, and AuditSummary counts *)
(* the log in several queries without a snapshot.                          *)
(*                                                                         *)
(* Time is counted in entries: the clock is the number of rows of the      *)
(* audit log, and two times between the same two inserts are one time.     *)
(* This is what a real clock shows of the log if it does not run backwards *)
(* and is fine enough to tell two writes of one record apart.              *)
(***************************************************************************)
EXTENDS ComplianceProperties

VARIABLES
    stamp,    \* stamp[q]: CreatedAt of the entry request q is about to insert
    created,  \* created[c][i]: CreatedAt of the entry history[c][i]
    logged,   \* the number of rows of the audit log, which is also the clock
    summary   \* the request for a summary of the log that is being answered

logVars == <<stamp, created, logged>>

AuditVars == <<table, history, req, now, stamp, created, logged, summary>>

-------------------------------------------------------------------------------
(* The writers.                                                            *)

\* newAuditLog is called after the last lookup, just before the transaction.
StampEntry(q) ==
    /\ stamp' = [stamp EXCEPT ![q] = IF req'[q].phase = "commit" THEN logged ELSE 0]
    /\ UNCHANGED <<created, logged>>

\* The entry is inserted with the time it was made at, if it is inserted.
InsertEntry(q) ==
    /\ stamp' = [stamp EXCEPT ![q] = 0]
    /\ IF history' = history
         THEN UNCHANGED <<created, logged>>
         ELSE /\ created' = [created EXCEPT ![req[q].code] = Append(@, stamp[q])]
              /\ logged' = logged + 1

-------------------------------------------------------------------------------
(* The readers.  EntityHistory is one query; the summary is one per part.  *)

\* The places in the log of record c of the entries EntityHistory lists: the
\* limit newest by CreatedAt.
EntityHistory(c, limit) ==
    { i \in DOMAIN history[c] :
        Cardinality({ j \in DOMAIN history[c] : created[c][j] > created[c][i] }) < limit }

Actions == {"create", "update", "transition", "delete"}

EntityType(c) == CASE c \in Generators -> "WasteGenerator"
                   [] c \in Carriers   -> "CarrierProfile"
                   [] c \in Manifests  -> "TransferManifest"
                   [] OTHER            -> "ComplianceCheck"

EntityTypes == {"WasteGenerator", "CarrierProfile", "TransferManifest", "ComplianceCheck"}

NoSummary == [query |-> "none", since |-> 0, total |-> 0, transitions |-> 0,
              actions |-> [a \in Actions |-> 0], types |-> [t \in EntityTypes |-> 0]]

\* The rows WHERE created_at >= since.
Since(since) ==
    UNION { {c} \X { i \in DOMAIN history[c] : created[c][i] >= since } : c \in Records }

Action(e) == history[e[1]][e[2]].action

\* The window reaches back from the present to any time: an hour or more may
\* have passed with no entry, or all of the log may fall inside it.
AuditSummary ==
    /\ summary.query = "none"
    /\ \E since \in 0..logged :
          summary' = [NoSummary EXCEPT !.query = "total", !.since = since]

CountTotal ==
    /\ summary.query = "total"
    /\ summary' = [summary EXCEPT !.total = Cardinality(Since(summary.since)),
                                  !.query = "transitions"]

CountTransitions ==
    /\ summary.query = "transitions"
    /\ LET rows == { e \in Since(summary.since) : Action(e) = "transition" }
       IN summary' = [summary EXCEPT !.transitions = Cardinality(rows), !.query = "actions"]

CountActions ==
    /\ summary.query = "actions"
    /\ LET rows(a) == { e \in Since(summary.since) : Action(e) = a }
       IN summary' = [summary EXCEPT !.actions = [a \in Actions |-> Cardinality(rows(a))],
                                     !.query = "types"]

\* Mutant: the last query counts from the present.
CountTypesFromNow ==
    /\ summary.query = "types"
    /\ LET rows(t) == { e \in Since(logged) : EntityType(e[1]) = t }
       IN summary' = [summary EXCEPT !.types = [t \in EntityTypes |-> Cardinality(rows(t))],
                                     !.query = "answer"]

CountTypes ==
    /\ summary.query = "types"
    /\ LET rows(t) == { e \in Since(summary.since) : EntityType(e[1]) = t }
       IN summary' = [summary EXCEPT !.types = [t \in EntityTypes |-> Cardinality(rows(t))],
                                     !.query = "answer"]

\* The answer is sent, or a query fails and an error is sent instead.
EndSummary == summary.query # "none" /\ summary' = NoSummary

-------------------------------------------------------------------------------
AuditInit ==
    /\ Init
    /\ stamp = [q \in Requests |-> 0]
    /\ created = [c \in Records |-> <<>>]
    /\ logged = 0
    /\ summary = NoSummary

Serve(q) == \/ (Receive(q) \/ Find(q) \/ Answer(q) \/ Abandon(q)) /\ StampEntry(q)
            \/ Commit(q) /\ InsertEntry(q)

Summarize == AuditSummary \/ CountTotal \/ CountTransitions \/ CountActions
               \/ CountTypes \/ EndSummary

AuditNext == \/ \E q \in Requests : Serve(q) /\ UNCHANGED summary
             \/ Tick /\ UNCHANGED <<logVars, summary>>
             \/ Summarize /\ UNCHANGED <<vars, logVars>>

AuditSpec == AuditInit /\ [][AuditNext]_AuditVars

-------------------------------------------------------------------------------
(* Properties.                                                             *)

\* The history of a record that has not been deleted lists its last entries,
\* newest first, although the times of entries are taken outside the
\* transactions: the optimistic lock refuses every entry that was stamped
\* before another one of its record was inserted.  Only a deletion, which
\* compares no version, may be listed below entries older than itself.
HistoryListsTheLastEntries ==
    \A c \in Records : Exists(c) =>
        \A limit \in 1..Len(history[c]) :
            EntityHistory(c, limit) = (Len(history[c]) - limit + 1)..Len(history[c])

SumOfActions(counts) ==
    counts["create"] + counts["update"] + counts["transition"] + counts["delete"]

SumOfTypes(counts) == counts["WasteGenerator"] + counts["CarrierProfile"]
                        + counts["TransferManifest"] + counts["ComplianceCheck"]

\* The parts of a summary are counted at different moments, but the log only
\* grows and the window is fixed: a part counted later never falls short of
\* one counted earlier.
SummaryPartsOnlyGrow ==
    /\ summary.query \in {"types", "answer"} =>
         /\ summary.total <= SumOfActions(summary.actions)
         /\ summary.transitions <= summary.actions["transition"]
    /\ summary.query = "answer" =>
         SumOfActions(summary.actions) <= SumOfTypes(summary.types)
===============================================================================
