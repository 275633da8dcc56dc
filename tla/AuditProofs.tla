------------------------------ MODULE AuditProofs ------------------------------
(***************************************************************************)
(* The optimistic lock also orders the times of the audit entries, for     *)
(* every set of records, requests, seeds and bounds.                       *)
(***************************************************************************)
EXTENDS AuditQueries, ComplianceProofs, FiniteSetTheorems

-------------------------------------------------------------------------------
(* The invariant.                                                          *)

LogTyped ==
    /\ logged \in Nat
    /\ stamp \in [Requests -> Nat]
    /\ DOMAIN created = Records
    /\ \A c \in Records : created[c] \in Seq(Nat) /\ Len(created[c]) = Len(history[c])

\* No entry is from the future, neither one inserted nor one only stamped.
Past ==
    /\ \A q \in Requests : stamp[q] <= logged
    /\ \A c \in Records : \A i \in 1..Len(created[c]) : created[c][i] < logged

AbsentUnlogged == \A c \in Records : table[c].life = "absent" => created[c] = <<>>

\* A write that the lock would let through was stamped after every entry its
\* record has.
Later(q) ==
    At(q, "commit") /\ req[q].op \in {"update", "transition"} /\ VersionMatches(req[q])
        => \A i \in 1..Len(created[req[q].code]) : created[req[q].code][i] < stamp[q]

AllLater == \A q \in Requests : Later(q)

Rising(c) ==
    Exists(c) => \A i, j \in 1..Len(created[c]) : i < j => created[c][i] < created[c][j]

AllRising == \A c \in Records : Rising(c)

Kept == LogTyped /\ Past /\ AbsentUnlogged /\ AllLater /\ AllRising

-------------------------------------------------------------------------------
(* Steps that write nothing.                                               *)

Reads(q) == Receive(q) \/ Find(q) \/ Answer(q) \/ Abandon(q)

LEMMA ReadsWriteNothing ==
    ASSUME Inv, NEW q \in Requests, Reads(q)
    PROVE  /\ UNCHANGED <<table, history>>
           /\ \A p \in Requests : p # q => req'[p] = req[p]
<1>1. CASE Receive(q)
  <2>1. Starts(q)
    BY <1>1, ReceiveStarts DEF Inv
  <2>2. QED
    BY <2>1 DEF Starts, Inv, TypeOK, RequestsOK
<1>2. CASE Find(q)
  <2>1. /\ UNCHANGED <<table, history>>
        /\ Finish(q) \/ \E phase \in Phases : Advance(q, phase)
    BY <1>2 DEF Find, FindGenerator, FindCarrier, FindManifest, At, Phases
  <2>2. QED
    BY <2>1, OtherRequestUnmoved
<1>3. CASE Answer(q) \/ Abandon(q)
  BY <1>3, OtherRequestUnmoved DEF Answer, Abandon
<1>4. QED
  BY <1>1, <1>2, <1>3 DEF Reads

\* A request is stamped when it comes to its transaction, with a time no
\* entry has yet.
LEMMA ReadsKeep ==
    ASSUME Inv, Kept, NEW q \in Requests, Reads(q), StampEntry(q)
    PROVE  Kept'
<1>1. /\ UNCHANGED <<table, history, created, logged>>
      /\ \A p \in Requests : p # q => req'[p] = req[p]
  BY ReadsWriteNothing DEF StampEntry
<1>2. /\ stamp' \in [Requests -> Nat]
      /\ \A p \in Requests : p # q => stamp'[p] = stamp[p]
      /\ stamp'[q] = IF req'[q].phase = "commit" THEN logged ELSE 0
  BY DEF StampEntry, Kept, LogTyped
<1>3. LogTyped' /\ Past' /\ AbsentUnlogged'
  BY <1>1, <1>2 DEF Kept, LogTyped, Past, AbsentUnlogged
<1>4. AllRising'
  BY <1>1 DEF Kept, AllRising, Rising, Exists
<1>5. ASSUME NEW p \in Requests
      PROVE  Later(p)'
  <2>1. CASE p # q
    BY <1>1, <1>2, <2>1 DEF Kept, AllLater, Later, At, VersionMatches, Exists
  <2>2. CASE p = q
    <3>1. SUFFICES ASSUME req'[q].phase = "commit",
                          req'[q].op \in {"update", "transition"}
                   PROVE  \A i \in 1..Len(created[req'[q].code]) :
                              created[req'[q].code][i] < stamp'[q]
      BY <1>1, <2>2 DEF Later, At
    <3>2. req'[q].code \in Records
      <4>1. RequestsOK'
        BY InvNext DEF Inv, TypeOK, Next, Reads, Handle
      <4>2. ~At(q, "idle")'
        BY <3>1 DEF At
      <4>3. PICK c \in Records : req'[q] \in InFlight(c)
        BY <4>1, <4>2 DEF RequestsOK, At, Idle
      <4>4. QED
        BY <4>3 DEF InFlight, Changing, Deleting
    <3>3. stamp'[q] = logged
      BY <1>2, <3>1
    <3>4. QED
      BY <3>2, <3>3 DEF Kept, Past
  <2>3. QED
    BY <2>1, <2>2
<1>6. QED
  BY <1>3, <1>4, <1>5 DEF Kept, AllLater

-------------------------------------------------------------------------------
(* Commits.                                                                *)

LEMMA TimesAppended ==
    ASSUME NEW s \in Seq(Nat), NEW t \in Nat
    PROVE  /\ Append(s, t) \in Seq(Nat) /\ Len(Append(s, t)) = Len(s) + 1
           /\ \A i \in 1..Len(s) : Append(s, t)[i] = s[i]
           /\ Append(s, t)[Len(s) + 1] = t
OBVIOUS

\* An inserted entry comes last in the log of its record.
LEMMA InsertsAppend ==
    ASSUME Inv, NEW c \in Records, NEW r, Inserts(c, r)
    PROVE  /\ \A d \in Records : d # c => history'[d] = history[d]
           /\ Len(history[c]) \in Nat /\ Len(history'[c]) = Len(history[c]) + 1
           /\ DOMAIN history[c] = 1..Len(history[c])
           /\ DOMAIN history'[c] = 1..(Len(history[c]) + 1)
           /\ \A i \in DOMAIN history[c] : history'[c][i] = history[c][i]
           /\ history' # history
<1>1. PICK e \in AuditLogs : history' = [history EXCEPT ![c] = Append(@, e)]
  BY DEF Inserts
<1>2. history[c] \in Seq(AuditLogs) /\ history'[c] = Append(history[c], e)
  BY <1>1 DEF Inv, TypeOK, TablesOK
<1>3. \A d \in Records : d # c => history'[d] = history[d]
  BY <1>1 DEF Inv, TypeOK, TablesOK
<1>4. /\ Len(history[c]) \in Nat /\ Len(history'[c]) = Len(history[c]) + 1
      /\ DOMAIN history[c] = 1..Len(history[c])
      /\ DOMAIN history'[c] = 1..(Len(history[c]) + 1)
      /\ \A i \in DOMAIN history[c] : history'[c][i] = history[c][i]
  BY <1>2, Appended
<1>5. history' # history
  BY <1>4
<1>6. QED
  BY <1>3, <1>4, <1>5

LEMMA LogTypedRead ==
    ASSUME LogTyped, UNCHANGED history, UNCHANGED <<created, logged>>,
           stamp' \in [Requests -> Nat]
    PROVE  LogTyped'
BY DEF LogTyped

LEMMA LogTypedInsert ==
    ASSUME Inv, LogTyped, NEW q \in Requests, InsertEntry(q),
           NEW c \in Records, c = req[q].code, Inserts(c, req[q])
    PROVE  LogTyped'
<1>1. /\ DOMAIN created' = Records
      /\ \A d \in Records : d # c => created'[d] = created[d]
      /\ created'[c] = Append(created[c], stamp[q])
      /\ logged' = logged + 1 /\ stamp' \in [Requests -> Nat]
  BY InsertsAppend DEF InsertEntry, LogTyped
<1>2. created'[c] \in Seq(Nat) /\ Len(created'[c]) = Len(created[c]) + 1
  BY <1>1, TimesAppended DEF LogTyped
<1>3. ASSUME NEW d \in Records
      PROVE  created'[d] \in Seq(Nat) /\ Len(created'[d]) = Len(history'[d])
  BY <1>1, <1>2, InsertsAppend DEF LogTyped
<1>4. QED
  BY <1>1, <1>3 DEF LogTyped

\* A transaction that refuses or inserts nothing leaves the times alone.
LEMMA RefusalKeeps ==
    ASSUME Inv, Kept, NEW q \in Requests, Commit(q), InsertEntry(q),
           UNCHANGED <<table, history>>
    PROVE  Kept'
<1>1. /\ UNCHANGED <<created, logged>>
      /\ stamp' \in [Requests -> Nat] /\ stamp'[q] = 0
      /\ \A p \in Requests : p # q => stamp'[p] = stamp[p]
  BY DEF InsertEntry, Kept, LogTyped
<1>2. LogTyped' /\ Past' /\ AbsentUnlogged' /\ AllRising'
  BY <1>1 DEF Kept, LogTyped, Past, AbsentUnlogged, AllRising, Rising, Exists
<1>3. AllLater'
  BY <1>1, TransactionMoves
     DEF Kept, AllLater, Later, At, VersionMatches, Exists
<1>4. QED
  BY <1>2, <1>3 DEF Kept

\* A write inserts the newest entry of its record, and after it the lock
\* refuses every other write that was stamped before.
LEMMA InsertKeeps ==
    ASSUME Inv, Inv', ReadIsFresh, Kept, NEW q \in Requests, Commit(q), InsertEntry(q),
           NEW c \in Records, c = req[q].code, Inserts(c, req[q])
    PROVE  Kept'
<1> DEFINE r == req[q]
           n == Len(created[c])
<1>2. /\ DOMAIN created' = Records
      /\ \A d \in Records : d # c => created'[d] = created[d]
      /\ created'[c] = Append(created[c], stamp[q])
      /\ logged' = logged + 1
      /\ stamp' \in [Requests -> Nat] /\ stamp'[q] = 0
      /\ \A p \in Requests : p # q => stamp'[p] = stamp[p]
  BY InsertsAppend DEF InsertEntry, Kept, LogTyped
<1>3. /\ n \in Nat /\ created'[c] \in Seq(Nat) /\ Len(created'[c]) = n + 1
      /\ \A i \in 1..n : created'[c][i] = created[c][i]
      /\ created'[c][n + 1] = stamp[q]
  BY <1>2, TimesAppended DEF Kept, LogTyped
<1>4. LogTyped'
  BY LogTypedInsert DEF Kept
<1>5. Past'
  <2>1. ASSUME NEW p \in Requests
        PROVE  stamp'[p] <= logged'
    <3>1. CASE p = q
      BY <1>2, <3>1 DEF Kept, LogTyped
    <3>2. CASE p # q
      <4>1. stamp[p] \in Nat /\ stamp[p] <= logged /\ logged \in Nat
        BY DEF Kept, LogTyped, Past
      <4>2. QED
        BY <1>2, <3>2, <4>1
    <3>3. QED
      BY <3>1, <3>2
  <2>2. ASSUME NEW d \in Records, NEW i \in 1..Len(created'[d])
        PROVE  created'[d][i] < logged'
    <3>1. CASE d # c
      BY <1>2, <2>2, <3>1 DEF Kept, LogTyped, Past
    <3>2. CASE d = c /\ i = n + 1
      BY <1>2, <1>3, <3>2 DEF Kept, LogTyped, Past
    <3>3. CASE d = c /\ i # n + 1
      <4>1. i \in 1..n
        BY <1>3, <2>2, <3>3
      <4>2. created[c][i] \in Nat /\ created[c][i] < logged /\ logged \in Nat
        <5>1. created[c] \in Seq(Nat)
          BY DEF Kept, LogTyped
        <5>2. QED
          BY <4>1, <5>1 DEF Kept, LogTyped, Past
      <4>3. QED
        <5>1. created'[d][i] = created[c][i] /\ logged' = logged + 1
          BY <1>2, <1>3, <3>3, <4>1
        <5>2. QED
          BY <4>2, <5>1
    <3>4. QED
      BY <3>1, <3>2, <3>3
  <2>3. QED
    BY <2>1, <2>2 DEF Past
<1>6. AbsentUnlogged'
  <2>1. table'[c].life # "absent"
    <3>1. RowAdvances(c)
      BY CommitAdvances
    <3>2. CASE table[c].life = "absent"
      <4>1. ~VersionMatches(r)
        BY <3>2 DEF VersionMatches, Exists
      <4>2. QED
        BY <3>2, <4>1 DEF Inserts
    <3>3. QED
      BY <3>1, <3>2 DEF RowAdvances
  <2>2. QED
    BY <1>2, <2>1 DEF Kept, AbsentUnlogged, Inserts
<1>7. AllRising'
  <2>1. ASSUME NEW d \in Records, d # c
        PROVE  Rising(d)'
    <3>1. table'[d] = table[d]
      BY <2>1 DEF Inserts
    <3>2. created'[d] = created[d]
      BY <1>2, <2>1
    <3>3. QED
      BY <3>1, <3>2 DEF Kept, AllRising, Rising, Exists
  <2>2. Rising(c)'
    <3>1. SUFFICES ASSUME table'[c].life = "live",
                          NEW i \in 1..(n + 1), NEW j \in 1..(n + 1), i < j
                   PROVE  created'[c][i] < created'[c][j]
      <4>1. 1..Len(created'[c]) = 1..(n + 1)
        BY <1>3
      <4>2. Exists(c)' <=> table'[c].life = "live"
        BY DEF Exists
      <4> HIDE DEF n
      <4>3. QED
        BY <3>1, <4>1, <4>2, Zenon DEF Rising
    <3>2. i \in 1..n
      BY <1>3, <3>1
    <3>3. n # 0
      BY <1>3, <3>2
    <3>4. table[c].life # "absent"
      BY <3>3 DEF Kept, AbsentUnlogged
    <3>5. r.op \in {"update", "transition"} /\ VersionMatches(r)
      BY <3>1, <3>4 DEF Inserts
    <3>6. CASE j = n + 1
      <4>1. At(q, "commit")
        BY DEF Commit, CommitCreate, CommitUpdate, CommitDelete
      <4>2. created[c][i] < stamp[q]
        BY <3>2, <3>5, <4>1 DEF Kept, AllLater, Later
      <4>3. QED
        BY <1>3, <3>2, <3>6, <4>2
    <3>7. CASE j # n + 1
      <4>1. j \in 1..n
        BY <1>3, <3>1, <3>7
      <4>2. created[c][i] < created[c][j]
        BY <3>1, <3>2, <3>5, <4>1 DEF Kept, AllRising, Rising, VersionMatches
      <4>3. QED
        BY <1>3, <3>2, <4>1, <4>2
    <3>8. QED
      BY <3>6, <3>7
  <2>3. QED
    BY <2>1, <2>2 DEF AllRising
<1>8. ASSUME NEW p \in Requests
      PROVE  Later(p)'
  <2>1. CASE p = q
    BY <2>1, TransactionMoves DEF Later, At
  <2>2. CASE p # q
    <3>1. req'[p] = req[p] /\ stamp'[p] = stamp[p]
      BY <1>2, <2>2, TransactionMoves
    <3>2. SUFFICES ASSUME At(p, "commit"), req[p].op \in {"update", "transition"},
                          VersionMatches(req[p])'
                   PROVE  \A i \in 1..Len(created'[req[p].code]) :
                              created'[req[p].code][i] < stamp[p]
      BY <3>1 DEF Later, At
    <3>3. req[p].code \in Records /\ req[p] \in InFlight(req[p].code)
      BY <3>2, InFlightRequest DEF Inv, TypeOK, At
    <3>4. CASE req[p].code = c
      <4>1. /\ table[c].life # "absent" /\ req[p].expected <= table[c].version
        BY <3>2, <3>4 DEF ReadIsFresh, Fresh, Writing, At
      <4>2. table'[c].life = "live" /\ table'[c].version = req[p].expected
        BY <3>1, <3>2, <3>4 DEF VersionMatches, Exists
      <4>3. table'[c].version = table[c].version + 1
        BY <4>1, <4>2 DEF Inserts
      <4>4. table[c].version \in Nat
        BY VersionTyped DEF Inv, TypeOK, TablesOK
      <4>5. QED
        BY <4>1, <4>2, <4>3, <4>4
    <3>5. CASE req[p].code # c
      <4>1. VersionMatches(req[p])
        BY <3>1, <3>2, <3>3, <3>5 DEF Inserts, VersionMatches, Exists
      <4>2. QED
        BY <1>2, <3>2, <3>3, <3>5, <4>1 DEF Kept, AllLater, Later
    <3>6. QED
      BY <3>4, <3>5
  <2>3. QED
    BY <2>1, <2>2
<1>9. QED
  BY <1>4, <1>5, <1>6, <1>7, <1>8 DEF Kept, AllLater

-------------------------------------------------------------------------------
(* Every step.                                                             *)

LEMMA KeptInit == AuditInit => Kept
BY DEF AuditInit, Init, Kept, LogTyped, Past, AbsentUnlogged, AllLater, Later, At, Idle,
       AllRising, Rising

LEMMA AuditStepIsAStep == [AuditNext]_AuditVars => [Next]_vars
BY DEF AuditNext, AuditVars, vars, Serve, Summarize, Next, Handle

LEMMA KeptNext == Inv /\ Inv' /\ ReadIsFresh /\ Kept /\ [AuditNext]_AuditVars => Kept'
<1> SUFFICES ASSUME Inv, Inv', ReadIsFresh, Kept, [AuditNext]_AuditVars
             PROVE  Kept'
  OBVIOUS
<1>1. ASSUME NEW q \in Requests, Serve(q)
      PROVE  Kept'
  <2>1. CASE Reads(q) /\ StampEntry(q)
    BY <2>1, ReadsKeep
  <2>2. CASE Commit(q) /\ InsertEntry(q)
    BY <2>2, CommitInserts, TransactionMoves, RefusalKeeps, InsertKeeps
  <2>3. QED
    BY <1>1, <2>1, <2>2 DEF Serve, Reads
<1>2. CASE UNCHANGED <<table, history, req, logVars>>
  BY <1>2 DEF logVars, Kept, LogTyped, Past, AbsentUnlogged, AllLater, Later, At,
              VersionMatches, AllRising, Rising, Exists
<1>3. QED
  BY <1>1, <1>2 DEF AuditNext, AuditVars, vars, logVars, Tick

LEMMA AuditInvariance ==
    ASSUME Foresight = 0 PROVE AuditSpec => [](Inv /\ Kept)
<1>1. AuditSpec => Spec
  BY AuditStepIsAStep, PTL DEF AuditSpec, Spec, AuditInit
<1>2. Spec => [](Inv /\ ReadIsFresh)
  BY FreshInvariance
<1>3. QED
  BY <1>1, <1>2, KeptInit, KeptNext, PTL DEF AuditSpec

-------------------------------------------------------------------------------
(* What EntityHistory lists.                                               *)

\* In a rising sequence of n times, fewer than limit times come after the
\* i-th one exactly when i is among the last limit places.
LEMMA NewestAreLast ==
    ASSUME NEW n \in Nat, NEW t \in [1..n -> Nat], NEW limit \in 1..n,
           \A i, j \in 1..n : i < j => t[i] < t[j]
    PROVE  { i \in 1..n : Cardinality({ j \in 1..n : t[j] > t[i] }) < limit }
               = (n - limit + 1)..n
<1>1. ASSUME NEW i \in 1..n
      PROVE  Cardinality({ j \in 1..n : t[j] > t[i] }) = n - i
  <2>1. ASSUME NEW j \in 1..n
        PROVE  t[j] > t[i] <=> j > i
    <3>1. CASE j > i
      BY <3>1
    <3>2. CASE j = i
      BY <3>2
    <3>3. CASE j < i
      <4>1. t[j] < t[i] /\ t[j] \in Nat /\ t[i] \in Nat
        BY <3>3
      <4>2. QED
        BY <3>3, <4>1
    <3>4. QED
      BY <3>1, <3>2, <3>3
  <2>2. { j \in 1..n : t[j] > t[i] } = (i + 1)..n
    BY <2>1
  <2>3. Cardinality((i + 1)..n) = IF i + 1 > n THEN 0 ELSE n - (i + 1) + 1
    BY FS_Interval
  <2>4. Cardinality((i + 1)..n) = n - i
    BY <2>3
  <2>5. QED
    BY <2>2, <2>4, Zenon
<1>2. ASSUME NEW i \in 1..n
      PROVE  Cardinality({ j \in 1..n : t[j] > t[i] }) < limit <=> i \in (n - limit + 1)..n
  <2>1. n - i < limit <=> i \in (n - limit + 1)..n
    OBVIOUS
  <2>2. QED
    BY <1>1, <2>1, Zenon
<1>3. (n - limit + 1)..n \subseteq 1..n
  OBVIOUS
<1>4. QED
  BY <1>2, <1>3, Zenon

\* As long as clients send versions they were shown, the history of a record
\* that has not been deleted lists its last entries, newest first, although
\* newAuditLog takes the time of an entry before its transaction.
THEOREM HistoriesListTheLastEntries ==
    ASSUME Foresight = 0 PROVE AuditSpec => []HistoryListsTheLastEntries
<1>1. Inv /\ Kept => HistoryListsTheLastEntries
  <2>1. SUFFICES ASSUME Inv, Kept, NEW c \in Records, Exists(c),
                        NEW limit \in 1..Len(history[c])
                 PROVE  EntityHistory(c, limit)
                          = (Len(history[c]) - limit + 1)..Len(history[c])
    BY DEF HistoryListsTheLastEntries
  <2> DEFINE n == Len(created[c])
  <2>2. /\ n \in Nat /\ n = Len(history[c]) /\ created[c] \in [1..n -> Nat]
    BY <2>1 DEF Kept, LogTyped
  <2>3. DOMAIN history[c] = 1..n
    BY <2>1, <2>2 DEF Inv, TypeOK, TablesOK
  <2>4. \A i, j \in 1..n : i < j => created[c][i] < created[c][j]
    BY <2>1 DEF Kept, AllRising, Rising
  <2>5. { i \in 1..n : Cardinality({ j \in 1..n : created[c][j] > created[c][i] }) < limit }
          = (n - limit + 1)..n
    <3>1. limit \in 1..n
      BY <2>1, <2>2
    <3>2. PICK m \in Nat : m = n
      BY <2>2
    <3>3. PICK t \in [1..m -> Nat] : t = created[c]
      BY <2>2, <3>2
    <3>4. limit \in 1..m /\ \A i, j \in 1..m : i < j => t[i] < t[j]
      BY <2>4, <3>1, <3>2, <3>3
    <3>5. { i \in 1..m : Cardinality({ j \in 1..m : t[j] > t[i] }) < limit }
            = (m - limit + 1)..m
      BY <3>4, NewestAreLast
    <3> HIDE DEF n
    <3>6. QED
      BY <3>2, <3>3, <3>5
  <2>6. QED
    BY <2>2, <2>3, <2>5, Zenon DEF EntityHistory
<1>2. QED
  BY <1>1, AuditInvariance, PTL

-------------------------------------------------------------------------------
(* What AuditSummary counts.                                               *)

\* The rows of the audit log, as the places in it.
Places == UNION { {c} \X DOMAIN history[c] : c \in Records }

OfAction(since, a) == { e \in Since(since) : Action(e) = a }

OfType(since, t) == { e \in Since(since) : EntityType(e[1]) = t }

Queries == {"none", "total", "transitions", "actions", "types", "answer"}

SummaryTyped ==
    /\ summary.query \in Queries
    /\ summary = [query |-> summary.query, since |-> summary.since, total |-> summary.total,
                  transitions |-> summary.transitions, actions |-> summary.actions,
                  types |-> summary.types]
    /\ summary.since \in Nat /\ summary.total \in Nat /\ summary.transitions \in Nat
    /\ summary.actions \in [Actions -> Nat] /\ summary.types \in [EntityTypes -> Nat]

\* What has been counted so far, the log has still got: it never shrinks.
CountedSoFar ==
    /\ summary.query \in {"transitions", "actions"} =>
         summary.total <= Cardinality(Since(summary.since))
    /\ summary.query = "actions" =>
         summary.transitions <= Cardinality(OfAction(summary.since, "transition"))
    /\ summary.query = "types" =>
         SumOfActions(summary.actions) <= Cardinality(Since(summary.since))

SummaryInv ==
    /\ LogTyped /\ IsFiniteSet(Places)
    /\ SummaryTyped /\ CountedSoFar /\ SummaryPartsOnlyGrow

LEMMA PlacesCounted ==
    ASSUME IsFiniteSet(Places), NEW since
    PROVE  /\ IsFiniteSet(Since(since))
           /\ Cardinality(Since(since)) \in Nat
           /\ \A a : /\ IsFiniteSet(OfAction(since, a))
                     /\ Cardinality(OfAction(since, a)) \in Nat
           /\ \A t : /\ IsFiniteSet(OfType(since, t))
                     /\ Cardinality(OfType(since, t)) \in Nat
<1>1. Since(since) \subseteq Places
  BY DEF Since, Places
<1>2. \A T \in SUBSET Places : IsFiniteSet(T) /\ Cardinality(T) \in Nat
  BY FS_Subset, FS_CardinalityType
<1>3. /\ \A a : OfAction(since, a) \in SUBSET Places
      /\ \A t : OfType(since, t) \in SUBSET Places
  BY <1>1 DEF OfAction, OfType
<1>4. QED
  BY <1>1, <1>2, <1>3

LEMMA TwoParts ==
    ASSUME NEW A, NEW B, IsFiniteSet(A), IsFiniteSet(B), A \cap B = {}
    PROVE  /\ IsFiniteSet(A \cup B)
           /\ Cardinality(A \cup B) = Cardinality(A) + Cardinality(B)
<1>1. /\ IsFiniteSet(A \cup B)
      /\ Cardinality(A \cup B) = Cardinality(A) + Cardinality(B) - Cardinality(A \cap B)
  BY FS_Union, Zenon
<1>2. Cardinality(A \cap B) = 0
  BY FS_EmptySet, Zenon
<1>3. Cardinality(A) \in Nat /\ Cardinality(B) \in Nat
  BY FS_CardinalityType
<1>4. QED
  BY <1>1, <1>2, <1>3

\* A set that is the disjoint union of four finite ones.
LEMMA FourParts ==
    ASSUME NEW S, NEW A, NEW B, NEW C, NEW D, S = A \cup B \cup C \cup D,
           IsFiniteSet(A), IsFiniteSet(B), IsFiniteSet(C), IsFiniteSet(D),
           A \cap B = {}, A \cap C = {}, A \cap D = {},
           B \cap C = {}, B \cap D = {}, C \cap D = {}
    PROVE  Cardinality(S)
             = Cardinality(A) + Cardinality(B) + Cardinality(C) + Cardinality(D)
<1>1. /\ IsFiniteSet(A \cup B)
      /\ Cardinality(A \cup B) = Cardinality(A) + Cardinality(B)
  BY TwoParts
<1>2. (A \cup B) \cap C = {} /\ (A \cup B \cup C) \cap D = {}
  OBVIOUS
<1>3. /\ IsFiniteSet(A \cup B \cup C)
      /\ Cardinality(A \cup B \cup C) = Cardinality(A \cup B) + Cardinality(C)
  BY <1>1, <1>2, TwoParts, Zenon
<1>4. Cardinality(A \cup B \cup C \cup D) = Cardinality(A \cup B \cup C) + Cardinality(D)
  BY <1>2, <1>3, TwoParts, Zenon
<1>5. QED
  BY <1>1, <1>3, <1>4

\* Each row of the log is of one action and of one type: the counts of the
\* groups add up to the count of all rows.
LEMMA GroupsAddUp ==
    ASSUME Inv, IsFiniteSet(Places), NEW since
    PROVE  /\ SumOfActions([a \in Actions |-> Cardinality(OfAction(since, a))])
                = Cardinality(Since(since))
           /\ SumOfTypes([t \in EntityTypes |-> Cardinality(OfType(since, t))])
                = Cardinality(Since(since))
<1>1. \A e \in Since(since) : Action(e) \in Actions
  <2>1. ASSUME NEW c \in Records, NEW i \in DOMAIN history[c]
        PROVE  history[c][i].action \in Actions
    <3>1. history[c] \in Seq(AuditLogs)
      BY DEF Inv, TypeOK, TablesOK
    <3>2. history[c][i] \in AuditLogs
      BY <3>1
    <3>3. QED
      BY <3>2 DEF AuditLogs, Actions
  <2>2. QED
    BY <2>1 DEF Since, Action
<1>2. \A e \in Since(since) : EntityType(e[1]) \in EntityTypes
  BY DEF EntityType, EntityTypes
<1>3. Since(since) = OfAction(since, "create") \cup OfAction(since, "update")
                       \cup OfAction(since, "transition") \cup OfAction(since, "delete")
  BY <1>1 DEF OfAction, Actions
<1>4. Since(since) = OfType(since, "WasteGenerator") \cup OfType(since, "CarrierProfile")
                       \cup OfType(since, "TransferManifest")
                       \cup OfType(since, "ComplianceCheck")
  BY <1>2 DEF OfType, EntityTypes
<1>5. \A a, b : a # b => OfAction(since, a) \cap OfAction(since, b) = {}
  BY DEF OfAction
<1>6. \A t, u : t # u => OfType(since, t) \cap OfType(since, u) = {}
  BY DEF OfType
<1>7. Cardinality(Since(since))
        = Cardinality(OfAction(since, "create")) + Cardinality(OfAction(since, "update"))
          + Cardinality(OfAction(since, "transition")) + Cardinality(OfAction(since, "delete"))
  BY <1>3, <1>5, PlacesCounted, FourParts
<1>8. Cardinality(Since(since))
        = Cardinality(OfType(since, "WasteGenerator"))
          + Cardinality(OfType(since, "CarrierProfile"))
          + Cardinality(OfType(since, "TransferManifest"))
          + Cardinality(OfType(since, "ComplianceCheck"))
  BY <1>4, <1>6, PlacesCounted, FourParts
<1>9. QED
  BY <1>7, <1>8 DEF SumOfActions, SumOfTypes, Actions, EntityTypes

\* No step takes a row out of the log or changes one.
LogGrows ==
    \A c \in Records : \A i \in DOMAIN history[c] :
        /\ i \in DOMAIN history'[c]
        /\ history'[c][i] = history[c][i] /\ created'[c][i] = created[c][i]

LEMMA InsertGrows ==
    ASSUME Inv, LogTyped, NEW q \in Requests, InsertEntry(q),
           NEW c \in Records, c = req[q].code, Inserts(c, req[q])
    PROVE  LogGrows /\ \E e : Places' \subseteq Places \cup {e}
<1>1. /\ \A d \in Records : d # c => created'[d] = created[d]
      /\ created'[c] = Append(created[c], stamp[q])
  BY InsertsAppend DEF InsertEntry, LogTyped
<1>2. \A i \in DOMAIN history[c] : created'[c][i] = created[c][i]
  BY <1>1, TimesAppended, InsertsAppend DEF LogTyped
<1>3. LogGrows
  <2>1. ASSUME NEW d \in Records, NEW i \in DOMAIN history[d]
        PROVE  /\ i \in DOMAIN history'[d]
               /\ history'[d][i] = history[d][i] /\ created'[d][i] = created[d][i]
    <3>1. CASE d = c
      <4>1. i \in 1..Len(history[c]) /\ i \in 1..(Len(history[c]) + 1)
        BY <3>1, InsertsAppend
      <4>2. QED
        BY <1>2, <3>1, <4>1, InsertsAppend
    <3>2. CASE d # c
      BY <1>1, <3>2, InsertsAppend
    <3>3. QED
      BY <3>1, <3>2
  <2>2. QED
    BY <2>1 DEF LogGrows
<1>4. Places' \subseteq Places \cup {<<c, Len(history[c]) + 1>>}
  <2>1. ASSUME NEW d \in Records, NEW i \in DOMAIN history'[d]
        PROVE  i \in DOMAIN history[d] \/ (d = c /\ i = Len(history[c]) + 1)
    BY InsertsAppend
  <2>2. QED
    BY <2>1 DEF Places
<1>5. QED
  BY <1>3, <1>4

LEMMA StepGrows ==
    ASSUME Inv, LogTyped, [AuditNext]_AuditVars
    PROVE  LogTyped' /\ LogGrows /\ \E e : Places' \subseteq Places \cup {e}
<1>1. ASSUME UNCHANGED <<history, created, logged>>, stamp' \in [Requests -> Nat]
      PROVE  LogTyped' /\ LogGrows /\ \E e : Places' \subseteq Places \cup {e}
  BY <1>1, LogTypedRead DEF LogGrows, Places
<1>2. ASSUME NEW q \in Requests, Serve(q)
      PROVE  LogTyped' /\ LogGrows /\ \E e : Places' \subseteq Places \cup {e}
  <2>1. CASE Reads(q) /\ StampEntry(q)
    <3>1. UNCHANGED history
      BY <2>1, ReadsWriteNothing
    <3>2. UNCHANGED <<created, logged>> /\ stamp' \in [Requests -> Nat]
      BY <2>1 DEF StampEntry, LogTyped
    <3>3. QED
      BY <1>1, <3>1, <3>2
  <2>2. CASE Commit(q) /\ InsertEntry(q) /\ UNCHANGED history
    BY <1>1, <2>2 DEF InsertEntry, LogTyped
  <2>3. CASE Commit(q) /\ InsertEntry(q) /\ ~UNCHANGED history
    BY <2>3, CommitInserts, TransactionMoves, LogTypedInsert, InsertGrows
  <2>4. QED
    BY <1>2, <2>1, <2>2, <2>3 DEF Serve, Reads
<1>3. CASE UNCHANGED <<history, logVars>>
  BY <1>1, <1>3 DEF logVars, LogTyped
<1>4. QED
  BY <1>2, <1>3 DEF AuditNext, AuditVars, vars, logVars, Tick

LEMMA CountsGrow ==
    ASSUME LogGrows, IsFiniteSet(Places'), NEW since
    PROVE  /\ Cardinality(Since(since)) \in Nat /\ Cardinality(Since(since)') \in Nat
           /\ Cardinality(Since(since)) <= Cardinality(Since(since)')
           /\ \A a : /\ Cardinality(OfAction(since, a)) \in Nat
                     /\ Cardinality(OfAction(since, a)') \in Nat
                     /\ Cardinality(OfAction(since, a)) <= Cardinality(OfAction(since, a)')
<1>1. Since(since) \subseteq Since(since)'
  BY DEF LogGrows, Since
<1>2. \A e \in Since(since) : Action(e)' = Action(e)
  <2>1. \A c \in Records : \A i \in DOMAIN history[c] : history'[c][i] = history[c][i]
    BY DEF LogGrows
  <2>2. QED
    BY <2>1 DEF Since, Action
<1>3. \A a : OfAction(since, a) \subseteq OfAction(since, a)'
  BY <1>1, <1>2 DEF OfAction
<1>4. IsFiniteSet(Since(since)') /\ \A a : IsFiniteSet(OfAction(since, a)')
  <2>1. Since(since)' \subseteq Places'
    BY DEF Since, Places
  <2>2. \A a : OfAction(since, a)' \subseteq Places'
    BY <2>1 DEF OfAction
  <2>3. QED
    BY <2>1, <2>2, FS_Subset
<1>5. QED
  BY <1>1, <1>3, <1>4, FS_Subset, FS_CardinalityType

\* Each count is taken of the log as it is, and compared with a count taken
\* of the log as it was.
LEMMA SummaryCounts ==
    ASSUME Inv, SummaryInv, Summarize, UNCHANGED <<vars, logVars>>
    PROVE  SummaryTyped' /\ CountedSoFar' /\ SummaryPartsOnlyGrow'
<1> DEFINE since == summary.since
           s == summary
<1>1. /\ s \in [query : Queries, since : Nat, total : Nat, transitions : Nat,
                actions : [Actions -> Nat], types : [EntityTypes -> Nat]]
      /\ since \in Nat
  BY DEF SummaryInv, SummaryTyped
<1>2. /\ \A n : Since(n)' = Since(n)
      /\ \A n, a : OfAction(n, a)' = OfAction(n, a)
      /\ \A n, t : OfType(n, t)' = OfType(n, t)
  BY DEF vars, logVars, Since, OfAction, OfType, Action
<1>3. /\ Cardinality(Since(since)) \in Nat
      /\ \A a : Cardinality(OfAction(since, a)) \in Nat
      /\ \A t : Cardinality(OfType(since, t)) \in Nat
  BY PlacesCounted DEF SummaryInv
<1>4. CASE AuditSummary
  <2>1. PICK n \in 0..logged : s' = [NoSummary EXCEPT !.query = "total", !.since = n]
    BY <1>4 DEF AuditSummary
  <2>2. n \in Nat
    BY DEF SummaryInv, LogTyped
  <2>3. QED
    BY <2>1, <2>2
       DEF NoSummary, SummaryTyped, CountedSoFar, SummaryPartsOnlyGrow, Queries
<1>5. CASE EndSummary
  BY <1>5 DEF EndSummary, NoSummary, SummaryTyped, CountedSoFar, SummaryPartsOnlyGrow, Queries
<1>6. CASE CountTotal
  <2>1. /\ s.query = "total"
        /\ s' = [s EXCEPT !.total = Cardinality(Since(since)), !.query = "transitions"]
    BY <1>6 DEF CountTotal
  <2>2. /\ s'.query = "transitions" /\ s'.total = Cardinality(Since(since))
        /\ s'.since = since
        /\ s' \in [query : Queries, since : Nat, total : Nat, transitions : Nat,
                   actions : [Actions -> Nat], types : [EntityTypes -> Nat]]
    BY <1>1, <1>3, <2>1 DEF Queries
  <2>3. SummaryTyped'
    BY <2>2 DEF SummaryTyped
  <2>4. CountedSoFar' /\ SummaryPartsOnlyGrow'
    BY <1>2, <1>3, <2>2 DEF CountedSoFar, SummaryPartsOnlyGrow
  <2>5. QED
    BY <2>3, <2>4
<1>7. CASE CountTransitions
  <2>1. /\ s.query = "transitions"
        /\ s' = [s EXCEPT !.transitions = Cardinality(OfAction(since, "transition")),
                          !.query = "actions"]
    BY <1>7 DEF CountTransitions, OfAction
  <2>2. s.total <= Cardinality(Since(since))
    BY <2>1 DEF SummaryInv, CountedSoFar
  <2>3. /\ s'.query = "actions" /\ s'.total = s.total /\ s'.since = since
        /\ s'.transitions = Cardinality(OfAction(since, "transition"))
        /\ s' \in [query : Queries, since : Nat, total : Nat, transitions : Nat,
                   actions : [Actions -> Nat], types : [EntityTypes -> Nat]]
    BY <1>1, <1>3, <2>1 DEF Queries
  <2>4. SummaryTyped'
    BY <2>3 DEF SummaryTyped
  <2>5. CountedSoFar' /\ SummaryPartsOnlyGrow'
    BY <1>2, <1>3, <2>2, <2>3 DEF CountedSoFar, SummaryPartsOnlyGrow
  <2>6. QED
    BY <2>4, <2>5
<1>8. CASE CountActions
  <2> DEFINE counts == [a \in Actions |-> Cardinality(OfAction(since, a))]
  <2>1. s.query = "actions" /\ s' = [s EXCEPT !.actions = counts, !.query = "types"]
    BY <1>8 DEF CountActions, OfAction
  <2>2. /\ s.total <= Cardinality(Since(since))
        /\ s.transitions <= Cardinality(OfAction(since, "transition"))
    BY <2>1 DEF SummaryInv, CountedSoFar
  <2>3. /\ counts \in [Actions -> Nat]
        /\ counts["transition"] = Cardinality(OfAction(since, "transition"))
    BY <1>3 DEF Actions
  <2>4. SumOfActions(counts) = Cardinality(Since(since))
    BY GroupsAddUp DEF SummaryInv
  <2> HIDE DEF counts
  <2>5. /\ s'.query = "types" /\ s'.actions = counts /\ s'.total = s.total
        /\ s'.transitions = s.transitions /\ s'.since = since /\ s'.types = s.types
        /\ s' \in [query : Queries, since : Nat, total : Nat, transitions : Nat,
                   actions : [Actions -> Nat], types : [EntityTypes -> Nat]]
    BY <1>1, <2>1, <2>3 DEF Queries
  <2>6. SummaryTyped'
    BY <2>5 DEF SummaryTyped
  <2>7. CountedSoFar' /\ SummaryPartsOnlyGrow'
    BY <1>2, <1>3, <2>2, <2>3, <2>4, <2>5 DEF CountedSoFar, SummaryPartsOnlyGrow
  <2>8. QED
    BY <2>6, <2>7
<1>9. CASE CountTypes
  <2> DEFINE counts == [t \in EntityTypes |-> Cardinality(OfType(since, t))]
  <2>1. s.query = "types" /\ s' = [s EXCEPT !.types = counts, !.query = "answer"]
    BY <1>9 DEF CountTypes, OfType
  <2>2. /\ SumOfActions(s.actions) <= Cardinality(Since(since))
        /\ s.total <= SumOfActions(s.actions)
        /\ s.transitions <= s.actions["transition"]
    BY <2>1 DEF SummaryInv, CountedSoFar, SummaryPartsOnlyGrow
  <2>3. counts \in [EntityTypes -> Nat]
    BY <1>3
  <2>4. SumOfTypes(counts) = Cardinality(Since(since))
    BY GroupsAddUp DEF SummaryInv
  <2> HIDE DEF counts
  <2>5. /\ s'.query = "answer" /\ s'.types = counts /\ s'.total = s.total
        /\ s'.transitions = s.transitions /\ s'.since = since /\ s'.actions = s.actions
        /\ s' \in [query : Queries, since : Nat, total : Nat, transitions : Nat,
                   actions : [Actions -> Nat], types : [EntityTypes -> Nat]]
    BY <1>1, <2>1, <2>3 DEF Queries
  <2>6. SummaryTyped'
    BY <2>5 DEF SummaryTyped
  <2>7. CountedSoFar' /\ SummaryPartsOnlyGrow'
    BY <2>2, <2>4, <2>5 DEF CountedSoFar, SummaryPartsOnlyGrow
  <2>8. QED
    BY <2>6, <2>7
<1>10. QED
  BY <1>4, <1>5, <1>6, <1>7, <1>8, <1>9 DEF Summarize

LEMMA SummaryNext == Inv /\ SummaryInv /\ [AuditNext]_AuditVars => SummaryInv'
<1> SUFFICES ASSUME Inv, SummaryInv, [AuditNext]_AuditVars
             PROVE  SummaryInv'
  OBVIOUS
<1>1. LogTyped' /\ LogGrows /\ \E e : Places' \subseteq Places \cup {e}
  BY StepGrows DEF SummaryInv
<1>2. IsFiniteSet(Places')
  BY <1>1, FS_AddElement, FS_Subset DEF SummaryInv
<1>3. CASE UNCHANGED summary
  <2>1. PICK since \in Nat : since = summary.since
    BY DEF SummaryInv, SummaryTyped
  <2>2. CountedSoFar'
    <3> USE <1>1, <1>2, <1>3, <2>1, CountsGrow DEF SummaryInv, SummaryTyped
    <3>1. summary.query \in {"transitions", "actions"}
            => summary.total <= Cardinality(Since(since)')
      BY DEF CountedSoFar
    <3>2. summary.query = "actions"
            => summary.transitions <= Cardinality(OfAction(since, "transition")')
      BY DEF CountedSoFar
    <3>3. summary.query = "types"
            => SumOfActions(summary.actions) <= Cardinality(Since(since)')
      <4>1. SumOfActions(summary.actions) \in Nat
        BY DEF SumOfActions, Actions
      <4>2. QED
        BY <4>1 DEF CountedSoFar
    <3>4. QED
      BY <3>1, <3>2, <3>3 DEF CountedSoFar
  <2>3. SummaryTyped' /\ SummaryPartsOnlyGrow'
    BY <1>3 DEF SummaryInv, SummaryTyped, SummaryPartsOnlyGrow
  <2>4. QED
    BY <1>1, <1>2, <2>2, <2>3 DEF SummaryInv
<1>4. CASE Summarize /\ UNCHANGED <<vars, logVars>>
  BY <1>1, <1>2, <1>4, SummaryCounts DEF SummaryInv
<1>5. QED
  BY <1>3, <1>4 DEF AuditNext, AuditVars

\* The parts of a summary of the log are counted in queries of their own while
\* handlers insert entries stamped earlier, and never contradict each other by
\* more than what was inserted meanwhile, whatever versions clients name.
THEOREM SummariesOnlyGrow == AuditSpec => []SummaryPartsOnlyGrow
<1>1. AuditInit => SummaryInv
  <2>1. AuditInit => LogTyped
    BY DEF AuditInit, Init, LogTyped
  <2>2. AuditInit => IsFiniteSet(Places)
    <3>1. AuditInit => Places = {}
      BY DEF AuditInit, Init, Places
    <3>2. QED
      BY <3>1, FS_EmptySet
  <2>3. QED
    BY <2>1, <2>2 DEF AuditInit, NoSummary, SummaryInv, SummaryTyped, Queries, CountedSoFar,
                      SummaryPartsOnlyGrow
<1>2. AuditSpec => []Inv
  <2>1. AuditSpec => Spec
    BY AuditStepIsAStep, PTL DEF AuditSpec, Spec, AuditInit
  <2>2. QED
    BY <2>1, Invariance, PTL
<1>3. SummaryInv => SummaryPartsOnlyGrow
  BY DEF SummaryInv
<1>4. QED
  BY <1>1, <1>2, <1>3, SummaryNext, PTL DEF AuditSpec
===============================================================================
