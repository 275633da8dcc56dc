------------------------------- MODULE Workbench -------------------------------
(***************************************************************************)
(* One list page of the browser application over the API: the page         *)
(* component, its store, the calls in flight, and the table other people   *)
(* work on at the same time.                                               *)
(*                                                                         *)
(* The store never waits: every button may be pressed again while calls    *)
(* are in flight, answers come back in any order, and a call or its answer *)
(* may be lost, in which case the browser cannot tell whether the server   *)
(* has done the work.                                                      *)
(*                                                                         *)
(* Which rows a load asks for - the search text, the page, its size, the   *)
(* order - is left out: an answer may hold any of the rows.                *)
(***************************************************************************)
EXTENDS Naturals, StatusGraphs

CONSTANTS
    Calls,       \* bound: how many calls are in flight at one time
    Seed,        \* Seed[c]: the row of record c when the page is opened
    MaxVersion   \* bound: MaxVersion[c] is the highest version row c reaches

AbsentRow == [life |-> "absent", status |-> "", version |-> 0]

ASSUME BoundsAssumption == MaxVersion \in [Records -> Nat]

ASSUME SeedAssumption ==
    \A c \in Records :
        \/ Seed[c] = AbsentRow
        \/ Seed[c] \in [life : {"live", "deleted"}, status : Statuses(c),
                        version : 1..MaxVersion[c]]

VARIABLES
    rows,        \* rows[c]: the row of record c, as in Compliance
    call,        \* call[k]: the call in slot k, as far as it has come
    items,       \* EntityState.items: the rows the page shows
    loading,     \* EntityState.loading
    pending,     \* the move the open dialog asks to confirm, or NoDialog
    showCreate   \* the dialog that asks to confirm a new record is open

dialogs == <<pending, showCreate>>
vars    == <<rows, call, items, loading, pending, showCreate>>

-------------------------------------------------------------------------------
(* The moves the page offers: types/status.ts, a copy of the graphs.       *)

CarrierMovesOffered ==
    ({"pending"} \X {"verified", "restricted", "expired"})
      \cup ({"verified"} \X {"restricted", "expired"})
      \cup ({"restricted"} \X {"pending", "expired"})

CheckMovesOffered ==
    ({"pending"} \X {"pass", "fail", "escalated"}) \cup ({"fail"} \X {"escalated"})

Offered(c) == IF c \in Carriers THEN CarrierMovesOffered
              ELSE IF c \in Checks THEN CheckMovesOffered
              ELSE Graph(c)

-------------------------------------------------------------------------------
NoCall    == [kind |-> "none"]
NoDialog  == [open |-> FALSE]

\* A row as the page knows it.
Item(c) == [code |-> c, status |-> rows[c].status, version |-> rows[c].version]

Live(c) == rows[c].life = "live"

Begin == rows = [c \in Records |-> Seed[c]]

Init ==
    /\ Begin
    /\ call = [k \in Calls |-> NoCall]
    /\ items = {}
    /\ loading = FALSE
    /\ pending = NoDialog
    /\ showCreate = FALSE

-------------------------------------------------------------------------------
(* The store: stores/factory.ts.                                           *)

Put(k, c) == call' = [call EXCEPT ![k] = c]

\* load, up to the fetch.  The page asks for it, or it ends a write.
StartLoad(k, for) ==
    /\ Put(k, [kind |-> "load", phase |-> "sent", for |-> for, answer |-> {}])
    /\ loading' = TRUE

StartMove(k, item, target) ==
    /\ Put(k, [kind |-> "move", phase |-> "sent", item |-> item, target |-> target,
                         result |-> ""])
    /\ loading' = TRUE

StartCreate(k) ==
    /\ Put(k, [kind |-> "create", phase |-> "sent", result |-> ""])
    /\ loading' = TRUE

At(k, kind, phase) == call[k] # NoCall /\ call[k].kind = kind /\ call[k].phase = phase

Free(k) == call[k] = NoCall

-------------------------------------------------------------------------------
(* The page component.  An open dialog is drawn over the page and takes    *)
(* the mouse, but it is neither inert nor a focus trap: by keyboard every  *)
(* button can be pressed, both dialogs can be open at once, and another    *)
(* move can be picked.  No button waits for a call to end.                 *)

\* ngOnInit, query, reset, previousPage and nextPage.
LoadPage(k) ==
    /\ Free(k)
    /\ StartLoad(k, "page")
    /\ UNCHANGED <<rows, items, dialogs>>

\* A move that is picked takes the place of the one that was to be confirmed.
OpenTransition(item, target) ==
    /\ CanTransition(Offered(item.code), item.status, target)
    /\ pending' = [open |-> TRUE, item |-> item, target |-> target]
    /\ UNCHANGED <<rows, call, items, loading, showCreate>>

CloseTransition ==
    /\ pending # NoDialog /\ pending' = NoDialog
    /\ UNCHANGED <<rows, call, items, loading, showCreate>>

\* The dialog stays open, and can be confirmed again, until the list has been
\* loaded after the move.
ConfirmTransition(k) ==
    /\ pending # NoDialog /\ Free(k)
    /\ StartMove(k, pending.item, pending.target)
    /\ UNCHANGED <<rows, items, dialogs>>

OpenCreate ==
    /\ showCreate' = TRUE
    /\ UNCHANGED <<rows, call, items, loading, pending>>

CloseCreate ==
    /\ showCreate /\ showCreate' = FALSE
    /\ UNCHANGED <<rows, call, items, loading, pending>>

CreateDemo(k) ==
    /\ showCreate /\ Free(k)
    /\ StartCreate(k)
    /\ UNCHANGED <<rows, items, dialogs>>

-------------------------------------------------------------------------------
(* The table, and the other people who work on it.                         *)

\* Mutant: a write after the first keeps the version.
SaveSameVersion(c, status) ==
    /\ rows[c].version < MaxVersion[c]
    /\ rows' = [rows EXCEPT ![c] = [life |-> "live", status |-> status, version |-> 1]]

Save(c, status) ==
    /\ rows[c].version < MaxVersion[c]
    /\ rows' = [rows EXCEPT ![c] = [life |-> "live", status |-> status, version |-> @.version + 1]]

Insert(c) == rows[c] = AbsentRow /\ Save(c, InitialStatus(c))

Written(c) ==
    \/ Insert(c)
    \/ Live(c) /\ Open(c, rows[c].status) /\ Save(c, rows[c].status)
    \/ \E target \in Statuses(c) :
          Live(c) /\ CanTransition(Graph(c), rows[c].status, target) /\ Save(c, target)

\* Mutant: a deletion that overwrites the status.
DeletedAsStatus(c) == Live(c) /\ rows' = [rows EXCEPT ![c].status = "deleted"]

\* A deletion may come late: the row goes whatever its status is by then.
Deleted(c) == Live(c) /\ rows' = [rows EXCEPT ![c].life = "deleted"]

OthersWork ==
    /\ \E c \in Records : Written(c) \/ Deleted(c)
    /\ UNCHANGED <<call, items, loading, dialogs>>

-------------------------------------------------------------------------------
(* The server's side of the calls.  A handler that finds the version it    *)
(* was sent has read the row it writes (ReadIsFresh of Compliance), so     *)
(* that reading, checking and writing a row are one step here.             *)

AnswerList(k) ==
    /\ At(k, "load", "sent")
    /\ \E listed \in SUBSET { c \in Records : Live(c) } :
          Put(k, [call[k] EXCEPT !.phase = "answered", !.answer = { Item(c) : c \in listed }])
    /\ UNCHANGED <<rows, items, loading, dialogs>>

\* A call whose client is gone is still handled, and answered to nobody.
Reply(k, result) ==
    Put(k, IF call[k].phase = "abandoned" THEN NoCall
           ELSE [call[k] EXCEPT !.phase = "answered", !.result = result])

Waiting(k, kind) == At(k, kind, "sent") \/ At(k, kind, "abandoned")

\* Mutant: the version the page sends is not compared.
AcceptMoveAnyVersion(k) ==
    /\ Waiting(k, "move")
    /\ Live(call[k].item.code)
    /\ CanTransition(Graph(call[k].item.code), rows[call[k].item.code].status, call[k].target)
    /\ Save(call[k].item.code, call[k].target)
    /\ Reply(k, "ok")
    /\ UNCHANGED <<items, loading, dialogs>>

AcceptMove(k) ==
    /\ Waiting(k, "move")
    /\ Live(call[k].item.code)
    /\ rows[call[k].item.code].version = call[k].item.version
    /\ CanTransition(Graph(call[k].item.code), rows[call[k].item.code].status, call[k].target)
    /\ Save(call[k].item.code, call[k].target)
    /\ Reply(k, "ok")
    /\ UNCHANGED <<items, loading, dialogs>>

\* ErrInvalidTransition: the status read has no edge to the target.
RefuseEdge(k) ==
    /\ Waiting(k, "move")
    /\ Live(call[k].item.code)
    /\ ~CanTransition(Graph(call[k].item.code), rows[call[k].item.code].status, call[k].target)
    /\ Reply(k, "invalid_transition")
    /\ UNCHANGED <<rows, items, loading, dialogs>>

\* Any other error: a conflict of versions, a rule about data not modelled
\* here, a row that is gone, a full quota.
Refuse(k) ==
    /\ Waiting(k, "move") \/ Waiting(k, "create")
    /\ Reply(k, "refused")
    /\ UNCHANGED <<rows, items, loading, dialogs>>

AcceptCreate(k) ==
    /\ Waiting(k, "create")
    /\ \E c \in Records : Insert(c)
    /\ Reply(k, "ok")
    /\ UNCHANGED <<items, loading, dialogs>>

-------------------------------------------------------------------------------
(* What the browser does with the answers.                                 *)

\* The page component goes on after the load that ends a write, whether that
\* load succeeded or not, and closes its dialog, whichever is open by then.
CloseDialogAfter(for) ==
    /\ pending' = IF for = "move" THEN NoDialog ELSE pending
    /\ showCreate' = (showCreate /\ for # "create")

ReceiveList(k) ==
    /\ At(k, "load", "answered")
    /\ Put(k, NoCall)
    /\ items' = call[k].answer
    /\ loading' = FALSE
    /\ CloseDialogAfter(call[k].for)
    /\ UNCHANGED rows

\* After a write that succeeded the store loads the list.
ReceiveWritten(k) ==
    /\ call[k] # NoCall /\ call[k].kind \in {"move", "create"}
    /\ call[k].phase = "answered" /\ call[k].result = "ok"
    /\ StartLoad(k, call[k].kind)
    /\ UNCHANGED <<rows, items, dialogs>>

ReceiveRefusal(k) ==
    /\ call[k] # NoCall /\ call[k].kind \in {"move", "create"}
    /\ call[k].phase = "answered" /\ call[k].result # "ok"
    /\ Put(k, NoCall) /\ loading' = FALSE
    /\ UNCHANGED <<rows, items, dialogs>>

\* Mutant: a load that fails leaves the page loading.
LoseLoadStillLoading(k) ==
    /\ call[k] # NoCall /\ call[k].kind = "load"
    /\ Put(k, NoCall)
    /\ CloseDialogAfter(call[k].for)
    /\ UNCHANGED <<rows, items, loading>>

LoseLoad(k) ==
    /\ call[k] # NoCall /\ call[k].kind = "load"
    /\ Put(k, NoCall) /\ loading' = FALSE
    /\ CloseDialogAfter(call[k].for)
    /\ UNCHANGED <<rows, items>>

\* A write whose connection breaks may have reached the server, or reach it yet.
LoseWrite(k) ==
    /\ call[k] # NoCall /\ call[k].kind \in {"move", "create"}
    /\ call[k].phase # "abandoned"
    /\ \/ Put(k, NoCall)
       \/ call[k].phase = "sent" /\ Put(k, [call[k] EXCEPT !.phase = "abandoned"])
    /\ loading' = FALSE
    /\ UNCHANGED <<rows, items, dialogs>>

-------------------------------------------------------------------------------
Press == \/ \E k \in Calls : LoadPage(k) \/ ConfirmTransition(k) \/ CreateDemo(k)
         \/ \E item \in items : \E target \in Statuses(item.code) : OpenTransition(item, target)
         \/ CloseTransition \/ OpenCreate \/ CloseCreate

Serve(k) == AnswerList(k) \/ AcceptMove(k) \/ RefuseEdge(k)
              \/ Refuse(k) \/ AcceptCreate(k)

Receive(k) == ReceiveList(k) \/ ReceiveWritten(k) \/ ReceiveRefusal(k)

Next == \/ Press
        \/ \E k \in Calls : Serve(k) \/ Receive(k) \/ LoseLoad(k) \/ LoseWrite(k)
        \/ OthersWork

\* The server answers every call it receives (its handlers run straight to their
\* answer and wait for nobody), and an answer that arrives is handled.  Nothing else needs to happen: the
\* user may do nothing, and connections need not break.
Spec == Init /\ [][Next]_vars /\ \A k \in Calls : WF_vars(Serve(k) \/ Receive(k))

-------------------------------------------------------------------------------
(* Properties.                                                             *)

TypeOK ==
    /\ \A c \in Records : /\ rows[c].life \in {"absent", "live", "deleted"}
                          /\ rows[c].status \in Statuses(c) \cup {""}
                          /\ rows[c].version \in 0..MaxVersion[c]
    /\ items \in SUBSET [code : Records, status : AnyStatus, version : Nat]
    /\ \A k \in Calls : call[k] # NoCall => call[k].kind \in {"load", "move", "create"}
    /\ loading \in BOOLEAN /\ showCreate \in BOOLEAN

\* Everything the page may act on: the rows shown, the row of the open dialog,
\* the rows of the answers and the moves on their way.
Snapshots ==
    items
      \cup (IF pending = NoDialog THEN {} ELSE {pending.item})
      \cup UNION { IF call[k] = NoCall THEN {}
                   ELSE IF call[k].kind = "move" THEN {call[k].item}
                   ELSE IF call[k].kind = "load" THEN call[k].answer ELSE {} : k \in Calls }

\* However old what the page shows is, and however its answers were reordered,
\* a version it names is one the row has had, and names one content: this page
\* is a client as Compliance assumes them (Foresight = 0).
SnapshotsWereRows ==
    \A s \in Snapshots :
        /\ rows[s.code].version >= s.version
        /\ rows[s.code].version = s.version => rows[s.code].status = s.status

\* The page offers only moves the server's graph has: when the server answers
\* that it knows no such move, somebody has changed the record since the page
\* read it.  src/README.md and constants/status.go promise that the two copies
\* of the graphs are the same.
OnlyChangedIsRefused ==
    \A k \in Calls : At(k, "move", "answered") =>
        LET item == call[k].item
        IN call[k].result = "invalid_transition" => rows[item.code].version > item.version

\* A move is carried out only on the very row the user saw in the dialog: not
\* after somebody else changed it, and not twice, though the button be pressed
\* twice, or again after an answer was lost.
MovesAreAsConfirmed ==
    [][\A k \in Calls :
          Waiting(k, "move") /\ call'[k] # call[k] /\ rows' # rows =>
          LET item == call[k].item
          IN /\ Item(item.code) = item
             /\ rows'[item.code].status = call[k].target
             /\ <<item.status, call[k].target>> \in Offered(item.code)]_vars

\* The page never stays in its loading state.
LoadingEnds == loading ~> ~loading

-------------------------------------------------------------------------------
\* What this module takes for granted of the server, whose model is Compliance:
\* the rows start as they are seeded, and nothing but these writes and deletions
\* happens to them.
ServersTable == Begin /\ [][\E c \in Records : Written(c) \/ Deleted(c)]_rows
===============================================================================
