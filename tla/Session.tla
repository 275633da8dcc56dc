-------------------------------- MODULE Session --------------------------------
(***************************************************************************)
(* Who is signed in: the tabs of one browser, the session they share in    *)
(* localStorage, and the server that issues and checks the tokens.         *)
(*                                                                         *)
(* Every tab has a session of its own in a signal, by which it shows its   *)
(* pages and buttons; every call carries the token of the stored session,  *)
(* read when the call is sent.  The two part when another tab signs in or  *)
(* out, and when a call is answered with 401, which clears the store only. *)
(*                                                                         *)
(* The roles of users do not change, so that a session is its token and    *)
(* the user it shows.  Passwords are left out: a sign-in may be refused.   *)
(***************************************************************************)
EXTENDS Naturals

CONSTANTS
    Tabs,      \* the tabs of the browser
    Calls,     \* bound: how many calls of the pages are in flight at one time
    Users,     \* the active users
    Role,      \* Role[u]: the role of user u
    TokenTTL,  \* how long a token is valid
    MaxTime    \* bound: the last time at which something happens

roleRank == [viewer |-> 1, operator |-> 2, reviewer |-> 3, admin |-> 4]

ASSUME SessionAssumption ==
    /\ Role \in [Users -> DOMAIN roleRank]
    /\ TokenTTL \in Nat /\ MaxTime \in Nat

VARIABLES
    now,       \* the time
    storage,   \* the session in localStorage
    session,   \* session[t]: the session signal of tab t
    loading,   \* loading[t]: the loading signal of tab t
    auth,      \* auth[t]: the call of restore or login of tab t
    work       \* work[k]: a call of a page of some tab

vars == <<now, storage, session, loading, auth, work>>

-------------------------------------------------------------------------------
NoToken   == [exp |-> 0]
NoSession == [token |-> NoToken]
NoCall    == [phase |-> "none"]

\* What the pages can ask of the server, and the role each is shown to:
\* transitionRole of the four pages, the button of a new record, reviewerGuard.
ShownTo == [list |-> "viewer", create |-> "operator",
            moveGenerator |-> "reviewer", moveCarrier |-> "reviewer",
            moveManifest |-> "operator", moveCheck |-> "reviewer", audits |-> "reviewer"]

Operations == DOMAIN ShownTo

\* Mutant: manifests are moved by reviewers.
RouteRoleReviewed(op) == CASE op = "list" -> "viewer"
                           [] op = "create" -> "operator"
                           [] OTHER -> "reviewer"

\* The role the server's route of an operation asks for.
RouteRole(op) == CASE op = "list" -> "viewer"
                   [] op \in {"create", "moveManifest"} -> "operator"
                   [] OTHER -> "reviewer"

HasMinimumRole(u, minimum) == roleRank[Role[u]] >= roleRank[minimum]

Init ==
    /\ now = 0
    /\ storage = NoSession
    /\ session = [t \in Tabs |-> NoSession]
    /\ loading = [t \in Tabs |-> FALSE]
    /\ auth = [t \in Tabs |-> NoCall]
    /\ work = [k \in Calls |-> NoCall]

-------------------------------------------------------------------------------
(* The server.                                                             *)

\* jwt.Parse refuses a token from the second of its exp on.
Authentic(token) == token # NoToken /\ now < token.exp

\* The answers the API may give to a call of operation op with a token.  The
\* limiter, the network or the database may fail any call.
Answers(op, token) ==
    {"failed"} \cup (IF ~Authentic(token) THEN {"unauthorized"}
                     ELSE IF HasMinimumRole(token.user, RouteRole(op)) THEN {"ok"}
                     ELSE {"forbidden"})

\* What Login answers when the password is right.
Issued(u) == [token |-> [user |-> u, exp |-> now + TokenTTL], user |-> u]

ServeLogin(t) ==
    /\ auth[t].phase = "login"
    /\ \/ auth' = [auth EXCEPT ![t] = [phase |-> "signed in", next |-> Issued(auth[t].user)]]
       \/ \E result \in {"unauthorized", "failed"} :
             auth' = [auth EXCEPT ![t] = [phase |-> "login failed", result |-> result]]
    /\ UNCHANGED <<now, storage, session, loading, work>>

\* GET /session asks for no role: the answer names the user of the token.
ServeSession(t) ==
    /\ auth[t].phase = "restore"
    /\ \E result \in Answers("list", auth[t].cached.token) :
          auth' = [auth EXCEPT ![t] =
                     IF result = "ok"
                       THEN [phase |-> "restored", cached |-> auth[t].cached,
                             live |-> auth[t].cached.token.user]
                       ELSE [phase |-> "restore failed"]]
    /\ UNCHANGED <<now, storage, session, loading, work>>

ServeWork(k) ==
    /\ work[k].phase = "sent"
    /\ \E result \in Answers(work[k].op, work[k].token) :
          work' = [work EXCEPT ![k] = [phase |-> result, tab |-> work[k].tab]]
    /\ UNCHANGED <<now, storage, session, loading, auth>>

-------------------------------------------------------------------------------
(* AuthService: hooks/use-auth.ts.                                         *)

\* Mutant: restore does not say that it is loading.
OpenInSilence(t) ==
    /\ session' = [session EXCEPT ![t] = storage]
    /\ auth' = [auth EXCEPT ![t] = IF storage = NoSession THEN NoCall
                                   ELSE [phase |-> "restore", cached |-> storage]]
    /\ work' = [k \in Calls |-> IF work[k] # NoCall /\ work[k].tab = t THEN NoCall ELSE work[k]]
    /\ UNCHANGED <<now, storage, loading>>

\* A tab is opened or reloaded: the signal starts as the stored session, and
\* restore asks the server whether it is still good.  The calls of the page
\* that was there are gone.
Open(t) ==
    /\ session' = [session EXCEPT ![t] = storage]
    /\ loading' = [loading EXCEPT ![t] = storage # NoSession]
    /\ auth' = [auth EXCEPT ![t] = IF storage = NoSession THEN NoCall
                                   ELSE [phase |-> "restore", cached |-> storage]]
    /\ work' = [k \in Calls |-> IF work[k] # NoCall /\ work[k].tab = t THEN NoCall ELSE work[k]]
    /\ UNCHANGED <<now, storage>>

Ended(t) == auth' = [auth EXCEPT ![t] = NoCall] /\ loading' = [loading EXCEPT ![t] = FALSE]

Signed(t, next) == storage' = next /\ session' = [session EXCEPT ![t] = next]

\* Mutant: the answer is joined to what is stored by now.
RestoredIntoTheStore(t) ==
    /\ auth[t].phase = "restored"
    /\ Signed(t, [token |-> storage.token, user |-> auth[t].live])
    /\ Ended(t)
    /\ UNCHANGED <<now, work>>

\* The session cached before the call is stored again, whatever another tab has
\* stored or cleared meanwhile.
Restored(t) ==
    /\ auth[t].phase = "restored"
    /\ Signed(t, [token |-> auth[t].cached.token, user |-> auth[t].live])
    /\ Ended(t)
    /\ UNCHANGED <<now, work>>

\* Any failure signs out: a refused token, but a full quota as well.
RestoreFailed(t) ==
    /\ auth[t].phase = "restore failed"
    /\ Signed(t, NoSession)
    /\ Ended(t)
    /\ UNCHANGED <<now, work>>

\* The login page is for tabs without a session (loginGuard), and its button
\* waits for the call to end.
Login(t, u) ==
    /\ ~loading[t] /\ session[t] = NoSession
    /\ auth' = [auth EXCEPT ![t] = [phase |-> "login", user |-> u]]
    /\ loading' = [loading EXCEPT ![t] = TRUE]
    /\ UNCHANGED <<now, storage, session, work>>

SignedIn(t) ==
    /\ auth[t].phase = "signed in"
    /\ Signed(t, auth[t].next)
    /\ Ended(t)
    /\ UNCHANGED <<now, work>>

\* Mutant: a login that fails leaves the tab loading.
LoginFailedStillLoading(t) ==
    /\ auth[t].phase = "login failed"
    /\ storage' = IF auth[t].result = "unauthorized" THEN NoSession ELSE storage
    /\ auth' = [auth EXCEPT ![t] = NoCall]
    /\ UNCHANGED <<now, session, loading, work>>

\* A refused sign-in is a 401 too: it clears what another tab has stored.
LoginFailed(t) ==
    /\ auth[t].phase = "login failed"
    /\ storage' = IF auth[t].result = "unauthorized" THEN NoSession ELSE storage
    /\ Ended(t)
    /\ UNCHANGED <<now, session, work>>

\* A tab that is loading shows nothing to press.
Logout(t) ==
    /\ ~loading[t] /\ session[t] # NoSession
    /\ Signed(t, NoSession)
    /\ UNCHANGED <<now, loading, auth, work>>

-------------------------------------------------------------------------------
(* The pages, through request of api/client.ts.                            *)

Ask(t, op, k) ==
    /\ ~loading[t] /\ session[t] # NoSession
    /\ HasMinimumRole(session[t].user, ShownTo[op])
    /\ work[k] = NoCall
    /\ work' = [work EXCEPT ![k] = [phase |-> "sent", tab |-> t, op |-> op,
                                    token |-> storage.token, as |-> session[t].user]]
    /\ UNCHANGED <<now, storage, session, loading, auth>>

\* Only a 401 leaves a trace: the stored session is cleared, whichever it is by
\* now, and the signal of the tab is not.
ReceiveWork(k) ==
    /\ work[k].phase \in {"ok", "forbidden", "unauthorized", "failed"}
    /\ storage' = IF work[k].phase = "unauthorized" THEN NoSession ELSE storage
    /\ work' = [work EXCEPT ![k] = NoCall]
    /\ UNCHANGED <<now, session, loading, auth>>

Tick == now < MaxTime /\ now' = now + 1 /\ UNCHANGED <<storage, session, loading, auth, work>>

-------------------------------------------------------------------------------
Authenticate(t) == ServeLogin(t) \/ ServeSession(t) \/ Restored(t) \/ RestoreFailed(t)
                     \/ SignedIn(t) \/ LoginFailed(t)

Next == \/ \E t \in Tabs : \/ Open(t) \/ Logout(t) \/ Authenticate(t)
                           \/ \E u \in Users : Login(t, u)
                           \/ \E op \in Operations, k \in Calls : Ask(t, op, k)
        \/ \E k \in Calls : ServeWork(k) \/ ReceiveWork(k)
        \/ Tick

\* Every call ends: the server answers it, or the browser gives it up.
Spec == Init /\ [][Next]_vars /\ \A t \in Tabs : WF_vars(Authenticate(t))

-------------------------------------------------------------------------------
(* Properties.                                                             *)

TypeOK ==
    LET Tokens   == [user : Users, exp : 0..MaxTime + TokenTTL]
        Sessions == [token : Tokens, user : Users] \cup {NoSession}
    IN /\ now \in 0..MaxTime
       /\ storage \in Sessions
       /\ session \in [Tabs -> Sessions]
       /\ \A t \in Tabs : loading[t] = (auth[t] # NoCall)
       /\ \A k \in Calls : work[k].phase = "sent" => work[k].token \in Tokens \cup {NoToken}

\* However the tabs sign in, sign out and restore across each other, a session,
\* in the store or in a tab, shows the user whose token it holds.
SessionMatchesItsToken ==
    \A s \in {storage} \cup { session[t] : t \in Tabs } :
        s # NoSession => s.token # NoToken /\ s.user = s.token.user

\* What a page shows to a user the server lets that user do: a 403 means that
\* the call went out with the token of somebody else, who had signed in from
\* another tab.
RefusedOnlyWithAnothersToken ==
    [][\A k \in Calls : work[k].phase = "sent" /\ work'[k].phase = "forbidden" =>
          work[k].token.user # work[k].as]_vars

\* Once the stored session is gone, nothing but a sign-in or a restore that a
\* tab is waiting for brings a session back: not a call still in flight, and
\* not a tab that goes on showing the user who was signed in.
SignedOutStaysSignedOut ==
    [][storage = NoSession /\ (\A t \in Tabs : ~loading[t]) => storage' = NoSession]_vars

\* Unless a tab is reloaded over and over it does not stay hidden behind its
\* loading notice.
LoadingEnds ==
    \A t \in Tabs : <>[][~Open(t)]_vars => (loading[t] ~> ~loading[t])
===============================================================================
