----------------------------- MODULE SessionProofs -----------------------------
(***************************************************************************)
(* Theorems about Session, for every number of tabs, calls and users.      *)
(*                                                                         *)
(* Neither TypeOK nor SessionMatchesItsToken is inductive: what is stored  *)
(* comes out of the calls of restore and login, so SessionInv says what    *)
(* every call may carry.                                                   *)
(***************************************************************************)
EXTENDS Session, TLAPS

Tokens == [user : Users, exp : 0..MaxTime + TokenTTL]

\* The sessions that show the user whose token they hold.
Sessions == { s \in [token : Tokens, user : Users] : s.user = s.token.user }

AuthCalls ==
    {NoCall}
      \cup [phase : {"login"}, user : Users]
      \cup [phase : {"signed in"}, next : Sessions]
      \cup [phase : {"login failed"}, result : {"unauthorized", "failed"}]
      \cup [phase : {"restore"}, cached : Sessions]
      \cup { c \in [phase : {"restored"}, cached : Sessions, live : Users] :
               c.live = c.cached.user }
      \cup [phase : {"restore failed"}]

\* A call of a page is sent by a user who is shown its operation.
WorkCalls ==
    {NoCall}
      \cup { c \in [phase : {"sent"}, tab : Tabs, op : Operations,
                    token : Tokens \cup {NoToken}, as : Users] :
               HasMinimumRole(c.as, ShownTo[c.op]) }
      \cup [phase : {"ok", "forbidden", "unauthorized", "failed"}, tab : Tabs]

SessionInv ==
    /\ now \in 0..MaxTime
    /\ storage \in Sessions \cup {NoSession}
    /\ session \in [Tabs -> Sessions \cup {NoSession}]
    /\ auth \in [Tabs -> AuthCalls]
    /\ work \in [Calls -> WorkCalls]
    /\ loading \in [Tabs -> BOOLEAN]
    /\ \A t \in Tabs : loading[t] = (auth[t] # NoCall)

-------------------------------------------------------------------------------
LEMMA TokenIsNone == ASSUME NEW tk \in Tokens PROVE tk # NoToken
  BY DEF Tokens, NoToken

LEMMA SessionIsNone == ASSUME NEW s \in Sessions PROVE s # NoSession
  BY DEF Sessions, NoSession

\* What the phase of a call of restore or login tells about it.
LEMMA AuthByPhase ==
  ASSUME NEW c \in AuthCalls
  PROVE  /\ c = NoCall \/ c.phase # "none"
         /\ c.phase = "login" => c.user \in Users
         /\ c.phase = "signed in" => c.next \in Sessions
         /\ c.phase \in {"restore", "restored"} => c.cached \in Sessions
         /\ c.phase = "restored" => c.live = c.cached.user
  <1>1. CASE c \in [phase : {"login"}, user : Users]  BY <1>1
  <1>2. CASE c \in [phase : {"signed in"}, next : Sessions]  BY <1>2
  <1>3. CASE c \in [phase : {"restore"}, cached : Sessions]  BY <1>3
  <1>4. CASE c \in { d \in [phase : {"restored"}, cached : Sessions, live : Users] :
                       d.live = d.cached.user }  BY <1>4
  <1>5. CASE c \in [phase : {"login failed"}, result : {"unauthorized", "failed"}]  BY <1>5
  <1>6. CASE c \in [phase : {"restore failed"}]  BY <1>6
  <1>7. CASE c = NoCall  BY <1>7 DEF NoCall
  <1> QED  BY <1>1, <1>2, <1>3, <1>4, <1>5, <1>6, <1>7 DEF AuthCalls

LEMMA WorkByPhase ==
  ASSUME NEW c \in WorkCalls
  PROVE  /\ c # NoCall => c.tab \in Tabs
         /\ c.phase = "sent" => /\ c.op \in Operations /\ c.as \in Users
                                /\ c.token \in Tokens \cup {NoToken}
                                /\ HasMinimumRole(c.as, ShownTo[c.op])
  BY DEF WorkCalls, NoCall

\* The pages and the routes ask for the same roles.
LEMMA SameRoles == ASSUME NEW op \in Operations PROVE RouteRole(op) = ShownTo[op]
  BY DEF Operations, RouteRole, ShownTo

-------------------------------------------------------------------------------
LEMMA InitHolds == Init => SessionInv
  <1>1. NoCall \in AuthCalls /\ NoCall \in WorkCalls  BY DEF AuthCalls, WorkCalls
  <1> SUFFICES ASSUME Init PROVE SessionInv  OBVIOUS
  <1>2. now \in 0..MaxTime  BY SessionAssumption DEF Init
  <1>3. session \in [Tabs -> Sessions \cup {NoSession}] /\ loading \in [Tabs -> BOOLEAN]
        BY DEF Init
  <1>4. auth \in [Tabs -> AuthCalls] /\ work \in [Calls -> WorkCalls]  BY <1>1 DEF Init
  <1>5. \A t \in Tabs : loading[t] = (auth[t] # NoCall)  BY DEF Init
  <1> QED  BY <1>2, <1>3, <1>4, <1>5 DEF Init, SessionInv

\* A token that is issued lives within the bound on times.
LEMMA IssuedSession ==
  ASSUME NEW u \in Users, now \in 0..MaxTime
  PROVE  [token |-> [user |-> u, exp |-> now + TokenTTL], user |-> u] \in Sessions
  BY SessionAssumption DEF Sessions, Tokens

LEMMA ServeLoginHolds ==
  ASSUME SessionInv, NEW t \in Tabs, ServeLogin(t) PROVE SessionInv'
  <1>1. auth[t] \in AuthCalls /\ auth[t].phase = "login" /\ auth[t].user \in Users
        BY AuthByPhase DEF SessionInv, ServeLogin, Issued
  <1>2. loading[t]  BY <1>1 DEF SessionInv, NoCall
  <1>3. \E c \in AuthCalls : c # NoCall /\ auth' = [auth EXCEPT ![t] = c]
    <2>1. CASE auth' = [auth EXCEPT ![t] =
                     [phase |-> "signed in",
                      next |-> [token |-> [user |-> auth[t].user, exp |-> now + TokenTTL],
                                user |-> auth[t].user]]]
          BY <1>1, <2>1, IssuedSession DEF SessionInv, AuthCalls, NoCall
    <2>2. CASE \E result \in {"unauthorized", "failed"} :
             auth' = [auth EXCEPT ![t] = [phase |-> "login failed", result |-> result]]
          BY <2>2 DEF AuthCalls, NoCall
    <2> QED  BY <2>1, <2>2 DEF ServeLogin, Issued
  <1> QED  BY <1>2, <1>3 DEF SessionInv, ServeLogin, Issued

LEMMA ServeSessionHolds ==
  ASSUME SessionInv, NEW t \in Tabs, ServeSession(t) PROVE SessionInv'
  <1>1. auth[t] \in AuthCalls /\ auth[t].phase = "restore" /\ auth[t].cached \in Sessions
        BY AuthByPhase DEF SessionInv, ServeSession
  <1>2. loading[t]  BY <1>1 DEF SessionInv, NoCall
  <1>3. \E c \in AuthCalls : c # NoCall /\ auth' = [auth EXCEPT ![t] = c]
    <2>1. [phase |-> "restored", cached |-> auth[t].cached,
           live |-> auth[t].cached.token.user] \in AuthCalls \ {NoCall}
          BY <1>1 DEF Sessions, Tokens, AuthCalls, NoCall
    <2>2. [phase |-> "restore failed"] \in AuthCalls \ {NoCall}  BY DEF AuthCalls, NoCall
    <2> QED  BY <2>1, <2>2 DEF ServeSession
  <1> QED  BY <1>2, <1>3 DEF SessionInv, ServeSession

LEMMA ServeWorkHolds ==
  ASSUME SessionInv, NEW k \in Calls, ServeWork(k) PROVE SessionInv'
  <1>1. work[k] \in WorkCalls /\ work[k].phase = "sent" /\ work[k].tab \in Tabs
        BY WorkByPhase DEF SessionInv, ServeWork, NoCall
  <1>2. PICK result \in Answers(work[k].op, work[k].token) :
          work' = [work EXCEPT ![k] = [phase |-> result, tab |-> work[k].tab]]
        BY DEF ServeWork
  <1>3. result \in {"ok", "forbidden", "unauthorized", "failed"}  BY DEF Answers
  <1>4. [phase |-> result, tab |-> work[k].tab] \in WorkCalls  BY <1>1, <1>3 DEF WorkCalls
  <1> QED  BY <1>2, <1>4 DEF SessionInv, ServeWork

LEMMA OpenHolds ==
  ASSUME SessionInv, NEW t \in Tabs, Open(t) PROVE SessionInv'
  <1>1. CASE storage = NoSession
        BY <1>1 DEF SessionInv, Open, AuthCalls, WorkCalls
  <1>2. CASE storage # NoSession
    <2>1. [phase |-> "restore", cached |-> storage] \in AuthCalls \ {NoCall}
          BY <1>2 DEF SessionInv, AuthCalls, NoCall
    <2>2. work' \in [Calls -> WorkCalls]  BY DEF SessionInv, Open, WorkCalls
    <2> QED  BY <1>2, <2>1, <2>2 DEF SessionInv, Open
  <1> QED  BY <1>1, <1>2

\* The end of restore, login and logout.
LEMMA SignedHolds ==
  ASSUME SessionInv, NEW t \in Tabs, NEW next \in Sessions \cup {NoSession},
         Signed(t, next), UNCHANGED <<now, work>>,
         Ended(t) \/ UNCHANGED <<loading, auth>>
  PROVE  SessionInv'
  BY DEF SessionInv, Signed, Ended, AuthCalls

LEMMA RestoredHolds ==
  ASSUME SessionInv, NEW t \in Tabs, Restored(t) PROVE SessionInv'
  <1>1. auth[t].cached \in Sessions /\ auth[t].live = auth[t].cached.user
        BY AuthByPhase DEF SessionInv, Restored
  <1>2. [token |-> auth[t].cached.token, user |-> auth[t].live] \in Sessions
        BY <1>1 DEF Sessions
  <1> QED  BY <1>2, SignedHolds DEF Restored

LEMMA RestoreFailedHolds ==
  ASSUME SessionInv, NEW t \in Tabs, RestoreFailed(t) PROVE SessionInv'
  BY SignedHolds DEF RestoreFailed

LEMMA SignedInHolds ==
  ASSUME SessionInv, NEW t \in Tabs, SignedIn(t) PROVE SessionInv'
  <1>1. auth[t].next \in Sessions  BY AuthByPhase DEF SessionInv, SignedIn
  <1> QED  BY <1>1, SignedHolds DEF SignedIn

LEMMA LogoutHolds ==
  ASSUME SessionInv, NEW t \in Tabs, Logout(t) PROVE SessionInv'
  BY SignedHolds DEF Logout

LEMMA LoginHolds ==
  ASSUME SessionInv, NEW t \in Tabs, NEW u \in Users, Login(t, u) PROVE SessionInv'
  <1>1. [phase |-> "login", user |-> u] \in AuthCalls \ {NoCall}  BY DEF AuthCalls, NoCall
  <1> QED  BY <1>1 DEF SessionInv, Login

LEMMA LoginFailedHolds ==
  ASSUME SessionInv, NEW t \in Tabs, LoginFailed(t) PROVE SessionInv'
  BY DEF SessionInv, LoginFailed, Ended, AuthCalls

LEMMA AskHolds ==
  ASSUME SessionInv, NEW t \in Tabs, NEW op \in Operations, NEW k \in Calls, Ask(t, op, k)
  PROVE  SessionInv'
  <1>1. session[t] \in Sessions  BY DEF SessionInv, Ask
  <1>2. session[t].user \in Users  BY <1>1 DEF Sessions
  <1>3. storage.token \in Tokens \cup {NoToken}  BY DEF SessionInv, Sessions, NoSession
  <1> DEFINE c == [phase |-> "sent", tab |-> t, op |-> op,
                   token |-> storage.token, as |-> session[t].user]
  <1>4. c \in WorkCalls  BY <1>2, <1>3 DEF Ask, WorkCalls
  <1>5. work' = [work EXCEPT ![k] = c]  BY DEF Ask
  <1> HIDE DEF c
  <1> QED  BY <1>4, <1>5 DEF SessionInv, Ask

LEMMA ReceiveWorkHolds ==
  ASSUME SessionInv, NEW k \in Calls, ReceiveWork(k) PROVE SessionInv'
  BY DEF SessionInv, ReceiveWork, WorkCalls

LEMMA NextHolds == SessionInv /\ [Next]_vars => SessionInv'
  <1> SUFFICES ASSUME SessionInv, [Next]_vars PROVE SessionInv'  OBVIOUS
  <1>1. CASE UNCHANGED vars  BY <1>1 DEF SessionInv, vars
  <1>2. CASE Tick  BY <1>2, SessionAssumption DEF SessionInv, Tick
  <1>3. ASSUME NEW t \in Tabs,
               Open(t) \/ Logout(t) \/ Authenticate(t) \/ \E u \in Users : Login(t, u)
        PROVE  SessionInv'
        BY <1>3, OpenHolds, LogoutHolds, ServeLoginHolds, ServeSessionHolds, RestoredHolds,
           RestoreFailedHolds, SignedInHolds, LoginFailedHolds, LoginHolds DEF Authenticate
  <1>4. ASSUME NEW t \in Tabs, NEW op \in Operations, NEW k \in Calls, Ask(t, op, k)
        PROVE  SessionInv'
        BY <1>4, AskHolds
  <1>5. ASSUME NEW k \in Calls, ServeWork(k) \/ ReceiveWork(k) PROVE SessionInv'
        BY <1>5, ServeWorkHolds, ReceiveWorkHolds
  <1> QED  BY <1>1, <1>2, <1>3, <1>4, <1>5 DEF Next

LEMMA SessionInvHolds == Spec => []SessionInv
  BY InitHolds, NextHolds, PTL DEF Spec

-------------------------------------------------------------------------------
\* Whatever the number of tabs and users, every variable keeps its type, and a
\* tab says that it is loading exactly while its restore or login is under way.
THEOREM SessionTypeCorrect == Spec => []TypeOK
  <1>1. SessionInv => TypeOK
    <2> SUFFICES ASSUME SessionInv PROVE TypeOK  OBVIOUS
    <2>1. Sessions \subseteq [token : Tokens, user : Users]  BY DEF Sessions
    <2>2. \A k \in Calls : work[k].phase = "sent" => work[k].token \in Tokens \cup {NoToken}
          BY WorkByPhase DEF SessionInv
    <2> QED  BY <2>1, <2>2 DEF SessionInv, TypeOK, Tokens
  <1> QED  BY <1>1, SessionInvHolds, PTL

\* However many tabs sign in, sign out and restore across each other, a stored
\* or shown session is that of the user whose token it holds (use-auth.ts).
THEOREM SessionsMatch == Spec => []SessionMatchesItsToken
  <1>1. SessionInv => SessionMatchesItsToken
    <2> SUFFICES ASSUME SessionInv,
                        NEW s \in {storage} \cup { session[t] : t \in Tabs }, s # NoSession
                 PROVE  s.token # NoToken /\ s.user = s.token.user
        BY DEF SessionMatchesItsToken
    <2>1. s \in Sessions  BY DEF SessionInv
    <2>2. s.token \in Tokens /\ s.user = s.token.user  BY <2>1 DEF Sessions
    <2> QED  BY <2>2, TokenIsNone
  <1> QED  BY <1>1, SessionInvHolds, PTL

\* For every assignment of roles, what a page shows to a user the server lets
\* that user do: a 403 goes to a call that left with somebody else's token.
THEOREM RefusalsAreAnothers == Spec => RefusedOnlyWithAnothersToken
  <1> DEFINE Refusals == \A k \in Calls :
                work[k].phase = "sent" /\ work'[k].phase = "forbidden" =>
                  work[k].token.user # work[k].as
  <1>1. ASSUME SessionInv, Next PROVE Refusals
    <2> SUFFICES ASSUME NEW k \in Calls, work[k].phase = "sent", work'[k].phase = "forbidden",
                        work[k].token.user = work[k].as
                 PROVE  FALSE
        OBVIOUS
    <2>1. work[k] \in WorkCalls  BY <1>1 DEF SessionInv
    <2>2. /\ work[k].op \in Operations
          /\ HasMinimumRole(work[k].as, ShownTo[work[k].op])
          BY <2>1, WorkByPhase
    <2>3. HasMinimumRole(work[k].token.user, RouteRole(work[k].op))  BY <2>2, SameRoles
    <2>4. "forbidden" \notin Answers(work[k].op, work[k].token)  BY <2>3 DEF Answers
    <2>5. ServeWork(k)
      <3>1. ASSUME NEW t \in Tabs, NEW op \in Operations, NEW l \in Calls, Ask(t, op, l)
            PROVE  FALSE
            BY <1>1, <3>1 DEF Ask, SessionInv, NoCall
      <3>2. ASSUME NEW l \in Calls, ReceiveWork(l) PROVE FALSE
            BY <1>1, <3>2 DEF ReceiveWork, SessionInv, NoCall
      <3>3. ASSUME NEW t \in Tabs, Open(t) PROVE FALSE
            BY <3>3 DEF Open, NoCall
      <3>4. ASSUME UNCHANGED work PROVE FALSE  BY <3>4
      <3>5. ASSUME NEW l \in Calls, ServeWork(l) PROVE ServeWork(k)
            BY <1>1, <3>5 DEF ServeWork, SessionInv
      <3> QED  BY <1>1, <3>1, <3>2, <3>3, <3>4, <3>5
               DEF Next, Tick, Logout, Login, Authenticate, ServeLogin, ServeSession,
                   Restored, RestoreFailed, SignedIn, LoginFailed
    <2>6. PICK result \in Answers(work[k].op, work[k].token) :
            work' = [work EXCEPT ![k] = [phase |-> result, tab |-> work[k].tab]]
          BY <2>5 DEF ServeWork
    <2> QED  BY <1>1, <2>4, <2>6 DEF SessionInv
  <1>2. SessionInv /\ [Next]_vars => [Refusals]_vars  BY <1>1 DEF vars
  <1> QED  BY <1>2, SessionInvHolds, PTL DEF Spec, RefusedOnlyWithAnothersToken

\* Once the stored session is gone and no tab waits for an answer, nothing but a
\* new sign-in brings one back: only restore and login store sessions, and a tab
\* that has one of them under way says that it is loading (use-auth.ts).
THEOREM SignedOutStays == Spec => SignedOutStaysSignedOut
  <1> DEFINE Stays == storage = NoSession /\ (\A t \in Tabs : ~loading[t]) => storage' = NoSession
  <1>1. ASSUME SessionInv, Next, storage = NoSession, \A t \in Tabs : ~loading[t]
        PROVE  storage' = NoSession
    <2>1. ASSUME NEW t \in Tabs PROVE auth[t].phase = "none"
      <3>1. auth[t] = NoCall  BY <1>1 DEF SessionInv
      <3> QED  BY <3>1 DEF NoCall
    <2>2. ASSUME NEW t \in Tabs, Restored(t) \/ SignedIn(t) PROVE FALSE
          BY <2>1, <2>2 DEF Restored, SignedIn
    <2>3. ASSUME NEW t \in Tabs, RestoreFailed(t) \/ LoginFailed(t) \/ Logout(t)
          PROVE  storage' = NoSession
          BY <1>1, <2>3 DEF RestoreFailed, LoginFailed, Logout, Signed
    <2>4. ASSUME NEW k \in Calls, ReceiveWork(k) PROVE storage' = NoSession
          BY <1>1, <2>4 DEF ReceiveWork
    <2> QED  BY <1>1, <2>2, <2>3, <2>4
             DEF Next, Open, Login, Ask, ServeWork, Tick, Authenticate, ServeLogin, ServeSession
  <1>2. SessionInv /\ [Next]_vars => [Stays]_vars  BY <1>1 DEF vars
  <1> QED  BY <1>2, SessionInvHolds, PTL DEF Spec, SignedOutStaysSignedOut
===============================================================================
