------------------------------ MODULE Sessions ------------------------------
(***************************************************************************)
(* The browser sessions of one user: signing in, calls with an access      *)
(* token, the refresh that every 401 starts, signing out and revoking      *)
(* (backend/app/api/v1/endpoints/auth.py, core/security.py,                *)
(* frontend/src/api/client.js, stores/auth.js).                            *)
(*                                                                         *)
(* A token is a JWT of the user and an expiry in whole seconds, so a       *)
(* refresh token is modelled by the second it was made in: two tokens of   *)
(* one user made in the same second are equal.  An access token also       *)
(* names, as history, the session it was issued for.                       *)
(*                                                                         *)
(* The tabs of a browser share its localStorage.  A call and the handlers  *)
(* it needs proceed one await at a time, and calls of any tab and browser  *)
(* run in between.                                                         *)
(*                                                                         *)
(* Left out: wrong passwords and other users' tokens, which change         *)
(* nothing; registration and the change of a password, which leave the     *)
(* sessions alone; the deletion of the account, which ends them all.       *)
(***************************************************************************)
EXTENDS Naturals

CONSTANTS
    Browsers,     \* each has one localStorage
    Requests,     \* calls under way: the bound on concurrent calls
    Sessions,     \* primary keys of table sessions: the bound on sign-ins
    AccessLife,   \* ACCESS_TOKEN_EXPIRE_MINUTES, in seconds
    RefreshLife,  \* REFRESH_TOKEN_EXPIRE_DAYS, in seconds
    MaxClock,     \* bound on time
    MaxLosses,    \* bound on lost calls, lost answers and closed tabs
    None          \* no token, no session, nobody waiting for the answer

ASSUME LifeAssumption == AccessLife \in Nat /\ RefreshLife \in Nat
ASSUME BoundAssumption == MaxClock \in Nat /\ MaxLosses \in Nat
ASSUME NoneAssumption == None \notin Browsers \cup Sessions \cup Nat

VARIABLES
    clock,    \* seconds
    rows,     \* table sessions: the refresh token of each, or None
    store,    \* the localStorage of each browser
    req,      \* the calls under way
    losses,   \* calls, answers and tabs lost so far
    endedAt,  \* history: when a session was signed out or revoked
    served,   \* history: when a call of a session that had ended was last served
    issued    \* history: the refresh tokens a session has had

vars == <<clock, rows, store, req, losses, endedAt, served, issued>>

Clock == 0..MaxClock
Moment == Clock \cup {None}

AccessToken == [made : Clock, of : Sessions]
NoAccess == [made |-> None, of |-> None]
Access == AccessToken \cup {NoAccess}

\* access_token and refresh_token are set together and removed together.
Storage == [access : AccessToken, refresh : Clock]
Empty == [access |-> NoAccess, refresh |-> None]

\* GET and the like, or DELETE /auth/sessions/{id}.
ApiCalls == {"get"} \cup Sessions
Calls == ApiCalls \cup {"login", "logout"}
Phases == {"login", "sent", "refresh", "loaded", "answered", "refused",
           "logout", "bye"}
UnderWay == [phase : Phases, call : Calls,
             browser : Browsers \cup {None},  \* whose page waits, if any
             access : Access,                 \* the Authorization header
             refresh : Moment,                \* the refresh_token of the body
             row : Sessions \cup {None},      \* the session loaded or created
             made : Moment,                   \* when the new tokens were made
             retried : BOOLEAN]               \* original._retry
Idle == [phase |-> "idle", call |-> "none", browser |-> None,
         access |-> NoAccess, refresh |-> None, row |-> None,
         made |-> None, retried |-> FALSE]

Init ==
    /\ clock = 0
    /\ rows = [s \in Sessions |-> None]
    /\ store = [b \in Browsers |-> Empty]
    /\ req = [q \in Requests |-> Idle]
    /\ losses = 0
    /\ endedAt = [s \in Sessions |-> None]
    /\ served = [s \in Sessions |-> None]
    /\ issued = [s \in Sessions |-> {}]

-----------------------------------------------------------------------------
(* Tokens and the table. *)

\* Error: the expiry is not looked at.
AccessValid_Forever(token) == token # NoAccess

\* decode_token refuses a token when its expiry is before this second.
AccessValid(token) == token # NoAccess /\ clock <= token.made + AccessLife
RefreshValid(token) == clock <= token + RefreshLife

\* uuid4 never repeats a key.
FreshSessions == {s \in Sessions : rows[s] = None /\ endedAt[s] = None}

\* The column refresh_token is unique.
MayHold(s, token) == \A other \in Sessions \ {s} : rows[other] # token

Hold(s, token) ==
    /\ rows' = [rows EXCEPT ![s] = token]
    /\ issued' = [issued EXCEPT ![s] = @ \cup {token}]

DeleteSession(s) ==
    /\ rows' = [rows EXCEPT ![s] = None]
    /\ endedAt' = [endedAt EXCEPT ![s] = IF rows[s] = None THEN @ ELSE clock]

In(q, phase) == req[q].phase = phase
Become(q, record) == req' = [req EXCEPT ![q] = record]
Waiting(q) == req[q].browser # None

-----------------------------------------------------------------------------
(* POST /auth/login. *)

\* The login page is shown to guests only; the password is right.
LoginMakesTokens(q, b) ==
    /\ req[q] = Idle
    /\ store[b] = Empty
    /\ Become(q, [Idle EXCEPT !.phase = "login", !.call = "login",
                              !.browser = b, !.made = clock])
    /\ UNCHANGED <<clock, rows, store, losses, endedAt, served, issued>>

LoginCommits(q, s) ==
    /\ In(q, "login")
    /\ s \in FreshSessions
    /\ MayHold(s, req[q].made)
    /\ Hold(s, req[q].made)
    /\ Become(q, [req[q] EXCEPT !.phase = "answered", !.row = s])
    /\ UNCHANGED <<clock, store, losses, endedAt, served>>

\* IntegrityError: the user signed in or refreshed elsewhere in this second.
LoginCollides(q) ==
    /\ In(q, "login")
    /\ \E s \in Sessions : rows[s] = req[q].made
    /\ Become(q, Idle)
    /\ UNCHANGED <<clock, rows, store, losses, endedAt, served, issued>>

-----------------------------------------------------------------------------
(* A call of the page, and what the interceptors make of its answer. *)

\* The request interceptor adds the stored access token.
Send(q, b, call) ==
    /\ req[q] = Idle
    /\ store[b] # Empty
    /\ Become(q, [Idle EXCEPT !.phase = "sent", !.call = call, !.browser = b,
                              !.access = store[b].access])
    /\ UNCHANGED <<clock, rows, store, losses, endedAt, served, issued>>

\* get_current_user accepts the token; it does not look at the session.
Serve(q) ==
    /\ In(q, "sent")
    /\ AccessValid(req[q].access)
    /\ LET s == req[q].access.of IN
       served' = [served EXCEPT ![s] = IF endedAt[s] = None THEN @ ELSE clock]
    /\ IF req[q].call \in Sessions
         THEN DeleteSession(req[q].call)
         ELSE UNCHANGED <<rows, endedAt>>
    /\ Become(q, Idle)
    /\ UNCHANGED <<clock, store, losses, issued>>

\* A 401.  The first one of a call starts a refresh with the token that is
\* stored now, whatever other calls are doing.
Unauthorized(q) ==
    /\ In(q, "sent")
    /\ ~AccessValid(req[q].access)
    /\ IF Waiting(q) /\ ~req[q].retried /\ store[req[q].browser] # Empty
         THEN Become(q, [req[q] EXCEPT !.phase = "refresh", !.retried = TRUE,
                             !.access = NoAccess,
                             !.refresh = store[req[q].browser].refresh])
         ELSE Become(q, Idle)
    /\ UNCHANGED <<clock, rows, store, losses, endedAt, served, issued>>

\* Error: an answer that lacks refresh_token is stored all the same.
ReceiveTokens_Unchecked(q) ==
    /\ In(q, "answered")
    /\ store' = [store EXCEPT ![req[q].browser] =
                     [access |-> [made |-> req[q].made, of |-> req[q].row],
                      refresh |-> None]]
    /\ Become(q, Idle)
    /\ UNCHANGED <<clock, rows, losses, endedAt, served, issued>>

\* The page stores the new pair and repeats the call that was refused.
ReceiveTokens(q) ==
    /\ In(q, "answered")
    /\ LET access == [made |-> req[q].made, of |-> req[q].row] IN
       IF Waiting(q)
         THEN /\ store' = [store EXCEPT ![req[q].browser] =
                     [access |-> access, refresh |-> req[q].made]]
              /\ Become(q, IF req[q].call = "login" THEN Idle
                           ELSE [Idle EXCEPT !.phase = "sent",
                                    !.call = req[q].call,
                                    !.browser = req[q].browser,
                                    !.access = access, !.retried = TRUE])
         ELSE /\ Become(q, Idle)
              /\ UNCHANGED store
    /\ UNCHANGED <<clock, rows, losses, endedAt, served, issued>>

\* catch: the tokens are removed, whatever they are by now, and the tab goes
\* to the login page.
TurnedOut(q) ==
    /\ In(q, "refused")
    /\ store' = IF Waiting(q) THEN [store EXCEPT ![req[q].browser] = Empty]
                ELSE store
    /\ Become(q, Idle)
    /\ UNCHANGED <<clock, rows, losses, endedAt, served, issued>>

-----------------------------------------------------------------------------
(* POST /auth/refresh. *)

RefreshLoads(q, s) ==
    /\ In(q, "refresh")
    /\ RefreshValid(req[q].refresh)
    /\ rows[s] = req[q].refresh
    /\ Become(q, [req[q] EXCEPT !.phase = "loaded", !.row = s, !.made = clock])
    /\ UNCHANGED <<clock, rows, store, losses, endedAt, served, issued>>

RefreshFindsNothing(q) ==
    /\ In(q, "refresh")
    /\ RefreshValid(req[q].refresh) =>
           \A s \in Sessions : rows[s] # req[q].refresh
    /\ Become(q, [req[q] EXCEPT !.phase = "refused"])
    /\ UNCHANGED <<clock, rows, store, losses, endedAt, served, issued>>

\* The new token equals the one that was loaded: the unit of work leaves the
\* column out of its UPDATE.
TokenUnchanged(q) == req[q].made = req[q].refresh

\* Error: the session is merged, which inserts it when it is gone.
RefreshCommits_Merges(q) ==
    /\ In(q, "loaded")
    /\ MayHold(req[q].row, req[q].made)
    /\ Hold(req[q].row, req[q].made)
    /\ Become(q, [req[q] EXCEPT !.phase = "answered"])
    /\ UNCHANGED <<clock, store, losses, endedAt, served>>

\* UPDATE by primary key: whatever token the row holds by now is replaced.
RefreshCommits(q) ==
    /\ In(q, "loaded")
    /\ rows[req[q].row] # None
    /\ IF TokenUnchanged(q)
         THEN UNCHANGED <<rows, issued>>
         ELSE /\ MayHold(req[q].row, req[q].made)
              /\ Hold(req[q].row, req[q].made)
    /\ Become(q, [req[q] EXCEPT !.phase = "answered"])
    /\ UNCHANGED <<clock, store, losses, endedAt, served>>

\* Error: the answer goes out although the commit has failed.
RefreshFails_Answered(q) ==
    /\ In(q, "loaded")
    /\ \/ rows[req[q].row] = None
       \/ ~TokenUnchanged(q) /\ ~MayHold(req[q].row, req[q].made)
    /\ Become(q, [req[q] EXCEPT !.phase = "answered"])
    /\ UNCHANGED <<clock, rows, store, losses, endedAt, served, issued>>

\* StaleDataError, the row is gone; or IntegrityError, another session of the
\* user has the token of this second.
RefreshFails(q) ==
    /\ In(q, "loaded")
    /\ \/ rows[req[q].row] = None
       \/ ~TokenUnchanged(q) /\ ~MayHold(req[q].row, req[q].made)
    /\ Become(q, [req[q] EXCEPT !.phase = "refused"])
    /\ UNCHANGED <<clock, rows, store, losses, endedAt, served, issued>>

-----------------------------------------------------------------------------
(* Signing out. *)

Logout(q, b) ==
    /\ req[q] = Idle
    /\ store[b] # Empty
    /\ Become(q, [Idle EXCEPT !.phase = "logout", !.call = "logout",
                              !.browser = b, !.refresh = store[b].refresh])
    /\ UNCHANGED <<clock, rows, store, losses, endedAt, served, issued>>

\* DELETE by token: a session whose token has been replaced stays.
LogoutCommits(q) ==
    /\ In(q, "logout")
    /\ IF \E s \in Sessions : rows[s] = req[q].refresh
         THEN \E s \in Sessions : rows[s] = req[q].refresh /\ DeleteSession(s)
         ELSE UNCHANGED <<rows, endedAt>>
    /\ Become(q, [req[q] EXCEPT !.phase = "bye"])
    /\ UNCHANGED <<clock, store, losses, served, issued>>

ForgetTokens(q) ==
    /\ In(q, "bye")
    /\ store' = IF Waiting(q) THEN [store EXCEPT ![req[q].browser] = Empty]
                ELSE store
    /\ Become(q, Idle)
    /\ UNCHANGED <<clock, rows, losses, endedAt, served, issued>>

-----------------------------------------------------------------------------
(* Time and loss. *)

Tick ==
    /\ clock < MaxClock
    /\ clock' = clock + 1
    /\ UNCHANGED <<rows, store, req, losses, endedAt, served, issued>>

\* The network loses the call or its answer.  A lost refresh ends in the same
\* catch as a refused one, a lost sign-out in the same removal as a done one.
Lose(q) ==
    /\ losses < MaxLosses
    /\ losses' = losses + 1
    /\ \/ /\ In(q, "refresh") \/ (In(q, "answered") /\ req[q].call # "login")
          /\ Become(q, [req[q] EXCEPT !.phase = "refused"])
       \/ /\ In(q, "logout")
          /\ Become(q, [req[q] EXCEPT !.phase = "bye"])
       \/ /\ In(q, "sent") \/ (In(q, "answered") /\ req[q].call = "login")
          /\ Become(q, Idle)
    /\ UNCHANGED <<clock, rows, store, endedAt, served, issued>>

\* The tab is closed or loads another page while a handler runs, which runs
\* to its end.
CloseTab(q) ==
    /\ losses < MaxLosses
    /\ losses' = losses + 1
    /\ req[q].phase \in {"login", "sent", "loaded", "logout"}
    /\ Waiting(q)
    /\ Become(q, [req[q] EXCEPT !.browser = None])
    /\ UNCHANGED <<clock, rows, store, endedAt, served, issued>>

-----------------------------------------------------------------------------

Login(q) ==
    \/ \E b \in Browsers : LoginMakesTokens(q, b)
    \/ \E s \in Sessions : LoginCommits(q, s)
    \/ LoginCollides(q)

Call(q) ==
    \/ \E b \in Browsers, call \in ApiCalls : Send(q, b, call)
    \/ Serve(q) \/ Unauthorized(q) \/ ReceiveTokens(q) \/ TurnedOut(q)

Refresh(q) ==
    \/ \E s \in Sessions : RefreshLoads(q, s)
    \/ RefreshFindsNothing(q) \/ RefreshCommits(q) \/ RefreshFails(q)

SignOut(q) ==
    \/ \E b \in Browsers : Logout(q, b)
    \/ LogoutCommits(q) \/ ForgetTokens(q)

Next ==
    \/ Tick
    \/ \E q \in Requests :
           Login(q) \/ Call(q) \/ Refresh(q) \/ SignOut(q)
               \/ Lose(q) \/ CloseTab(q)

Spec == Init /\ [][Next]_vars

-----------------------------------------------------------------------------
(* Properties. *)

\* Rows, stores and calls have their types.
TypeOK ==
    /\ clock \in Clock
    /\ rows \in [Sessions -> Moment]
    /\ store \in [Browsers -> Storage \cup {Empty}]
    /\ req \in [Requests -> UnderWay \cup {Idle}]
    /\ losses \in 0..MaxLosses
    /\ endedAt \in [Sessions -> Moment]
    /\ served \in [Sessions -> Moment]
    /\ issued \in [Sessions -> SUBSET Clock]

\* A refresh that loaded its session before the session was signed out or
\* revoked does not bring it back (auth.py:71-82 against 86-90 and 135-152).
EndedStaysEnded == \A s \in Sessions : endedAt[s] # None => rows[s] = None

\* The stored tokens of a browser belong together, and their session has had
\* them: whatever fails, is refused or collides in auth.py:66-83, no page
\* keeps a token that was never committed.
StoredWasCommitted ==
    \A b \in Browsers :
        store[b] # Empty => store[b].refresh \in issued[store[b].access.of]

\* Access tokens are not looked up, so a session that was ended still serves
\* calls, but never longer than one lifetime of an access token, refreshes
\* under way at that moment included (auth.py:78-82, deps.py:17-29).
RevocationTakesHold ==
    \A s \in Sessions :
        served[s] # None => served[s] <= endedAt[s] + AccessLife
=============================================================================
