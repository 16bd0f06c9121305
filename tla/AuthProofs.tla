----------------------------- MODULE AuthProofs -----------------------------
(***************************************************************************)
(* Theorems about what stands behind /auth: the sessions of a user, for any *)
(* browsers, calls, sessions, lifetimes and bounds, and the limiter in      *)
(* front of it, for any limit, window and requests.                         *)
(*                                                                          *)
(* Of the sessions, the first part is the type invariant, which needs to    *)
(* know what a call carries in which phase; the second adds what links the  *)
(* stored tokens and the calls under way to the rows they came from.        *)
(***************************************************************************)
EXTENDS Sessions, FiniteSetTheorems, TLAPS

\* A call carries what the next step of its phase reads.
Carries(r) ==
    /\ r.phase \in {"login", "loaded", "answered"} => r.made \in Clock
    /\ r.phase \in {"refresh", "loaded", "logout"} => r.refresh \in Clock
    /\ r.phase \in {"loaded", "answered"} => r.row \in Sessions

CallsCarry == \A q \in Requests : Carries(req[q])

TypeInv == TypeOK /\ CallsCarry

\* The idle record is none of the calls under way.
LEMMA IdleShape ==
    /\ Idle.phase = "idle" /\ Idle.browser = None /\ Idle.retried = FALSE
    /\ Idle.access = NoAccess /\ Idle.refresh = None /\ Idle.row = None
    /\ Idle.made = None /\ Idle.call = "none"
    /\ Carries(Idle)
BY DEF Idle, Carries

\* A call that is in some phase is a record of that phase.
LEMMA InPhase ==
    ASSUME TypeInv, NEW q \in Requests, req[q].phase # "idle"
    PROVE  /\ req[q] \in UnderWay
           /\ Carries(req[q])
BY IdleShape DEF TypeInv, TypeOK, CallsCarry

\* Replacing one call by a well-formed one keeps them all well-formed.
LEMMA BecomeGood ==
    ASSUME TypeInv, NEW q \in Requests, NEW r, Become(q, r),
           r \in UnderWay \cup {Idle}, Carries(r)
    PROVE  /\ req' \in [Requests -> UnderWay \cup {Idle}]
           /\ CallsCarry'
BY DEF TypeInv, TypeOK, CallsCarry, Become, Carries

LEMMA BecomeIdle ==
    ASSUME TypeInv, NEW q \in Requests, Become(q, Idle)
    PROVE  /\ req' \in [Requests -> UnderWay \cup {Idle}]
           /\ CallsCarry'
BY BecomeGood, IdleShape

\* What the table's operators do to the types of rows, ends and histories.
LEMMA HoldTypes ==
    ASSUME TypeInv, NEW s \in Sessions, NEW t \in Clock, Hold(s, t)
    PROVE  /\ rows' \in [Sessions -> Moment]
           /\ issued' \in [Sessions -> SUBSET Clock]
BY DEF TypeInv, TypeOK, Hold, Moment

LEMMA DeleteTypes ==
    ASSUME TypeInv, NEW s \in Sessions, DeleteSession(s)
    PROVE  /\ rows' \in [Sessions -> Moment]
           /\ endedAt' \in [Sessions -> Moment]
BY DEF TypeInv, TypeOK, DeleteSession, Moment

LEMMA InitTypes == Init => TypeInv
<1>1. 0 \in Clock /\ 0 \in 0..MaxLosses
  BY BoundAssumption DEF Clock
<1>2. Init => TypeOK
  BY <1>1 DEF Init, TypeOK, Moment
<1>3. Init => CallsCarry
  BY IdleShape DEF Init, CallsCarry
<1> QED
  BY <1>2, <1>3 DEF TypeInv

LEMMA LoginTypes ==
    ASSUME TypeInv, NEW q \in Requests, Login(q)
    PROVE  TypeInv'
<1>1. ASSUME NEW b \in Browsers, LoginMakesTokens(q, b)
      PROVE  TypeInv'
  <2> DEFINE new == [Idle EXCEPT !.phase = "login", !.call = "login",
                                 !.browser = b, !.made = clock]
  <2>1. new \in UnderWay /\ Carries(new)
    BY DEF TypeInv, TypeOK, UnderWay, Idle, Phases, Calls, Access, Moment,
           Carries
  <2>2. Become(q, new)
    BY <1>1 DEF LoginMakesTokens
  <2> HIDE DEF new
  <2>3. req' \in [Requests -> UnderWay \cup {Idle}] /\ CallsCarry'
    BY <2>1, <2>2, BecomeGood
  <2> QED
    BY <1>1, <2>3 DEF LoginMakesTokens, TypeInv, TypeOK
<1>2. ASSUME NEW s \in Sessions, LoginCommits(q, s)
      PROVE  TypeInv'
  <2> DEFINE new == [req[q] EXCEPT !.phase = "answered", !.row = s]
  <2>1. req[q] \in UnderWay /\ Carries(req[q]) /\ req[q].phase = "login"
    BY <1>2, InPhase DEF LoginCommits, In
  <2>2. new \in UnderWay /\ Carries(new)
    BY <2>1 DEF UnderWay, Phases, Carries
  <2>3. Become(q, new)
    BY <1>2 DEF LoginCommits
  <2> HIDE DEF new
  <2>4. req' \in [Requests -> UnderWay \cup {Idle}] /\ CallsCarry'
    BY <2>2, <2>3, BecomeGood
  <2>5. req[q].made \in Clock
    BY <2>1 DEF Carries
  <2>6. rows' \in [Sessions -> Moment] /\ issued' \in [Sessions -> SUBSET Clock]
    BY <1>2, <2>5, HoldTypes DEF LoginCommits
  <2> QED
    BY <1>2, <2>4, <2>6 DEF LoginCommits, TypeInv, TypeOK
<1>3. ASSUME LoginCollides(q) PROVE TypeInv'
  BY <1>3, BecomeIdle DEF LoginCollides, TypeInv, TypeOK
<1> QED
  BY <1>1, <1>2, <1>3 DEF Login

LEMMA CallTypes ==
    ASSUME TypeInv, NEW q \in Requests, Call(q)
    PROVE  TypeInv'
<1>1. ASSUME NEW b \in Browsers, NEW call \in ApiCalls, Send(q, b, call)
      PROVE  TypeInv'
  <2> DEFINE new == [Idle EXCEPT !.phase = "sent", !.call = call,
                                 !.browser = b, !.access = store[b].access]
  <2>1. store[b] \in Storage
    BY <1>1 DEF Send, TypeInv, TypeOK
  <2>2. new \in UnderWay /\ Carries(new)
    BY <2>1 DEF UnderWay, Idle, Phases, Calls, Access, Moment, Carries, Storage
  <2>3. Become(q, new)
    BY <1>1 DEF Send
  <2> HIDE DEF new
  <2>4. req' \in [Requests -> UnderWay \cup {Idle}] /\ CallsCarry'
    BY <2>2, <2>3, BecomeGood
  <2> QED
    BY <1>1, <2>4 DEF Send, TypeInv, TypeOK
<1>2. ASSUME Serve(q) PROVE TypeInv'
  <2>1. req' \in [Requests -> UnderWay \cup {Idle}] /\ CallsCarry'
    BY <1>2, BecomeIdle DEF Serve
  <2>2. rows' \in [Sessions -> Moment] /\ endedAt' \in [Sessions -> Moment]
    BY <1>2, DeleteTypes DEF Serve, TypeInv, TypeOK
  <2>3. served' \in [Sessions -> Moment]
    BY <1>2 DEF Serve, TypeInv, TypeOK, Moment
  <2> QED
    BY <1>2, <2>1, <2>2, <2>3 DEF Serve, TypeInv, TypeOK
<1>3. ASSUME Unauthorized(q) PROVE TypeInv'
  <2> DEFINE new == [req[q] EXCEPT !.phase = "refresh", !.retried = TRUE,
                         !.access = NoAccess,
                         !.refresh = store[req[q].browser].refresh]
  <2>1. req[q] \in UnderWay /\ Carries(req[q]) /\ req[q].phase = "sent"
    BY <1>3, InPhase DEF Unauthorized, In
  <2>2. CASE Become(q, Idle)
    BY <1>3, <2>2, BecomeIdle DEF Unauthorized, TypeInv, TypeOK
  <2>3. CASE /\ Waiting(q) /\ store[req[q].browser] # Empty
             /\ Become(q, new)
    <3>1. req[q].browser \in Browsers
      BY <2>1, <2>3 DEF Waiting, UnderWay
    <3>2. store[req[q].browser] \in Storage
      BY <3>1, <2>3 DEF TypeInv, TypeOK
    <3>3. new \in UnderWay /\ Carries(new)
      BY <2>1, <3>2 DEF UnderWay, Phases, Access, Moment, Carries, Storage
    <3> HIDE DEF new
    <3>4. req' \in [Requests -> UnderWay \cup {Idle}] /\ CallsCarry'
      BY <2>3, <3>3, BecomeGood
    <3> QED
      BY <1>3, <3>4 DEF Unauthorized, TypeInv, TypeOK
  <2> QED
    BY <1>3, <2>2, <2>3 DEF Unauthorized
<1>4. ASSUME ReceiveTokens(q) PROVE TypeInv'
  <2> DEFINE access == [made |-> req[q].made, of |-> req[q].row]
             new == [Idle EXCEPT !.phase = "sent", !.call = req[q].call,
                         !.browser = req[q].browser, !.access = access,
                         !.retried = TRUE]
             pair == [access |-> access, refresh |-> req[q].made]
  <2>1. req[q] \in UnderWay /\ Carries(req[q]) /\ req[q].phase = "answered"
    BY <1>4, InPhase DEF ReceiveTokens, In
  <2>2. req[q].made \in Clock /\ req[q].row \in Sessions
    BY <2>1 DEF Carries
  <2>3. access \in AccessToken /\ pair \in Storage
    BY <2>2 DEF AccessToken, Storage
  <2>4. new \in UnderWay /\ Carries(new)
    BY <2>1, <2>3 DEF UnderWay, Idle, Phases, Access, Moment, Carries
  <2>5. Become(q, Idle) \/ Become(q, new)
    BY <1>4 DEF ReceiveTokens
  <2>6. store' = store \/ store' = [store EXCEPT ![req[q].browser] = pair]
    BY <1>4 DEF ReceiveTokens
  <2>7. store' \in [Browsers -> Storage \cup {Empty}]
    BY <2>3, <2>6 DEF TypeInv, TypeOK
  <2> HIDE DEF new, pair, access
  <2>8. req' \in [Requests -> UnderWay \cup {Idle}] /\ CallsCarry'
    BY <2>4, <2>5, BecomeGood, BecomeIdle
  <2> QED
    BY <1>4, <2>7, <2>8 DEF ReceiveTokens, TypeInv, TypeOK
<1>5. ASSUME TurnedOut(q) PROVE TypeInv'
  BY <1>5, BecomeIdle DEF TurnedOut, TypeInv, TypeOK
<1> QED
  BY <1>1, <1>2, <1>3, <1>4, <1>5 DEF Call

\* The steps that only move a call on to another phase.
LEMMA MoveTypes ==
    ASSUME TypeInv, NEW q \in Requests, NEW phase \in {"refused", "bye"},
           req[q].phase # "idle",
           Become(q, [req[q] EXCEPT !.phase = phase])
    PROVE  req' \in [Requests -> UnderWay \cup {Idle}] /\ CallsCarry'
<1> DEFINE new == [req[q] EXCEPT !.phase = phase]
<1>1. new \in UnderWay /\ Carries(new)
  BY InPhase DEF UnderWay, Phases, Carries
<1>2. Become(q, new)
  OBVIOUS
<1> HIDE DEF new
<1> QED
  BY <1>1, <1>2, BecomeGood

LEMMA RefreshTypes ==
    ASSUME TypeInv, NEW q \in Requests, Refresh(q)
    PROVE  TypeInv'
<1>1. ASSUME NEW s \in Sessions, RefreshLoads(q, s) PROVE TypeInv'
  <2> DEFINE new == [req[q] EXCEPT !.phase = "loaded", !.row = s,
                                   !.made = clock]
  <2>1. req[q] \in UnderWay /\ Carries(req[q]) /\ req[q].phase = "refresh"
    BY <1>1, InPhase DEF RefreshLoads, In
  <2>2. new \in UnderWay /\ Carries(new)
    BY <2>1 DEF TypeInv, TypeOK, UnderWay, Phases, Moment, Carries
  <2>3. Become(q, new)
    BY <1>1 DEF RefreshLoads
  <2> HIDE DEF new
  <2>4. req' \in [Requests -> UnderWay \cup {Idle}] /\ CallsCarry'
    BY <2>2, <2>3, BecomeGood
  <2> QED
    BY <1>1, <2>4 DEF RefreshLoads, TypeInv, TypeOK
<1>2. ASSUME RefreshFindsNothing(q) PROVE TypeInv'
  BY <1>2, MoveTypes DEF RefreshFindsNothing, In, TypeInv, TypeOK
<1>3. ASSUME RefreshCommits(q) PROVE TypeInv'
  <2> DEFINE new == [req[q] EXCEPT !.phase = "answered"]
  <2>1. req[q] \in UnderWay /\ Carries(req[q]) /\ req[q].phase = "loaded"
    BY <1>3, InPhase DEF RefreshCommits, In
  <2>2. new \in UnderWay /\ Carries(new)
    BY <2>1 DEF UnderWay, Phases, Carries
  <2>3. Become(q, new)
    BY <1>3 DEF RefreshCommits
  <2> HIDE DEF new
  <2>4. req' \in [Requests -> UnderWay \cup {Idle}] /\ CallsCarry'
    BY <2>2, <2>3, BecomeGood
  <2>5. req[q].made \in Clock /\ req[q].row \in Sessions
    BY <2>1 DEF Carries
  <2>6. rows' \in [Sessions -> Moment] /\ issued' \in [Sessions -> SUBSET Clock]
    BY <1>3, <2>5, HoldTypes DEF RefreshCommits, TypeInv, TypeOK
  <2> QED
    BY <1>3, <2>4, <2>6 DEF RefreshCommits, TypeInv, TypeOK
<1>4. ASSUME RefreshFails(q) PROVE TypeInv'
  BY <1>4, MoveTypes DEF RefreshFails, In, TypeInv, TypeOK
<1> QED
  BY <1>1, <1>2, <1>3, <1>4 DEF Refresh

LEMMA SignOutTypes ==
    ASSUME TypeInv, NEW q \in Requests, SignOut(q)
    PROVE  TypeInv'
<1>1. ASSUME NEW b \in Browsers, Logout(q, b) PROVE TypeInv'
  <2> DEFINE new == [Idle EXCEPT !.phase = "logout", !.call = "logout",
                                 !.browser = b, !.refresh = store[b].refresh]
  <2>1. store[b] \in Storage
    BY <1>1 DEF Logout, TypeInv, TypeOK
  <2>2. new \in UnderWay /\ Carries(new)
    BY <2>1 DEF UnderWay, Idle, Phases, Calls, Access, Moment, Carries, Storage
  <2>3. Become(q, new)
    BY <1>1 DEF Logout
  <2> HIDE DEF new
  <2>4. req' \in [Requests -> UnderWay \cup {Idle}] /\ CallsCarry'
    BY <2>2, <2>3, BecomeGood
  <2> QED
    BY <1>1, <2>4 DEF Logout, TypeInv, TypeOK
<1>2. ASSUME LogoutCommits(q) PROVE TypeInv'
  <2>1. req' \in [Requests -> UnderWay \cup {Idle}] /\ CallsCarry'
    BY <1>2, MoveTypes DEF LogoutCommits, In
  <2>2. rows' \in [Sessions -> Moment] /\ endedAt' \in [Sessions -> Moment]
    BY <1>2, DeleteTypes DEF LogoutCommits, TypeInv, TypeOK
  <2> QED
    BY <1>2, <2>1, <2>2 DEF LogoutCommits, TypeInv, TypeOK
<1>3. ASSUME ForgetTokens(q) PROVE TypeInv'
  BY <1>3, BecomeIdle DEF ForgetTokens, TypeInv, TypeOK
<1> QED
  BY <1>1, <1>2, <1>3 DEF SignOut

LEMMA LossTypes ==
    ASSUME TypeInv, NEW q \in Requests, Lose(q) \/ CloseTab(q)
    PROVE  TypeInv'
<1>1. losses' \in 0..MaxLosses
  BY BoundAssumption DEF Lose, CloseTab, TypeInv, TypeOK
<1>2. req' \in [Requests -> UnderWay \cup {Idle}] /\ CallsCarry'
  <2>1. CASE Lose(q)
    BY <2>1, BecomeIdle, MoveTypes DEF Lose, In
  <2>2. CASE CloseTab(q)
    <3> DEFINE new == [req[q] EXCEPT !.browser = None]
    <3>1. new \in UnderWay /\ Carries(new)
      BY <2>2, InPhase DEF CloseTab, UnderWay, Carries
    <3>2. Become(q, new)
      BY <2>2 DEF CloseTab
    <3> HIDE DEF new
    <3> QED
      BY <3>1, <3>2, BecomeGood
  <2> QED
    BY <2>1, <2>2
<1> QED
  BY <1>1, <1>2 DEF Lose, CloseTab, TypeInv, TypeOK

LEMMA TickTypes == TypeInv /\ Tick => TypeInv'
<1> SUFFICES ASSUME TypeInv, Tick PROVE TypeInv'
  OBVIOUS
<1>1. clock' \in Clock
  BY BoundAssumption DEF Tick, TypeInv, TypeOK, Clock
<1> QED
  BY <1>1 DEF Tick, TypeInv, TypeOK, CallsCarry

LEMMA StepTypes == TypeInv /\ [Next]_vars => TypeInv'
<1> SUFFICES ASSUME TypeInv, [Next]_vars PROVE TypeInv'
  OBVIOUS
<1>1. CASE UNCHANGED vars
  BY <1>1 DEF vars, TypeInv, TypeOK, CallsCarry
<1>2. CASE Next
  BY <1>2, TickTypes, LoginTypes, CallTypes, RefreshTypes, SignOutTypes,
     LossTypes DEF Next
<1> QED
  BY <1>1, <1>2

LEMMA TypeInvariant == Spec => []TypeInv
BY InitTypes, StepTypes, PTL DEF Spec

\* Rows, stores, calls and histories keep their types, for any numbers of
\* browsers, calls and sessions and any lifetimes of the tokens.
THEOREM SessionsTypeCorrect == Spec => []TypeOK
<1>1. TypeInv => TypeOK
  BY DEF TypeInv
<1> QED
  BY <1>1, TypeInvariant, PTL

-----------------------------------------------------------------------------
(* What links tokens to rows.  Everything a call or a store holds was true *)
(* of the histories when it was put there, and the histories only grow.    *)

\* An access token is not younger than the end of its session.
Old(token, now, ends) ==
    token # NoAccess =>
        /\ token.made <= now
        /\ ends[token.of] # None => token.made <= ends[token.of]

StoreSound(pair, now, ends, had) ==
    /\ Old(pair.access, now, ends)
    /\ pair # Empty => pair.refresh \in had[pair.access.of]

CallSound(r, now, ends, had) ==
    /\ r.phase = "sent" => Old(r.access, now, ends)
    /\ r.phase \in {"login", "loaded", "answered"} => r.made <= now
    /\ r.phase = "loaded" => r.refresh \in had[r.row]
    /\ r.phase = "answered" =>
          /\ r.made \in had[r.row]
          /\ ends[r.row] # None => r.made <= ends[r.row]

StoresSound == \A b \in Browsers : StoreSound(store[b], clock, endedAt, issued)
CallsSound == \A q \in Requests : CallSound(req[q], clock, endedAt, issued)
RowsIssued == \A s \in Sessions : rows[s] # None => rows[s] \in issued[s]
ServedEnded == \A s \in Sessions : served[s] # None => endedAt[s] # None

SafeInv ==
    /\ EndedStaysEnded
    /\ RevocationTakesHold
    /\ ServedEnded
    /\ RowsIssued
    /\ StoresSound
    /\ CallsSound

\* Time, ends and histories go one way.
Onward ==
    /\ clock <= clock'
    /\ \A s \in Sessions :
          /\ \/ endedAt'[s] = endedAt[s]
             \/ endedAt[s] = None /\ endedAt'[s] = clock
          /\ issued[s] \subseteq issued'[s]

LEMMA ClockIsNat == TypeInv => clock \in Nat /\ MaxClock \in Nat
BY BoundAssumption DEF TypeInv, TypeOK, Clock

LEMMA OldStaysOld ==
    ASSUME TypeInv, TypeInv', Onward, NEW token \in Access,
           Old(token, clock, endedAt)
    PROVE  Old(token, clock', endedAt')
<1> SUFFICES ASSUME token # NoAccess
             PROVE  /\ token.made <= clock'
                    /\ endedAt'[token.of] # None =>
                           token.made <= endedAt'[token.of]
  BY DEF Old
<1>1. /\ token.of \in Sessions /\ token.made \in Nat
      /\ clock \in Nat /\ clock' \in Nat
  BY BoundAssumption DEF Access, AccessToken, Clock, TypeInv, TypeOK
<1>2. token.made <= clock
  BY DEF Old
<1>3. token.made <= clock'
  BY <1>1, <1>2 DEF Onward
<1>4. CASE endedAt'[token.of] = endedAt[token.of]
  BY <1>3, <1>4 DEF Old
<1>5. CASE endedAt'[token.of] = clock
  BY <1>2, <1>3, <1>5
<1> QED
  BY <1>1, <1>4, <1>5 DEF Onward

LEMMA CallStaysSound ==
    ASSUME TypeInv, TypeInv', Onward, NEW r \in UnderWay \cup {Idle},
           Carries(r), CallSound(r, clock, endedAt, issued)
    PROVE  CallSound(r, clock', endedAt', issued')
<1>1. ASSUME r.phase = "sent" PROVE Old(r.access, clock', endedAt')
  <2>1. r.access \in Access
    BY <1>1, IdleShape DEF UnderWay
  <2> QED
    BY <1>1, <2>1, OldStaysOld DEF CallSound
<1>2. ASSUME r.phase \in {"login", "loaded", "answered"}
      PROVE  r.made <= clock'
  <2>1. r.made \in Nat /\ clock \in Nat /\ clock' \in Nat
    BY <1>2, BoundAssumption DEF Carries, Clock, TypeInv, TypeOK
  <2> QED
    BY <1>2, <2>1 DEF CallSound, Onward
<1>3. ASSUME r.phase = "loaded" PROVE r.refresh \in issued'[r.row]
  BY <1>3 DEF CallSound, Onward, Carries
<1>4. ASSUME r.phase = "answered"
      PROVE  /\ r.made \in issued'[r.row]
             /\ endedAt'[r.row] # None => r.made <= endedAt'[r.row]
  <2>1. r.row \in Sessions /\ r.made <= clock
    BY <1>4 DEF CallSound, Carries
  <2>2. r.made \in issued'[r.row]
    BY <1>4, <2>1 DEF CallSound, Onward
  <2>3. CASE endedAt'[r.row] = endedAt[r.row]
    BY <1>4, <2>2, <2>3 DEF CallSound
  <2>4. CASE endedAt'[r.row] = clock
    BY <2>1, <2>2, <2>4
  <2> QED
    BY <2>1, <2>3, <2>4 DEF Onward
<1> QED
  BY <1>1, <1>2, <1>3, <1>4 DEF CallSound

\* One call is replaced by a sound one.
LEMMA BecomeSound ==
    ASSUME TypeInv, TypeInv', CallsSound, Onward, NEW q \in Requests, NEW r,
           Become(q, r), CallSound(r, clock', endedAt', issued')
    PROVE  CallsSound'
<1> SUFFICES ASSUME NEW p \in Requests
             PROVE  CallSound(req'[p], clock', endedAt', issued')
  BY DEF CallsSound
<1>1. CASE p = q
  BY <1>1 DEF Become, TypeInv, TypeOK
<1>2. CASE p # q
  <2>1. req'[p] = req[p]
    BY <1>2 DEF Become, TypeInv, TypeOK
  <2>2. /\ req[p] \in UnderWay \cup {Idle}
        /\ Carries(req[p])
        /\ CallSound(req[p], clock, endedAt, issued)
    BY DEF TypeInv, TypeOK, CallsCarry, CallsSound
  <2> QED
    BY <2>1, <2>2, CallStaysSound
<1> QED
  BY <1>1, <1>2

LEMMA IdleSound ==
    ASSUME NEW now, NEW ends, NEW had PROVE CallSound(Idle, now, ends, had)
BY IdleShape DEF CallSound

LEMMA CallsKept ==
    ASSUME TypeInv, TypeInv', CallsSound, Onward, req' = req
    PROVE  CallsSound'
<1> SUFFICES ASSUME NEW p \in Requests
             PROVE  CallSound(req[p], clock', endedAt', issued')
  BY DEF CallsSound
<1>1. /\ req[p] \in UnderWay \cup {Idle}
      /\ Carries(req[p])
      /\ CallSound(req[p], clock, endedAt, issued)
  BY DEF TypeInv, TypeOK, CallsCarry, CallsSound
<1> QED
  BY <1>1, CallStaysSound

\* A store that holds a pair is one of Storage, and it stays sound.
LEMMA StoreStaysSound ==
    ASSUME TypeInv, TypeInv', Onward, StoresSound, NEW b \in Browsers
    PROVE  StoreSound(store[b], clock', endedAt', issued')
<1>1. StoreSound(store[b], clock, endedAt, issued)
  BY DEF StoresSound
<1>2. store[b].access \in Access
  BY DEF TypeInv, TypeOK, Storage, Empty, Access
<1>3. Old(store[b].access, clock', endedAt')
  BY <1>1, <1>2, OldStaysOld DEF StoreSound
<1>4. store[b] # Empty => store[b].access.of \in Sessions
  BY DEF TypeInv, TypeOK, Storage, AccessToken
<1> QED
  BY <1>1, <1>3, <1>4 DEF StoreSound, Onward

LEMMA StoresKept ==
    ASSUME TypeInv, TypeInv', Onward, StoresSound, store' = store
    PROVE  StoresSound'
BY StoreStaysSound DEF StoresSound

LEMMA EmptySound ==
    ASSUME NEW now, NEW ends, NEW had
    PROVE  StoreSound(Empty, now, ends, had)
BY DEF StoreSound, Empty, Old

LEMMA StoresEmptied ==
    ASSUME TypeInv, TypeInv', Onward, StoresSound, NEW b,
           store' = [store EXCEPT ![b] = Empty]
    PROVE  StoresSound'
<1> SUFFICES ASSUME NEW c \in Browsers
             PROVE  StoreSound(store'[c], clock', endedAt', issued')
  BY DEF StoresSound
<1>1. store'[c] = store[c] \/ store'[c] = Empty
  BY DEF TypeInv, TypeOK
<1> QED
  BY <1>1, StoreStaysSound, EmptySound

-----------------------------------------------------------------------------
(* Steps on the tables.                                                    *)

Tables == EndedStaysEnded /\ RevocationTakesHold /\ ServedEnded /\ RowsIssued

LEMMA TimeGoesOn ==
    ASSUME TypeInv, clock' = clock \/ clock' = clock + 1,
           UNCHANGED <<endedAt, issued>>
    PROVE  Onward
BY ClockIsNat DEF Onward

LEMMA TablesKept ==
    ASSUME Tables, UNCHANGED <<rows, endedAt, served, issued>>
    PROVE  Tables'
BY DEF Tables, EndedStaysEnded, RevocationTakesHold, ServedEnded, RowsIssued

\* A session that has not ended gets a token.
LEMMA TokenHeld ==
    ASSUME TypeInv, Tables, NEW s \in Sessions, NEW t \in Clock,
           endedAt[s] = None, Hold(s, t), UNCHANGED <<clock, endedAt, served>>
    PROVE  Tables' /\ Onward /\ t \in issued'[s]
<1>1. \A x \in Sessions :
          /\ rows'[x] = IF x = s THEN t ELSE rows[x]
          /\ issued'[x] = IF x = s THEN issued[x] \cup {t} ELSE issued[x]
  BY DEF Hold, TypeInv, TypeOK
<1>2. Onward /\ t \in issued'[s]
  <2>1. clock <= clock'
    BY ClockIsNat
  <2>2. \A x \in Sessions : issued[x] \subseteq issued'[x]
    BY <1>1
  <2>3. t \in issued'[s]
    BY <1>1
  <2> QED
    BY <2>1, <2>2, <2>3 DEF Onward
<1>3. EndedStaysEnded' /\ RowsIssued'
  BY <1>1 DEF Tables, EndedStaysEnded, RowsIssued
<1>4. RevocationTakesHold' /\ ServedEnded'
  BY DEF Tables, RevocationTakesHold, ServedEnded
<1> QED
  BY <1>2, <1>3, <1>4 DEF Tables

\* A session is ended, unless it was before.
LEMMA SessionDeleted ==
    ASSUME TypeInv, Tables, NEW s \in Sessions, DeleteSession(s),
           UNCHANGED <<clock, issued>>
    PROVE  /\ EndedStaysEnded' /\ RowsIssued' /\ Onward
           /\ \A x \in Sessions : endedAt[x] # None => endedAt'[x] = endedAt[x]
<1>1. clock # None
  BY ClockIsNat, NoneAssumption
<1>2. \A x \in Sessions :
          /\ rows'[x] = IF x = s THEN None ELSE rows[x]
          /\ endedAt'[x] = IF x = s /\ rows[x] # None THEN clock
                           ELSE endedAt[x]
  BY DEF DeleteSession, TypeInv, TypeOK
<1>3. \A x \in Sessions : rows[x] # None => endedAt[x] = None
  BY DEF Tables, EndedStaysEnded
<1>4. EndedStaysEnded' /\ RowsIssued'
  BY <1>2 DEF Tables, EndedStaysEnded, RowsIssued
<1>5. Onward
  BY <1>2, <1>3, ClockIsNat DEF Onward
<1> QED
  BY <1>2, <1>3, <1>4, <1>5

\* Whoever was served keeps being served in time when ends are not moved.
LEMMA ServedKept ==
    ASSUME Tables, UNCHANGED served,
           \A x \in Sessions : endedAt[x] # None => endedAt'[x] = endedAt[x]
    PROVE  RevocationTakesHold' /\ ServedEnded'
BY DEF Tables, RevocationTakesHold, ServedEnded

LEMMA InitSafe == Init => SafeInv
<1> SUFFICES ASSUME Init PROVE SafeInv
  OBVIOUS
<1>1. EndedStaysEnded /\ RevocationTakesHold /\ ServedEnded /\ RowsIssued
  BY DEF Init, EndedStaysEnded, RevocationTakesHold, ServedEnded, RowsIssued
<1>2. StoresSound
  BY EmptySound DEF Init, StoresSound
<1>3. CallsSound
  BY IdleSound DEF Init, CallsSound
<1> QED
  BY <1>1, <1>2, <1>3 DEF SafeInv

-----------------------------------------------------------------------------
(* The steps of a call.                                                    *)

\* A step that ends a call, leaves the tables alone and at most empties a
\* store.
LEMMA EndsSafe ==
    ASSUME TypeInv, TypeInv', SafeInv, NEW q \in Requests, Become(q, Idle),
           UNCHANGED <<clock, rows, endedAt, served, issued>>,
           \/ store' = store
           \/ \E b \in Browsers : store' = [store EXCEPT ![b] = Empty]
    PROVE  SafeInv'
<1>1. Onward /\ Tables'
  BY TimeGoesOn, TablesKept DEF SafeInv, Tables
<1>2. StoresSound'
  BY <1>1, StoresKept, StoresEmptied DEF SafeInv
<1>3. CallsSound'
  BY <1>1, BecomeSound, IdleSound DEF SafeInv
<1> QED
  BY <1>1, <1>2, <1>3 DEF SafeInv, Tables

\* A step that leaves everything but one call alone.
LEMMA MovesSafe ==
    ASSUME TypeInv, TypeInv', SafeInv, NEW q \in Requests, NEW r,
           Become(q, r), CallSound(r, clock, endedAt, issued),
           UNCHANGED <<clock, rows, store, endedAt, served, issued>>
    PROVE  SafeInv'
<1>1. Onward /\ Tables'
  BY TimeGoesOn, TablesKept DEF SafeInv, Tables
<1>2. StoresSound'
  BY <1>1, StoresKept DEF SafeInv
<1>3. CallSound(r, clock', endedAt', issued')
  OBVIOUS
<1>4. CallsSound'
  BY <1>1, <1>3, BecomeSound DEF SafeInv
<1> QED
  BY <1>1, <1>2, <1>4 DEF SafeInv, Tables

\* A call that is under way, and what is known of it.
LEMMA UnderWaySound ==
    ASSUME TypeInv, SafeInv, NEW q \in Requests, req[q].phase # "idle"
    PROVE  /\ req[q] \in UnderWay
           /\ Carries(req[q])
           /\ CallSound(req[q], clock, endedAt, issued)
BY InPhase DEF SafeInv, CallsSound

LEMMA LoginSafe ==
    ASSUME TypeInv, TypeInv', SafeInv, NEW q \in Requests, Login(q)
    PROVE  SafeInv'
<1>1. ASSUME NEW b \in Browsers, LoginMakesTokens(q, b) PROVE SafeInv'
  <2> DEFINE new == [Idle EXCEPT !.phase = "login", !.call = "login",
                                 !.browser = b, !.made = clock]
  <2>1. CallSound(new, clock, endedAt, issued)
    BY ClockIsNat DEF Idle, CallSound
  <2>2. Become(q, new)
    BY <1>1 DEF LoginMakesTokens
  <2> HIDE DEF new
  <2> QED
    BY <1>1, <2>1, <2>2, MovesSafe DEF LoginMakesTokens
<1>2. ASSUME NEW s \in Sessions, LoginCommits(q, s) PROVE SafeInv'
  <2> DEFINE new == [req[q] EXCEPT !.phase = "answered", !.row = s]
  <2>1. /\ req[q] \in UnderWay /\ Carries(req[q])
        /\ CallSound(req[q], clock, endedAt, issued)
        /\ req[q].phase = "login"
    BY <1>2, UnderWaySound DEF LoginCommits, In
  <2>2. req[q].made \in Clock /\ req[q].made <= clock
    BY <2>1 DEF Carries, CallSound
  <2>3. endedAt[s] = None
    BY <1>2 DEF LoginCommits, FreshSessions
  <2>4. Tables' /\ Onward /\ req[q].made \in issued'[s]
    BY <1>2, <2>2, <2>3, TokenHeld DEF LoginCommits, SafeInv, Tables
  <2>5. /\ new.phase = "answered" /\ new.row = s /\ new.made = req[q].made
    BY <2>1 DEF UnderWay
  <2>6. Become(q, new) /\ store' = store /\ clock' = clock /\ endedAt' = endedAt
    BY <1>2 DEF LoginCommits
  <2> HIDE DEF new
  <2>7. CallSound(new, clock', endedAt', issued')
    BY <2>2, <2>3, <2>4, <2>5, <2>6 DEF CallSound
  <2>8. CallsSound' /\ StoresSound'
    BY <2>4, <2>6, <2>7, BecomeSound, StoresKept DEF SafeInv
  <2> QED
    BY <2>4, <2>8 DEF SafeInv, Tables
<1>3. ASSUME LoginCollides(q) PROVE SafeInv'
  BY <1>3, EndsSafe DEF LoginCollides
<1> QED
  BY <1>1, <1>2, <1>3 DEF Login

\* A served call came with a token that had not expired.
LEMMA ServeSafe ==
    ASSUME TypeInv, TypeInv', SafeInv, NEW q \in Requests, Serve(q)
    PROVE  SafeInv'
<1> DEFINE token == req[q].access
<1>1. /\ req[q] \in UnderWay
      /\ CallSound(req[q], clock, endedAt, issued)
      /\ req[q].phase = "sent"
  BY UnderWaySound DEF Serve, In
<1>2. /\ token \in AccessToken /\ token # NoAccess
      /\ clock <= token.made + AccessLife
  BY <1>1 DEF Serve, AccessValid, UnderWay, Access
<1>3. Old(token, clock, endedAt)
  BY <1>1 DEF CallSound
<1>4. /\ EndedStaysEnded' /\ RowsIssued' /\ Onward
      /\ \A x \in Sessions : endedAt[x] # None => endedAt'[x] = endedAt[x]
  <2>1. CASE req[q].call \in Sessions
    BY <2>1, SessionDeleted DEF Serve, SafeInv, Tables
  <2>2. CASE UNCHANGED <<rows, endedAt>>
    BY <2>2, TimeGoesOn DEF Serve, SafeInv, EndedStaysEnded, RowsIssued
  <2> QED
    BY <2>1, <2>2 DEF Serve
<1>5. endedAt[token.of] # None => clock <= endedAt[token.of] + AccessLife
  <2> SUFFICES ASSUME endedAt[token.of] # None
               PROVE  clock <= endedAt[token.of] + AccessLife
    OBVIOUS
  <2>1. token.made <= endedAt[token.of]
    BY <1>2, <1>3 DEF Old
  <2>2. /\ clock \in Nat /\ token.made \in Nat /\ AccessLife \in Nat
        /\ endedAt[token.of] \in Nat
    BY <1>2, ClockIsNat, LifeAssumption
    DEF AccessToken, TypeInv, TypeOK, Moment, Clock
  <2> QED
    BY <1>2, <2>1, <2>2
<1>6. \A x \in Sessions :
          \/ served'[x] = served[x]
          \/ x = token.of /\ endedAt[x] # None /\ served'[x] = clock
  BY DEF Serve, TypeInv, TypeOK
<1> HIDE DEF token
<1>7. ServedEnded' /\ RevocationTakesHold'
  <2> SUFFICES ASSUME NEW x \in Sessions, served'[x] # None
               PROVE  /\ endedAt'[x] # None
                      /\ served'[x] <= endedAt'[x] + AccessLife
    BY DEF ServedEnded, RevocationTakesHold
  <2>1. CASE served'[x] = served[x]
    BY <1>4, <2>1 DEF SafeInv, ServedEnded, RevocationTakesHold
  <2>2. CASE x = token.of /\ endedAt[x] # None /\ served'[x] = clock
    BY <1>4, <1>5, <2>2
  <2> QED
    BY <1>6, <2>1, <2>2
<1>8. StoresSound' /\ CallsSound'
  BY <1>4, StoresKept, BecomeSound, IdleSound DEF Serve, SafeInv
<1> QED
  BY <1>4, <1>7, <1>8 DEF SafeInv

\* The pair of an answer reaches a store: it was committed before.
LEMMA ReceiveSafe ==
    ASSUME TypeInv, TypeInv', SafeInv, NEW q \in Requests, ReceiveTokens(q)
    PROVE  SafeInv'
<1> DEFINE access == [made |-> req[q].made, of |-> req[q].row]
           new == [Idle EXCEPT !.phase = "sent", !.call = req[q].call,
                       !.browser = req[q].browser, !.access = access,
                       !.retried = TRUE]
           pair == [access |-> access, refresh |-> req[q].made]
<1>1. /\ req[q] \in UnderWay /\ Carries(req[q])
      /\ CallSound(req[q], clock, endedAt, issued)
      /\ req[q].phase = "answered"
  BY UnderWaySound DEF ReceiveTokens, In
<1>2. Old(access, clock, endedAt)
  BY <1>1 DEF CallSound, Old
<1>3. StoreSound(pair, clock, endedAt, issued)
  BY <1>1, <1>2 DEF CallSound, StoreSound
<1>4. CallSound(new, clock, endedAt, issued)
  BY <1>2 DEF CallSound, Idle
<1>5. /\ Become(q, Idle) \/ Become(q, new)
      /\ store' = store \/ store' = [store EXCEPT ![req[q].browser] = pair]
      /\ UNCHANGED <<clock, rows, endedAt, served, issued>>
  BY DEF ReceiveTokens
<1> HIDE DEF access, new, pair
<1>6. Onward /\ Tables'
  BY <1>5, TimeGoesOn, TablesKept DEF SafeInv, Tables
<1>7. CallsSound'
  BY <1>4, <1>5, <1>6, BecomeSound, IdleSound DEF SafeInv
<1>8. ASSUME NEW b \in Browsers
      PROVE  StoreSound(store'[b], clock', endedAt', issued')
  <2>1. store'[b] = store[b] \/ store'[b] = pair
    BY <1>5 DEF TypeInv, TypeOK
  <2> QED
    BY <1>3, <1>5, <1>6, <2>1, StoreStaysSound DEF SafeInv
<1> QED
  BY <1>6, <1>7, <1>8 DEF SafeInv, Tables, StoresSound

LEMMA CallSafe ==
    ASSUME TypeInv, TypeInv', SafeInv, NEW q \in Requests, Call(q)
    PROVE  SafeInv'
<1>1. ASSUME NEW b \in Browsers, NEW call \in ApiCalls, Send(q, b, call)
      PROVE  SafeInv'
  <2> DEFINE new == [Idle EXCEPT !.phase = "sent", !.call = call,
                                 !.browser = b, !.access = store[b].access]
  <2>1. Old(store[b].access, clock, endedAt)
    BY DEF SafeInv, StoresSound, StoreSound
  <2>2. CallSound(new, clock, endedAt, issued)
    BY <2>1 DEF CallSound, Idle
  <2>3. Become(q, new)
    BY <1>1 DEF Send
  <2> HIDE DEF new
  <2> QED
    BY <1>1, <2>2, <2>3, MovesSafe DEF Send
<1>2. ASSUME Unauthorized(q) PROVE SafeInv'
  <2> DEFINE new == [req[q] EXCEPT !.phase = "refresh", !.retried = TRUE,
                         !.access = NoAccess,
                         !.refresh = store[req[q].browser].refresh]
  <2>1. new.phase = "refresh"
    BY <1>2, UnderWaySound DEF Unauthorized, In, UnderWay
  <2>2. Become(q, Idle) \/ Become(q, new)
    BY <1>2 DEF Unauthorized
  <2> HIDE DEF new
  <2>3. CallSound(new, clock, endedAt, issued)
    BY <2>1 DEF CallSound
  <2> QED
    BY <1>2, <2>2, <2>3, MovesSafe, EndsSafe DEF Unauthorized
<1>3. ASSUME TurnedOut(q) PROVE SafeInv'
  <2>1. \/ store' = store
        \/ /\ req[q].browser \in Browsers
           /\ store' = [store EXCEPT ![req[q].browser] = Empty]
    BY <1>3, UnderWaySound DEF TurnedOut, In, Waiting, UnderWay
  <2> QED
    BY <1>3, <2>1, EndsSafe DEF TurnedOut
<1> QED
  BY <1>1, <1>2, <1>3, ServeSafe, ReceiveSafe DEF Call

\* The steps that only move a call on to another phase.
LEMMA MoveSound ==
    ASSUME TypeInv, SafeInv, NEW q \in Requests,
           NEW phase \in {"refused", "bye"}, req[q].phase # "idle"
    PROVE  CallSound([req[q] EXCEPT !.phase = phase], clock, endedAt, issued)
BY UnderWaySound DEF UnderWay, CallSound

LEMMA RefreshSafe ==
    ASSUME TypeInv, TypeInv', SafeInv, NEW q \in Requests, Refresh(q)
    PROVE  SafeInv'
<1>1. ASSUME NEW s \in Sessions, RefreshLoads(q, s) PROVE SafeInv'
  <2> DEFINE new == [req[q] EXCEPT !.phase = "loaded", !.row = s,
                                   !.made = clock]
  <2>1. req[q] \in UnderWay /\ Carries(req[q]) /\ req[q].phase = "refresh"
    BY <1>1, UnderWaySound DEF RefreshLoads, In
  <2>2. rows[s] # None
    BY <1>1, <2>1, NoneAssumption DEF RefreshLoads, Carries, Clock
  <2>3. req[q].refresh \in issued[s]
    BY <1>1, <2>2 DEF RefreshLoads, SafeInv, RowsIssued
  <2>4. CallSound(new, clock, endedAt, issued)
    BY <2>1, <2>3, ClockIsNat DEF UnderWay, CallSound
  <2>5. Become(q, new)
    BY <1>1 DEF RefreshLoads
  <2> HIDE DEF new
  <2> QED
    BY <1>1, <2>4, <2>5, MovesSafe DEF RefreshLoads
<1>2. ASSUME RefreshFindsNothing(q) PROVE SafeInv'
  BY <1>2, MoveSound, MovesSafe DEF RefreshFindsNothing, In
<1>3. ASSUME RefreshCommits(q) PROVE SafeInv'
  <2> DEFINE new == [req[q] EXCEPT !.phase = "answered"]
             s == req[q].row
  <2>1. /\ req[q] \in UnderWay /\ Carries(req[q])
        /\ CallSound(req[q], clock, endedAt, issued)
        /\ req[q].phase = "loaded"
    BY <1>3, UnderWaySound DEF RefreshCommits, In
  <2>2. s \in Sessions /\ req[q].made \in Clock /\ req[q].made <= clock
    BY <2>1 DEF Carries, CallSound
  <2>3. endedAt[s] = None
    BY <1>3, <2>2 DEF RefreshCommits, SafeInv, EndedStaysEnded
  <2>4. Tables' /\ Onward /\ req[q].made \in issued'[s]
    <3>1. CASE TokenUnchanged(q)
      BY <1>3, <2>1, <3>1, TimeGoesOn, TablesKept
      DEF RefreshCommits, TokenUnchanged, CallSound, SafeInv, Tables
    <3>2. CASE ~TokenUnchanged(q)
      BY <1>3, <2>2, <2>3, <3>2, TokenHeld DEF RefreshCommits, SafeInv, Tables
    <3> QED
      BY <3>1, <3>2
  <2>5. new.phase = "answered" /\ new.row = s /\ new.made = req[q].made
    BY <2>1 DEF UnderWay
  <2>6. Become(q, new) /\ store' = store /\ clock' = clock /\ endedAt' = endedAt
    BY <1>3 DEF RefreshCommits
  <2> HIDE DEF new, s
  <2>7. CallSound(new, clock', endedAt', issued')
    BY <2>2, <2>3, <2>4, <2>5, <2>6 DEF CallSound
  <2>8. CallsSound' /\ StoresSound'
    BY <2>4, <2>6, <2>7, BecomeSound, StoresKept DEF SafeInv
  <2> QED
    BY <2>4, <2>8 DEF SafeInv, Tables
<1>4. ASSUME RefreshFails(q) PROVE SafeInv'
  BY <1>4, MoveSound, MovesSafe DEF RefreshFails, In
<1> QED
  BY <1>1, <1>2, <1>3, <1>4 DEF Refresh

LEMMA SignOutSafe ==
    ASSUME TypeInv, TypeInv', SafeInv, NEW q \in Requests, SignOut(q)
    PROVE  SafeInv'
<1>1. ASSUME NEW b \in Browsers, Logout(q, b) PROVE SafeInv'
  <2> DEFINE new == [Idle EXCEPT !.phase = "logout", !.call = "logout",
                                 !.browser = b, !.refresh = store[b].refresh]
  <2>1. CallSound(new, clock, endedAt, issued)
    BY DEF CallSound, Idle
  <2>2. Become(q, new)
    BY <1>1 DEF Logout
  <2> HIDE DEF new
  <2> QED
    BY <1>1, <2>1, <2>2, MovesSafe DEF Logout
<1>2. ASSUME LogoutCommits(q) PROVE SafeInv'
  <2> DEFINE new == [req[q] EXCEPT !.phase = "bye"]
  <2>1. new.phase = "bye" /\ Become(q, new)
    BY <1>2, UnderWaySound DEF LogoutCommits, In, UnderWay
  <2> HIDE DEF new
  <2>2. /\ EndedStaysEnded' /\ RowsIssued' /\ Onward
        /\ \A x \in Sessions : endedAt[x] # None => endedAt'[x] = endedAt[x]
    <3>1. CASE \E s \in Sessions : DeleteSession(s)
      BY <1>2, <3>1, SessionDeleted DEF LogoutCommits, SafeInv, Tables
    <3>2. CASE UNCHANGED <<rows, endedAt>>
      BY <1>2, <3>2, TimeGoesOn
      DEF LogoutCommits, SafeInv, EndedStaysEnded, RowsIssued
    <3> QED
      BY <1>2, <3>1, <3>2 DEF LogoutCommits
  <2>3. RevocationTakesHold' /\ ServedEnded'
    BY <1>2, <2>2, ServedKept DEF LogoutCommits, SafeInv, Tables
  <2>4. CallSound(new, clock', endedAt', issued')
    BY <2>1 DEF CallSound
  <2>5. CallsSound' /\ StoresSound'
    BY <1>2, <2>1, <2>2, <2>4, BecomeSound, StoresKept
    DEF LogoutCommits, SafeInv
  <2> QED
    BY <2>2, <2>3, <2>5 DEF SafeInv
<1>3. ASSUME ForgetTokens(q) PROVE SafeInv'
  <2>1. \/ store' = store
        \/ /\ req[q].browser \in Browsers
           /\ store' = [store EXCEPT ![req[q].browser] = Empty]
    BY <1>3, UnderWaySound DEF ForgetTokens, In, Waiting, UnderWay
  <2> QED
    BY <1>3, <2>1, EndsSafe DEF ForgetTokens
<1> QED
  BY <1>1, <1>2, <1>3 DEF SignOut

LEMMA LossSafe ==
    ASSUME TypeInv, TypeInv', SafeInv, NEW q \in Requests,
           Lose(q) \/ CloseTab(q)
    PROVE  SafeInv'
<1>1. CASE Lose(q)
  BY <1>1, MoveSound, MovesSafe, EndsSafe DEF Lose, In
<1>2. CASE CloseTab(q)
  <2> DEFINE new == [req[q] EXCEPT !.browser = None]
  <2>1. /\ req[q] \in UnderWay
        /\ CallSound(req[q], clock, endedAt, issued)
    BY <1>2, UnderWaySound DEF CloseTab
  <2>2. CallSound(new, clock, endedAt, issued)
    BY <2>1 DEF UnderWay, CallSound
  <2>3. Become(q, new)
    BY <1>2 DEF CloseTab
  <2> HIDE DEF new
  <2> QED
    BY <1>2, <2>2, <2>3, MovesSafe DEF CloseTab
<1> QED
  BY <1>1, <1>2

-----------------------------------------------------------------------------

LEMMA StepSafe == TypeInv /\ TypeInv' /\ SafeInv /\ [Next]_vars => SafeInv'
<1> SUFFICES ASSUME TypeInv, TypeInv', SafeInv, [Next]_vars PROVE SafeInv'
  OBVIOUS
<1>1. ASSUME clock' = clock \/ clock' = clock + 1,
             UNCHANGED <<rows, store, req, endedAt, served, issued>>
      PROVE  SafeInv'
  <2>1. Onward /\ Tables'
    BY <1>1, TimeGoesOn, TablesKept DEF SafeInv, Tables
  <2>2. StoresSound' /\ CallsSound'
    BY <1>1, <2>1, StoresKept, CallsKept DEF SafeInv
  <2> QED
    BY <2>1, <2>2 DEF SafeInv, Tables
<1>2. CASE UNCHANGED vars
  BY <1>1, <1>2 DEF vars
<1>3. CASE Tick
  BY <1>1, <1>3 DEF Tick
<1>4. ASSUME NEW q \in Requests,
             Login(q) \/ Call(q) \/ Refresh(q) \/ SignOut(q)
                 \/ Lose(q) \/ CloseTab(q)
      PROVE  SafeInv'
  BY <1>4, LoginSafe, CallSafe, RefreshSafe, SignOutSafe, LossSafe
<1> QED
  BY <1>2, <1>3, <1>4 DEF Next

LEMMA SafetyInvariant == Spec => []SafeInv
<1>1. Init => SafeInv
  BY InitSafe
<1> QED
  BY <1>1, StepSafe, TypeInvariant, PTL DEF Spec

\* No refresh, whenever it loaded its row, brings back a session that was
\* signed out or revoked.
THEOREM EndedSessionsStayEnded == Spec => []EndedStaysEnded
<1>1. SafeInv => EndedStaysEnded
  BY DEF SafeInv
<1> QED
  BY <1>1, SafetyInvariant, PTL

\* A page never keeps a refresh token that its session did not have.
THEOREM StoredTokensWereCommitted == Spec => []StoredWasCommitted
<1>1. SafeInv => StoredWasCommitted
  BY DEF SafeInv, StoresSound, StoreSound, StoredWasCommitted
<1> QED
  BY <1>1, SafetyInvariant, PTL

\* A session that was ended serves no call later than one lifetime of an
\* access token, under every interleaving and for any lifetime.
THEOREM RevocationIsBounded == Spec => []RevocationTakesHold
<1>1. SafeInv => RevocationTakesHold
  BY DEF SafeInv
<1> QED
  BY <1>1, SafetyInvariant, PTL

-----------------------------------------------------------------------------
(* The limiter.  Its invariant numbers the requests of the last minute that *)
(* were counted since the counter was last lost: it cannot run out while    *)
(* one of them is left, so no two of them have the same count, and those    *)
(* let in have counts up to the limit.                                      *)

CONSTANTS Arrivals, Limit, Window, MaxResets
VARIABLES count, left, request, age, resets

Limiter == INSTANCE RateLimit WITH Requests <- Arrivals

\* The instance counts as the module does.
LEMMA SameCardinality ==
    ASSUME NEW S
    PROVE  Limiter!Cardinality(S) = Cardinality(S)
BY DEF Limiter!Cardinality, Cardinality

Arrival == [at : {"unsent", "counted", "failed", "passed", "refused"},
            count : Nat, load : Nat, life : Nat]

LimiterTypeOK ==
    /\ count \in Nat /\ left \in 0..Window /\ resets \in 0..MaxResets
    /\ age \in [Arrivals -> 0..Window]
    /\ request \in [Arrivals -> Arrival]
    /\ IsFiniteSet(Limiter!LastMinute)

\* A request was counted while the key was there that is there now.
Current(r) == request[r].life = resets

\* The requests of the last minute are counted through, and each of this life
\* of the key before the key expires.
Numbered ==
    \A r \in Limiter!LastMinute :
        /\ request[r].at # "unsent" /\ request[r].count >= 1 /\ request[r].life <= resets
        /\ Current(r) => request[r].count <= count /\ Window - age[r] <= left
        /\ \A q \in Limiter!LastMinute :
              request[q].count = request[r].count /\ request[q].life = request[r].life => q = r

PassedAreLow == \A r \in Arrivals : request[r].at = "passed" => request[r].count <= Limit

LimiterInv == LimiterTypeOK /\ Numbered /\ PassedAreLow

\* Nobody has been counted yet.
LEMMA LimiterInitInv ==
    ASSUME Window \in Nat, MaxResets \in Nat, Limiter!Init
    PROVE  LimiterInv
<1>1. Limiter!LastMinute = {}
  BY DEF Limiter!Init, Limiter!LastMinute
<1>2. \A r \in Arrivals : request[r] \in Arrival /\ request[r].at = "unsent"
  BY DEF Limiter!Init, Limiter!Unsent, Arrival
<1>3. LimiterTypeOK
  BY <1>1, <1>2, FS_EmptySet DEF LimiterTypeOK, Limiter!Init
<1> QED
  BY <1>1, <1>2, <1>3 DEF LimiterInv, Numbered, PassedAreLow

\* What happens to a request after it was counted leaves the counts alone.
LEMMA AnswerInv ==
    ASSUME LimiterInv, Window \in Nat, Limit \in Int, NEW r \in Arrivals,
           Limiter!Answer(r) \/ Limiter!RedisFails(r)
    PROVE  LimiterInv'
<1>1. /\ request[r] \in Arrival
      /\ \A q \in Arrivals \ {r} : request'[q] = request[q]
      /\ request'[r] \in Arrival /\ request'[r].count = request[r].count
      /\ request'[r].life = request[r].life /\ request'[r].at # "unsent"
      /\ UNCHANGED <<count, left, age, resets>> /\ Limiter!LastMinute' = Limiter!LastMinute
  BY DEF Limiter!Answer, Limiter!RedisFails, Limiter!LastMinute, LimiterInv, LimiterTypeOK, Arrival
<1>2. request' \in [Arrivals -> Arrival]
  BY <1>1 DEF Limiter!Answer, Limiter!RedisFails, LimiterInv, LimiterTypeOK
<1>3. Numbered'
  BY <1>1 DEF LimiterInv, Numbered, Current, Limiter!LastMinute
<1>4. request'[r].at = "passed" => request[r].count <= Limit
  <2>1. request[r].count \in Nat
    BY <1>1 DEF Arrival
  <2>2. \/ request'[r] = [request[r] EXCEPT !.at = IF request[r].count > Limit THEN "refused" ELSE "passed"]
        \/ request'[r] = [request[r] EXCEPT !.at = "failed"]
    BY DEF Limiter!Answer, Limiter!RedisFails, LimiterInv, LimiterTypeOK
  <2> QED
    BY <1>1, <2>1, <2>2 DEF Arrival
<1>5. PassedAreLow'
  BY <1>1, <1>4 DEF LimiterInv, PassedAreLow
<1> QED
  BY <1>1, <1>2, <1>3, <1>5 DEF LimiterInv, LimiterTypeOK

\* The new request has the highest count since the last loss and a full minute
\* left.
LEMMA CountInv ==
    ASSUME LimiterInv, Window \in Nat, MaxResets \in Nat, NEW r \in Arrivals, Limiter!Count(r)
    PROVE  LimiterInv'
<1>1. request[r].at = "unsent" /\ r \notin Limiter!LastMinute
  BY DEF Limiter!Count, Limiter!Unsent, LimiterInv, Numbered
<1>2. IsFiniteSet(Limiter!LastMinute) /\ Limiter!Cardinality(Limiter!LastMinute) \in Nat
  BY FS_CardinalityType, SameCardinality DEF LimiterInv, LimiterTypeOK
<1>3. /\ count \in Nat /\ resets \in Nat
      /\ count' = count + 1 /\ left' = Window /\ resets' = resets
      /\ request' \in [Arrivals -> Arrival]
      /\ request'[r].at = "counted" /\ request'[r].count = count + 1 /\ request'[r].life = resets
      /\ \A q \in Arrivals \ {r} : request'[q] = request[q]
  BY <1>2 DEF Limiter!Count, LimiterInv, LimiterTypeOK, Arrival
<1>4. /\ age' \in [Arrivals -> 0..Window] /\ age'[r] = 0
      /\ \A q \in Arrivals \ {r} : age'[q] = age[q]
  BY DEF Limiter!Count, LimiterInv, LimiterTypeOK
<1>5. Limiter!LastMinute' \subseteq Limiter!LastMinute \cup {r}
  BY <1>4 DEF Limiter!LastMinute
<1>6. IsFiniteSet(Limiter!LastMinute')
  BY <1>2, <1>5, FS_AddElement, FS_Subset
<1>7. LimiterTypeOK'
  BY <1>3, <1>4, <1>6 DEF LimiterInv, LimiterTypeOK
<1>8. Numbered'
  <2> SUFFICES ASSUME NEW q \in Limiter!LastMinute'
               PROVE  /\ request'[q].at # "unsent" /\ request'[q].count >= 1
                      /\ request'[q].life <= resets'
                      /\ request'[q].life = resets' =>
                            request'[q].count <= count' /\ Window - age'[q] <= left'
                      /\ \A p \in Limiter!LastMinute' :
                            request'[p].count = request'[q].count
                              /\ request'[p].life = request'[q].life => p = q
    BY DEF Numbered, Current
  <2>1. \A p \in Limiter!LastMinute' : p = r \/ (p # r /\ p \in Limiter!LastMinute /\ p \in Arrivals)
    BY <1>5 DEF Limiter!LastMinute
  <2>2. ASSUME NEW p \in Limiter!LastMinute', p # r
        PROVE  /\ request'[p] = request[p] /\ request[p].at # "unsent"
               /\ request[p].count \in Nat /\ request[p].count >= 1
               /\ request[p].life \in Nat /\ request[p].life <= resets
               /\ request[p].life = resets => request[p].count <= count
    BY <2>1, <2>2, <1>3 DEF LimiterInv, LimiterTypeOK, Arrival, Numbered, Current
  <2>3. age'[q] \in 0..Window
    BY <1>4 DEF Limiter!LastMinute
  <2>4. /\ request'[q].at # "unsent" /\ request'[q].count >= 1 /\ request'[q].life <= resets'
        /\ request'[q].life = resets' =>
              request'[q].count <= count' /\ Window - age'[q] <= left'
    BY <2>2, <2>3, <1>3
  <2>5. ASSUME NEW p \in Limiter!LastMinute', request'[p].count = request'[q].count,
               request'[p].life = request'[q].life
        PROVE  p = q
    <3>1. CASE p # r /\ q # r
      BY <2>1, <2>2, <2>5, <3>1 DEF LimiterInv, Numbered
    <3>2. CASE p = r \/ q = r
      BY <2>2, <2>5, <3>2, <1>3
    <3> QED
      BY <3>1, <3>2
  <2> QED
    BY <2>4, <2>5
<1>9. PassedAreLow'
  BY <1>3 DEF LimiterInv, PassedAreLow
<1> QED
  BY <1>7, <1>8, <1>9 DEF LimiterInv

\* When the key expires, no request of its life is left in the last minute.
LEMMA TickInv ==
    ASSUME LimiterInv, Window \in Nat, Limiter!Tick
    PROVE  LimiterInv'
<1>1. /\ request' = request /\ resets' = resets /\ age' \in [Arrivals -> 0..Window]
      /\ left \in 0..Window /\ left' \in 0..Window /\ left' = IF left = 0 THEN 0 ELSE left - 1
      /\ count \in Nat /\ count' = IF left <= 1 THEN 0 ELSE count
      /\ \A r \in Arrivals : age[r] \in 0..Window
      /\ \A r \in Arrivals : age'[r] = IF age[r] < Window THEN age[r] + 1 ELSE Window
  BY DEF Limiter!Tick, LimiterInv, LimiterTypeOK
<1>2. ASSUME NEW r \in Limiter!LastMinute'
      PROVE  /\ r \in Limiter!LastMinute /\ r \in Arrivals
             /\ age[r] + 1 < Window /\ age'[r] = age[r] + 1
  BY <1>1 DEF Limiter!LastMinute
<1>3. ASSUME NEW r \in Limiter!LastMinute', Current(r)
      PROVE  left > 1 /\ Window - age'[r] <= left'
  <2>1. Window - age[r] <= left
    BY <1>2, <1>3 DEF LimiterInv, Numbered
  <2> QED
    BY <1>1, <1>2, <2>1
<1>4. IsFiniteSet(Limiter!LastMinute')
  BY <1>2, FS_Subset DEF LimiterInv, LimiterTypeOK
<1>5. LimiterTypeOK'
  BY <1>1, <1>4 DEF LimiterInv, LimiterTypeOK
<1>6. Numbered'
  BY <1>1, <1>2, <1>3 DEF LimiterInv, Numbered, Current
<1>7. PassedAreLow'
  BY <1>1 DEF LimiterInv, PassedAreLow
<1> QED
  BY <1>5, <1>6, <1>7 DEF LimiterInv

\* After a loss no request counted before is of the current life.
LEMMA LoseInv ==
    ASSUME LimiterInv, Window \in Nat, MaxResets \in Nat, Limiter!Lose
    PROVE  LimiterInv'
<1>1. /\ UNCHANGED <<request, age>> /\ Limiter!LastMinute' = Limiter!LastMinute
      /\ resets \in Nat /\ resets' = resets + 1 /\ resets' \in 0..MaxResets
      /\ count' = 0 /\ left' = 0
  BY DEF Limiter!Lose, Limiter!LastMinute, LimiterInv, LimiterTypeOK
<1>2. LimiterTypeOK'
  BY <1>1 DEF LimiterInv, LimiterTypeOK
<1>3. Numbered'
  <2>1. \A r \in Limiter!LastMinute : request[r].life \in Nat /\ request[r].life <= resets
    BY DEF Limiter!LastMinute, LimiterInv, LimiterTypeOK, Arrival, Numbered
  <2>2. \A r \in Limiter!LastMinute : ~ Current(r)' /\ request[r].life <= resets'
    BY <1>1, <2>1 DEF Current
  <2> QED
    BY <1>1, <2>2 DEF LimiterInv, Numbered
<1>4. PassedAreLow'
  BY <1>1 DEF LimiterInv, PassedAreLow
<1> QED
  BY <1>2, <1>3, <1>4 DEF LimiterInv

\* Different requests of one life with counts up to the limit are at most so
\* many.
LEMMA LimiterCounts ==
    ASSUME LimiterInv, Limit \in Nat
    PROVE  Limiter!WithinLimit
<1> SUFFICES ASSUME NEW n \in 0..MaxResets
             PROVE  Limiter!Cardinality({r \in Limiter!LastMinute :
                        request[r].at = "passed" /\ request[r].life = n}) <= Limit
  BY DEF Limiter!WithinLimit
<1> DEFINE S == {r \in Limiter!LastMinute : request[r].at = "passed" /\ request[r].life = n}
           f == [r \in S |-> request[r].count]
<1>1. \A r \in S : request[r].count \in 1..Limit
  BY DEF LimiterInv, LimiterTypeOK, Arrival, Numbered, PassedAreLow, Limiter!LastMinute
<1>2. f \in [S -> 1..Limit]
  BY <1>1
<1>3. \A q, r \in S : f[q] = f[r] => q = r
  BY DEF LimiterInv, Numbered
<1>4. f \in Injection(S, 1..Limit)
  BY <1>2, <1>3 DEF Injection, IsInjective
<1>5. IsFiniteSet(1..Limit) /\ Cardinality(1..Limit) = Limit
  BY FS_Interval
<1> HIDE DEF S, f
<1>6. Cardinality(S) <= Cardinality(1..Limit)
  BY <1>4, <1>5, FS_Injection
<1> QED
  BY <1>5, <1>6, SameCardinality DEF S

\* Between two losses of the counter the limiter never lets more than Limit
\* requests of a minute through, for any limit and window: README.md:431, "20
\* requests/minute/IP", as an upper bound (rate_limit_middleware).  As a
\* promise to clients it fails, see RefusedOnlyAboveLimit.
THEOREM LimiterLimits ==
    ASSUME Limit \in Nat, Window \in Nat, MaxResets \in Nat
    PROVE  Limiter!Spec => []Limiter!WithinLimit
<1>1. Limiter!Init => LimiterInv
  BY LimiterInitInv
<1>2. LimiterInv /\ [Limiter!Next]_(Limiter!vars) => LimiterInv'
  <2> SUFFICES ASSUME LimiterInv, [Limiter!Next]_(Limiter!vars) PROVE LimiterInv'
    OBVIOUS
  <2>1. ASSUME UNCHANGED Limiter!vars  PROVE LimiterInv'
    BY <2>1 DEF Limiter!vars, LimiterInv, LimiterTypeOK, Numbered, Current, PassedAreLow, Limiter!LastMinute
  <2>2. ASSUME Limiter!Next  PROVE LimiterInv'
    BY <2>2, CountInv, AnswerInv, TickInv, LoseInv DEF Limiter!Next
  <2> QED
    BY <2>1, <2>2
<1>3. LimiterInv => Limiter!WithinLimit
  BY LimiterCounts
<1> QED
  BY <1>1, <1>2, <1>3, PTL DEF Limiter!Spec
=============================================================================
