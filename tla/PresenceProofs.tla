--------------------------- MODULE PresenceProofs ---------------------------
(***************************************************************************)
(* Proofs about Presence, for any number of sockets, processes and faults.  *)
(***************************************************************************)
EXTENDS Presence, TLAPS

W(s) == handler[s].at \in Writing

LEMMA Kinds ==
    /\ Absent \in Handler
    /\ Writing \subseteq Phases /\ Writing \subseteq Served
    /\ {"none", "loop", "tell", "broken", "ended", "leaked"} \cap Writing = {}
    /\ \A h \in Handler, phase \in Phases : Rest(h, phase) \in Handler
    /\ \A h \in Handler, phase \in Phases : Rest(h, phase).at = phase
    /\ \A h \in Handler, phase \in Phases : Rest(h, phase).proc = h.proc
    /\ \A h \in Handler : Rest(h, "ended").leg = "connect" /\ ~ Rest(h, "ended").alone
<1>1. /\ Absent \in Handler
      /\ Writing \subseteq Phases /\ Writing \subseteq Served
      /\ {"none", "loop", "tell", "broken", "ended", "leaked"} \cap Writing = {}
  BY DEF Absent, Handler, Writing, Phases, Served, Legs, Statuses
<1>2. \A h \in Handler, phase \in Phases :
         /\ Rest(h, phase) \in Handler
         /\ Rest(h, phase).at = phase /\ Rest(h, phase).proc = h.proc
  BY <1>1 DEF Absent, Handler, Rest
<1>3. \A h \in Handler : Rest(h, "ended").leg = "connect" /\ ~ Rest(h, "ended").alone
  BY DEF Absent, Rest
<1> QED
  BY <1>1, <1>2, <1>3

\* What a handler's own step leaves: the other handlers are as they were.
Only(s) == /\ handler'[s] \in Handler
           /\ \A o \in Sockets \ {s} : handler'[o] = handler[o]
           /\ handler' \in [Sockets -> Handler]

LEMMA BecomeOnly ==
    ASSUME TypeOK, NEW s \in Sockets, NEW h \in Handler, Become(s, h)
    PROVE  Only(s) /\ handler'[s] = h
BY DEF TypeOK, Become, Only

\* A step to another phase changes nothing but the phase.
LEMMA GotoOnly ==
    ASSUME TypeOK, NEW s \in Sockets, NEW phase \in Phases, Goto(s, phase)
    PROVE  /\ Only(s)
           /\ handler'[s].at = phase /\ handler'[s].proc = handler[s].proc
           /\ handler'[s].leg = handler[s].leg /\ handler'[s].status = handler[s].status
           /\ handler'[s].loaded = handler[s].loaded /\ handler'[s].alone = handler[s].alone
<1> DEFINE h == [handler[s] EXCEPT !.at = phase]
<1>1. handler[s] \in Handler
  BY DEF TypeOK
<1>2. /\ h \in Handler /\ h.at = phase /\ h.proc = handler[s].proc /\ h.leg = handler[s].leg
      /\ h.status = handler[s].status /\ h.loaded = handler[s].loaded
      /\ h.alone = handler[s].alone
  BY <1>1 DEF Handler
<1>3. Become(s, h)
  BY DEF Goto
<1> HIDE DEF h
<1> QED
  BY <1>2, <1>3, BecomeOnly

LEMMA DoneIs ==
    ASSUME NEW h \in Handler
    PROVE  Done(h) \in Handler /\ Done(h).at = "tell" /\ Done(h).proc = h.proc /\ Done(h).leg = h.leg
BY DEF Done, Rest, Absent, Handler, Phases, Writing, Legs, Statuses

\* What SetPresence leaves of the handlers.
LEMMA SetPresenceOnly ==
    ASSUME TypeOK, NEW s \in Sockets, NEW p \in Procs, NEW leg \in Legs,
           NEW status \in Statuses, SetPresence(s, p, leg, status)
    PROVE  /\ handler' \in [Sockets -> Handler]
           /\ handler'[s] = [at |-> "get", proc |-> p, leg |-> leg, status |-> status,
                             loaded |-> None, alone |-> Rivals(s, status) = {}]
           /\ \A o \in Sockets \ {s} :
                 /\ handler'[o].at = handler[o].at /\ handler'[o].proc = handler[o].proc
                 /\ handler'[o].leg = handler[o].leg /\ handler'[o].status = handler[o].status
                 /\ handler'[o].loaded = handler[o].loaded
                 /\ handler'[o].alone = (handler[o].alone /\ o \notin Rivals(s, status))
           /\ last' = [status |-> status, proc |-> p]
           /\ last' \in [status : Statuses, proc : Procs \cup {None}]
           /\ clean' = (clean /\ Rivals(s, status) = {})
           /\ clean' \in BOOLEAN
<1> DEFINE new == [at |-> "get", proc |-> p, leg |-> leg, status |-> status,
                   loaded |-> None, alone |-> Rivals(s, status) = {}]
           kept(o) == [handler[o] EXCEPT !.alone = @ /\ o \notin Rivals(s, status)]
<1>1. new \in Handler
  BY DEF Handler, Phases, Writing, Legs, Statuses
<1>2. \A o \in Sockets :
         /\ kept(o) \in Handler
         /\ kept(o).at = handler[o].at /\ kept(o).proc = handler[o].proc
         /\ kept(o).leg = handler[o].leg /\ kept(o).status = handler[o].status
         /\ kept(o).loaded = handler[o].loaded
         /\ kept(o).alone = (handler[o].alone /\ o \notin Rivals(s, status))
  <2> SUFFICES ASSUME NEW o \in Sockets
               PROVE  /\ kept(o) \in Handler
                      /\ kept(o).at = handler[o].at /\ kept(o).proc = handler[o].proc
                      /\ kept(o).leg = handler[o].leg /\ kept(o).status = handler[o].status
                      /\ kept(o).loaded = handler[o].loaded
                      /\ kept(o).alone = (handler[o].alone /\ o \notin Rivals(s, status))
    OBVIOUS
  <2>1. handler[o] \in Handler
    BY DEF TypeOK
  <2>2. (handler[o].alone /\ o \notin Rivals(s, status)) \in BOOLEAN
    BY <2>1 DEF Handler
  <2> QED
    BY <2>1, <2>2 DEF Handler
<1>3. handler' = [o \in Sockets |-> IF o = s THEN new ELSE kept(o)]
  BY DEF SetPresence
<1>4. clean \in BOOLEAN
  BY DEF TypeOK
<1> HIDE DEF new, kept
<1>5. /\ handler' \in [Sockets -> Handler] /\ handler'[s] = new
      /\ \A o \in Sockets \ {s} : handler'[o] = kept(o)
  BY <1>1, <1>2, <1>3
<1>6. last' = [status |-> status, proc |-> p] /\ clean' = (clean /\ Rivals(s, status) = {})
  BY DEF SetPresence
<1> QED
  BY <1>2, <1>4, <1>5, <1>6 DEF new

\* The case of Finally in which the user goes offline, and the other one.
LEMMA FinallyIs ==
    ASSUME TypeOK, NEW s \in Sockets, Finally(s), handler[s].proc \in Procs
    PROVE  /\ registry' = [registry EXCEPT ![handler[s].proc] = @ \ {s}]
           /\ registry' \in [Procs -> SUBSET Sockets]
           /\ \/ /\ registry'[handler[s].proc] = {}
                 /\ SetPresence(s, handler[s].proc, "close", "offline")
              \/ /\ Become(s, Rest(handler[s], "ended"))
                 /\ UNCHANGED <<last, clean>>
BY DEF Finally, TypeOK

-----------------------------------------------------------------------------
(* Types *)

\* A handler that has begun knows its process.
ProcKnown == \A s \in Sockets : handler[s].at # "none" => handler[s].proc \in Procs

LEMMA StepTypeOK ==
    ASSUME TypeOK, ProcKnown, [Next]_vars
    PROVE  TypeOK'
<1> USE Kinds
<1>0. /\ \A s \in Sockets : handler[s] \in Handler /\ handler[s].at \in Phases
      /\ \A s \in Sockets : handler[s].leg \in Legs /\ handler[s].status \in Statuses
      /\ \A s \in Sockets : handler[s].alone \in BOOLEAN
  BY DEF TypeOK, Handler
<1>1. ASSUME NEW s \in Sockets, GetPrev(s)  PROVE TypeOK'
  <2>1. PICK phase \in Phases : Goto(s, phase)
    BY <1>1 DEF GetPrev, Phases, Writing
  <2> QED
    BY <1>1, <2>1, GotoOnly DEF GetPrev, TypeOK, Only, storeVars
<1>2. ASSUME NEW s \in Sockets, Renew(s)  PROVE TypeOK'
  BY <1>0, <1>2, DoneIs, BecomeOnly DEF Renew, TypeOK, Only, storeVars
<1>3. ASSUME NEW s \in Sockets, SetRedis(s)  PROVE TypeOK'
  <2>1. Goto(s, "load") /\ "load" \in Phases
    BY <1>3 DEF SetRedis, Phases, Writing
  <2> QED
    BY <1>0, <1>3, <2>1, GotoOnly DEF SetRedis, TypeOK, Only
<1>4. ASSUME NEW s \in Sockets, LoadUser(s)  PROVE TypeOK'
  <2> DEFINE h == [handler[s] EXCEPT !.at = "commit", !.loaded = db]
  <2>1. h \in Handler
    <3>1. "commit" \in Phases /\ db \in Statuses \cup {None} /\ handler[s] \in Handler
      BY <1>0 DEF Phases, Writing, TypeOK
    <3> QED
      BY <3>1 DEF Handler
  <2>2. Become(s, h)
    BY <1>4 DEF LoadUser
  <2> HIDE DEF h
  <2> QED
    BY <1>4, <2>1, <2>2, BecomeOnly DEF LoadUser, TypeOK, Only, storeVars
<1>5. ASSUME NEW s \in Sockets, CommitUser(s)  PROVE TypeOK'
  <2>1. db' \in Statuses
    BY <1>0, <1>5 DEF CommitUser, TypeOK
  <2>2. clean' \in BOOLEAN
    BY <1>0, <1>5 DEF CommitUser, TypeOK
  <2>3. handler' \in [Sockets -> Handler]
    BY <1>0, <1>5, DoneIs, BecomeOnly DEF CommitUser, Only
  <2> QED
    BY <1>5, <2>1, <2>2, <2>3 DEF CommitUser, TypeOK
<1>6. ASSUME NEW s \in Sockets, Tell(s)  PROVE TypeOK'
  <2>1. PICK phase \in Phases : Become(s, Rest(handler[s], phase))
    BY <1>6 DEF Tell, Phases
  <2> QED
    BY <1>0, <1>6, <2>1, BecomeOnly DEF Tell, TypeOK, Only, storeVars
<1>7. ASSUME NEW s \in Sockets, CallFails(s)  PROVE TypeOK'
  <2>1. PICK phase \in Phases : Become(s, Rest(handler[s], phase))
    BY <1>0, <1>7 DEF CallFails, Phases, Legs
  <2>2. faults' \in 0..MaxFaults
    BY <1>7, BoundsAssumption DEF CallFails, Fault, TypeOK
  <2>3. clean' \in BOOLEAN
    BY <1>7 DEF CallFails, TypeOK
  <2> QED
    BY <1>0, <1>7, <2>1, <2>2, <2>3, BecomeOnly DEF CallFails, TypeOK, Only, storeVars
<1>8. ASSUME NEW s \in Sockets, CloseTab(s)  PROVE TypeOK'
  BY <1>8 DEF CloseTab, TypeOK, storeVars
<1>9. ASSUME NEW s \in Sockets, NoticeClosed(s)  PROVE TypeOK'
  <2>1. handler[s].proc \in Procs
    BY <1>9 DEF NoticeClosed, At, ProcKnown
  <2>2. Finally(s)
    BY <1>9 DEF NoticeClosed
  <2>3. "close" \in Legs /\ "offline" \in Statuses
    BY DEF Legs, Statuses
  <2>4. /\ handler' \in [Sockets -> Handler] /\ clean' \in BOOLEAN
        /\ last' \in [status : Statuses, proc : Procs \cup {None}]
    <3>1. CASE SetPresence(s, handler[s].proc, "close", "offline")
      BY <2>1, <2>3, <3>1, SetPresenceOnly
    <3>2. CASE Become(s, Rest(handler[s], "ended")) /\ UNCHANGED <<last, clean>>
      <4>1. Rest(handler[s], "ended") \in Handler
        BY <1>0 DEF Phases
      <4> QED
        BY <3>2, <4>1, BecomeOnly DEF Only, TypeOK
    <3> QED
      BY <2>1, <2>2, <3>1, <3>2, FinallyIs
  <2>5. registry' \in [Procs -> SUBSET Sockets]
    BY <2>1, <2>2, FinallyIs
  <2> QED
    BY <1>9, <2>4, <2>5 DEF NoticeClosed, TypeOK, storeVars
<1>10. ASSUME NEW s \in Sockets, NEW status \in Statuses, Event(s, status)  PROVE TypeOK'
  <2>1. handler[s].proc \in Procs /\ "loop" \in Legs
    BY <1>10 DEF Event, At, ProcKnown, Legs
  <2>2. SetPresence(s, handler[s].proc, "loop", status)
    BY <1>10 DEF Event
  <2> QED
    BY <1>10, <2>1, <2>2, SetPresenceOnly DEF Event, TypeOK, storeVars
<1>11. ASSUME NEW s \in Sockets, NEW p \in Procs, Connect(s, p)  PROVE TypeOK'
  <2>1. "connect" \in Legs /\ "online" \in Statuses
    BY DEF Legs, Statuses
  <2>2. SetPresence(s, p, "connect", "online")
    BY <1>11 DEF Connect
  <2>3. registry' \in [Procs -> SUBSET Sockets] /\ socket' \in [Sockets -> {"new", "open", "closed"}]
    BY <1>11 DEF Connect, TypeOK
  <2>4. /\ handler' \in [Sockets -> Handler] /\ clean' \in BOOLEAN
        /\ last' \in [status : Statuses, proc : Procs \cup {None}]
    BY <2>1, <2>2, SetPresenceOnly
  <2> QED
    BY <1>11, <2>3, <2>4 DEF Connect, TypeOK, storeVars
<1>12. ASSUME NEW s \in Sockets, NEW p \in Procs, Discard(s, p)  PROVE TypeOK'
  BY <1>12 DEF Discard, TypeOK, storeVars
<1>13. ASSUME NEW p \in Procs, Crash(p)  PROVE TypeOK'
  <2>1. faults' \in 0..MaxFaults
    BY <1>13, BoundsAssumption DEF Crash, Fault, TypeOK
  <2>2. handler' \in [Sockets -> Handler]
    <3>1. \A s \in Sockets : Rest(handler[s], "ended") \in Handler
      BY <1>0 DEF Phases
    <3> QED
      BY <1>0, <1>13, <3>1 DEF Crash
  <2>3. socket' \in [Sockets -> {"new", "open", "closed"}]
    BY <1>13 DEF Crash, TypeOK
  <2>4. clean' \in BOOLEAN
    BY <1>13 DEF Crash, TypeOK
  <2> QED
    BY <1>13, <2>1, <2>2, <2>3, <2>4 DEF Crash, TypeOK, storeVars
<1>14. ASSUME Forget  PROVE TypeOK'
  BY <1>14, BoundsAssumption DEF Forget, Fault, TypeOK
<1>15. CASE UNCHANGED vars
  BY <1>15 DEF vars, storeVars, TypeOK
<1> QED
  BY <1>1, <1>2, <1>3, <1>4, <1>5, <1>6, <1>7, <1>8, <1>9, <1>10, <1>11, <1>12, <1>13,
     <1>14, <1>15 DEF Next, HandlerStep

-----------------------------------------------------------------------------
(* Who is in the registries *)

NewIsAbsent == \A s \in Sockets : socket[s] = "new" => handler[s].at = "none"
Unlisted(s) == \A p \in Procs : s \notin registry[p]

\* The finally block takes the socket out first.
ClosingIsUnlisted ==
    \A s \in Sockets : handler[s].at \in Served /\ handler[s].leg = "close" => Unlisted(s)

Listed == TypeOK /\ ProcKnown /\ NewIsAbsent /\ Counted /\ ClosingIsUnlisted

\* How a handler may change without a new entry in a registry.
Same(s) == /\ handler'[s].at = handler[s].at /\ handler'[s].proc = handler[s].proc
           /\ handler'[s].leg = handler[s].leg
Moved(s) == /\ handler[s].at # "none" /\ handler'[s].at # "none"
            /\ handler'[s].proc = handler[s].proc
            /\ \/ Unlisted(s)'
               \/ handler[s].at \in Served /\ handler'[s].at # "ended"
                  /\ (handler'[s].leg = "close" => handler[s].leg = "close")

LEMMA SetPresenceIs ==
    ASSUME TypeOK, NEW s \in Sockets, NEW p \in Procs, NEW leg \in Legs,
           NEW status \in Statuses, SetPresence(s, p, leg, status)
    PROVE  /\ handler'[s].at = "get" /\ handler'[s].proc = p /\ handler'[s].leg = leg
           /\ handler'[s].status = status /\ handler'[s].alone = (Rivals(s, status) = {})
           /\ \A o \in Sockets \ {s} : Same(o)
<1>1. /\ handler'[s] = [at |-> "get", proc |-> p, leg |-> leg, status |-> status,
                        loaded |-> None, alone |-> Rivals(s, status) = {}]
      /\ \A o \in Sockets \ {s} :
            /\ handler'[o].at = handler[o].at /\ handler'[o].proc = handler[o].proc
            /\ handler'[o].leg = handler[o].leg
  BY SetPresenceOnly
<1>2. \A o \in Sockets \ {s} : Same(o)
  BY <1>1 DEF Same
<1> QED
  BY <1>1, <1>2

LEMMA ListedKept ==
    ASSUME Listed, TypeOK',
           \A p \in Procs : registry'[p] \subseteq registry[p],
           \A s \in Sockets : socket'[s] = "new" => socket[s] = "new",
           \A s \in Sockets : Same(s) \/ Moved(s)
    PROVE  Listed'
<1> USE DEF Listed, Same, Moved
<1>1. ProcKnown'
  BY DEF ProcKnown
<1>2. NewIsAbsent'
  BY DEF NewIsAbsent
<1>3. Counted'
  <2> SUFFICES ASSUME NEW p \in Procs, NEW s \in registry'[p]
               PROVE  handler'[s].proc = p /\ handler'[s].at \notin {"none", "ended"}
    BY DEF Counted
  <2>1. s \in registry[p] /\ s \in Sockets
    BY DEF TypeOK
  <2> QED
    BY <2>1 DEF Counted, Unlisted
<1>4. ClosingIsUnlisted'
  <2> SUFFICES ASSUME NEW s \in Sockets, handler'[s].at \in Served, handler'[s].leg = "close",
                      ~ Unlisted(s)'
               PROVE  FALSE
    BY DEF ClosingIsUnlisted
  <2> QED
    BY DEF ClosingIsUnlisted, Unlisted
<1> QED
  BY <1>1, <1>2, <1>3, <1>4

LEMMA StepListed ==
    ASSUME Listed, [Next]_vars
    PROVE  Listed'
<1> USE Kinds
<1>t. TypeOK /\ ProcKnown /\ TypeOK'
  BY StepTypeOK DEF Listed
<1>0. /\ \A s \in Sockets : handler[s] \in Handler /\ handler[s].at \in Phases
      /\ \A s \in Sockets : handler[s].leg \in Legs
      /\ \A s \in Sockets : handler[s].at \in Served => handler[s].at \notin {"none", "ended"}
      /\ \A p \in Procs : registry[p] \subseteq Sockets
  BY <1>t DEF TypeOK, Handler, Served
<1>a. ASSUME NEW s \in Sockets, Only(s), UNCHANGED registry, UNCHANGED socket, Same(s) \/ Moved(s)
      PROVE  Listed'
  BY <1>a, <1>t, ListedKept DEF Only, Same
<1>1. ASSUME NEW s \in Sockets, NEW phase \in Phases, Goto(s, phase), At(s, phase) \/ handler[s].at \in Writing,
             UNCHANGED registry, UNCHANGED socket, phase \in Writing
      PROVE  Listed'
  <2>1. Same(s) \/ Moved(s)
    <3>1. /\ handler'[s].at = phase /\ handler'[s].proc = handler[s].proc
          /\ handler'[s].leg = handler[s].leg
      BY <1>t, <1>1, GotoOnly
    <3>2. CASE At(s, phase)
      BY <3>1, <3>2 DEF At, Same
    <3>3. CASE handler[s].at \in Writing
      <4>1. handler[s].at \in Served /\ handler[s].at # "none"
        BY <3>3 DEF Writing, Served
      <4>2. phase # "none" /\ phase # "ended"
        BY <1>1 DEF Writing
      <4> QED
        BY <3>1, <4>1, <4>2 DEF Moved
    <3> QED
      BY <1>1, <3>2, <3>3
  <2>2. Only(s)
    BY <1>t, <1>1, GotoOnly
  <2> QED
    BY <1>1, <1>a, <2>1, <2>2
<1>2. ASSUME NEW s \in Sockets, GetPrev(s)  PROVE Listed'
  <2>1. PICK phase \in {"renew", "set"} : Goto(s, phase)
    BY <1>2 DEF GetPrev
  <2>2. phase \in Phases /\ phase \in Writing /\ handler[s].at \in Writing
    BY <1>2 DEF GetPrev, Phases, Writing, At
  <2> QED
    BY <1>1, <1>2, <2>1, <2>2 DEF GetPrev
<1>3. ASSUME NEW s \in Sockets, SetRedis(s)  PROVE Listed'
  <2>1. "load" \in Phases /\ "load" \in Writing /\ handler[s].at \in Writing
    BY <1>3 DEF SetRedis, Phases, Writing, At
  <2> QED
    BY <1>1, <1>3, <2>1 DEF SetRedis
<1>4. ASSUME NEW s \in Sockets, Become(s, Done(handler[s])), handler[s].at \in Writing,
             UNCHANGED registry, UNCHANGED socket
      PROVE  Listed'
  <2>1. Only(s) /\ handler'[s] = Done(handler[s])
    BY <1>0, <1>t, <1>4, DoneIs, BecomeOnly
  <2>2. handler'[s].at = "tell" /\ handler'[s].proc = handler[s].proc /\ handler'[s].leg = handler[s].leg
    BY <1>0, <2>1, DoneIs
  <2>3. Moved(s)
    BY <1>4, <2>2 DEF Moved, Writing, Served
  <2> QED
    BY <1>4, <1>a, <2>1, <2>3
<1>5. ASSUME NEW s \in Sockets, Renew(s) \/ CommitUser(s)  PROVE Listed'
  <2>1. handler[s].at \in Writing
    BY <1>5 DEF Renew, CommitUser, At, Writing
  <2> QED
    BY <1>4, <1>5, <2>1 DEF Renew, CommitUser
<1>6. ASSUME NEW s \in Sockets, LoadUser(s)  PROVE Listed'
  <2> DEFINE h == [handler[s] EXCEPT !.at = "commit", !.loaded = db]
  <2>1. h \in Handler /\ h.at = "commit" /\ h.proc = handler[s].proc /\ h.leg = handler[s].leg
    <3>1. "commit" \in Phases /\ db \in Statuses \cup {None} /\ handler[s] \in Handler
      BY <1>0, <1>t DEF Phases, Writing, TypeOK
    <3> QED
      BY <3>1 DEF Handler
  <2>2. Become(s, h) /\ handler[s].at = "load"
    BY <1>6 DEF LoadUser, At
  <2> HIDE DEF h
  <2>3. Only(s) /\ handler'[s] = h
    BY <1>t, <2>1, <2>2, BecomeOnly
  <2>4. Moved(s)
    BY <2>1, <2>2, <2>3 DEF Moved, Served, Phases, Writing
  <2> QED
    BY <1>6, <1>a, <2>3, <2>4 DEF LoadUser
<1>7. ASSUME NEW s \in Sockets, NEW phase \in {"loop", "broken", "leaked", "ended"},
             Become(s, Rest(handler[s], phase)), handler[s].at \in Served,
             phase = "ended" => handler[s].leg = "close",
             UNCHANGED registry, \A o \in Sockets : socket'[o] = "new" => socket[o] = "new"
      PROVE  Listed'
  <2>1. phase \in Phases
    BY DEF Phases
  <2>2. Only(s) /\ handler'[s] = Rest(handler[s], phase)
    BY <1>0, <1>t, <1>7, <2>1, BecomeOnly
  <2>3. handler'[s].at = phase /\ handler'[s].proc = handler[s].proc
    BY <1>0, <2>1, <2>2
  <2>4. phase # "ended" => handler'[s].leg # "close"
    BY <1>0, <2>1, <2>2 DEF Rest, Absent, Handler
  <2>5. phase = "ended" => Unlisted(s)'
    BY <1>7 DEF Listed, ClosingIsUnlisted, Unlisted
  <2>6. Moved(s)
    BY <1>0, <1>7, <2>3, <2>4, <2>5 DEF Moved
  <2> QED
    BY <1>7, <1>t, <2>2, <2>6, ListedKept DEF Only, Same
<1>8. ASSUME NEW s \in Sockets, Tell(s)  PROVE Listed'
  <2>1. PICK phase \in {"loop", "ended"} :
           Become(s, Rest(handler[s], phase)) /\ (phase = "ended" => handler[s].leg = "close")
    BY <1>8 DEF Tell
  <2>2. handler[s].at \in Served
    BY <1>8 DEF Tell, At, Served, Phases
  <2> QED
    BY <1>7, <1>8, <2>1, <2>2 DEF Tell
<1>9. ASSUME NEW s \in Sockets, CallFails(s)  PROVE Listed'
  <2>1. PICK phase \in {"leaked", "broken", "ended"} :
           Become(s, Rest(handler[s], phase)) /\ (phase = "ended" => handler[s].leg = "close")
    BY <1>0, <1>9 DEF CallFails, Legs
  <2>2. handler[s].at \in Served
    BY <1>9 DEF CallFails, Served, Phases
  <2>3. \A o \in Sockets : socket'[o] = "new" => socket[o] = "new"
    BY <1>9, <1>t DEF CallFails, TypeOK
  <2> QED
    BY <1>7, <1>9, <2>1, <2>2, <2>3 DEF CallFails
<1>10. ASSUME NEW s \in Sockets, CloseTab(s)  PROVE Listed'
  <2>1. \A o \in Sockets : Same(o)
    BY <1>10 DEF CloseTab, Same
  <2>2. \A o \in Sockets : socket'[o] = "new" => socket[o] = "new"
    BY <1>10, <1>t DEF CloseTab, TypeOK
  <2> QED
    BY <1>10, <1>t, <2>1, <2>2, ListedKept DEF CloseTab
<1>11. ASSUME NEW s \in Sockets, NoticeClosed(s)  PROVE Listed'
  <2>1. handler[s].proc \in Procs /\ handler[s].at \in Served
    BY <1>11, <1>t DEF NoticeClosed, At, ProcKnown, Served, Phases
  <2>2. Finally(s)
    BY <1>11 DEF NoticeClosed
  <2>3. registry' = [registry EXCEPT ![handler[s].proc] = @ \ {s}]
    BY <1>t, <2>1, <2>2, FinallyIs
  <2>4. (\A p \in Procs : registry'[p] \subseteq registry[p]) /\ Unlisted(s)'
    BY <1>t, <2>1, <2>3 DEF Unlisted, TypeOK, Listed, Counted
  <2>5. \A o \in Sockets : Same(o) \/ Moved(o)
    <3>1. CASE SetPresence(s, handler[s].proc, "close", "offline")
      <4>1. "close" \in Legs /\ "offline" \in Statuses
        BY DEF Legs, Statuses
      <4>2. /\ \A o \in Sockets \ {s} : Same(o)
            /\ handler'[s].at = "get" /\ handler'[s].proc = handler[s].proc
        BY <1>t, <2>1, <3>1, <4>1, SetPresenceIs
      <4>3. Moved(s)
        BY <1>0, <2>1, <2>4, <4>2 DEF Moved
      <4> QED
        BY <4>2, <4>3
    <3>2. CASE Become(s, Rest(handler[s], "ended")) /\ UNCHANGED <<last, clean>>
      <4>1. Rest(handler[s], "ended") \in Handler /\ "ended" \in Phases
        BY <1>0 DEF Phases
      <4>2. Only(s) /\ handler'[s].at = "ended" /\ handler'[s].proc = handler[s].proc
        BY <1>0, <1>t, <3>2, <4>1, BecomeOnly
      <4>3. Moved(s)
        BY <1>0, <2>1, <2>4, <4>2 DEF Moved
      <4> QED
        BY <4>2, <4>3 DEF Only, Same
    <3> QED
      BY <1>t, <2>1, <2>2, <3>1, <3>2, FinallyIs
  <2>6. \A o \in Sockets : socket'[o] = "new" => socket[o] = "new"
    BY <1>11 DEF NoticeClosed
  <2> QED
    BY <1>t, <2>4, <2>5, <2>6, ListedKept
<1>12. ASSUME NEW s \in Sockets, NEW status \in Statuses, Event(s, status)  PROVE Listed'
  <2>1. handler[s].proc \in Procs /\ handler[s].at \in Served /\ "loop" \in Legs
    BY <1>12, <1>t DEF Event, At, ProcKnown, Served, Phases, Legs
  <2>2. SetPresence(s, handler[s].proc, "loop", status)
    BY <1>12 DEF Event
  <2>3. /\ \A o \in Sockets \ {s} : Same(o)
        /\ handler'[s].at = "get" /\ handler'[s].proc = handler[s].proc /\ handler'[s].leg = "loop"
    BY <1>t, <2>1, <2>2, SetPresenceIs
  <2>4. Moved(s)
    BY <1>0, <2>1, <2>3 DEF Moved
  <2> QED
    BY <1>12, <1>t, <2>3, <2>4, ListedKept DEF Event
<1>13. ASSUME NEW s \in Sockets, NEW p \in Procs, Connect(s, p)  PROVE Listed'
  <2>1. "connect" \in Legs /\ "online" \in Statuses /\ SetPresence(s, p, "connect", "online")
    BY <1>13 DEF Connect, Legs, Statuses
  <2>2. /\ \A o \in Sockets \ {s} : Same(o)
        /\ handler'[s].at = "get" /\ handler'[s].proc = p /\ handler'[s].leg = "connect"
    BY <1>t, <2>1, SetPresenceIs
  <2>3. handler[s].at = "none" /\ Unlisted(s)
    BY <1>13 DEF Connect, Listed, NewIsAbsent, Unlisted, Counted
  <2>4. /\ registry'[p] = registry[p] \cup {s}
        /\ \A q \in Procs \ {p} : registry'[q] = registry[q]
    BY <1>13, <1>t DEF Connect, TypeOK
  <2>5. socket'[s] = "open" /\ \A o \in Sockets \ {s} : socket'[o] = socket[o]
    BY <1>13, <1>t DEF Connect, TypeOK
  <2>6. ProcKnown' /\ NewIsAbsent'
    BY <1>t, <2>2, <2>5 DEF Listed, ProcKnown, NewIsAbsent, Same
  <2>7. Counted'
    <3> SUFFICES ASSUME NEW q \in Procs, NEW o \in registry'[q]
                 PROVE  handler'[o].proc = q /\ handler'[o].at \notin {"none", "ended"}
      BY DEF Counted
    <3>1. CASE o = s
      BY <2>2, <2>3, <2>4, <3>1 DEF Unlisted
    <3>2. CASE o # s
      <4>1. o \in registry[q] /\ o \in Sockets
        BY <1>0, <2>4, <3>2
      <4> QED
        BY <2>2, <3>2, <4>1 DEF Listed, Counted, Same
    <3> QED
      BY <3>1, <3>2
  <2>8. ClosingIsUnlisted'
    <3> SUFFICES ASSUME NEW o \in Sockets, handler'[o].at \in Served, handler'[o].leg = "close"
                 PROVE  Unlisted(o)'
      BY DEF ClosingIsUnlisted
    <3>1. o # s
      BY <2>2
    <3> QED
      BY <2>2, <2>4, <3>1 DEF Listed, ClosingIsUnlisted, Same, Unlisted
  <2> QED
    BY <1>t, <2>6, <2>7, <2>8 DEF Listed
<1>14. ASSUME NEW s \in Sockets, NEW p \in Procs, Discard(s, p)  PROVE Listed'
  <2>1. \A q \in Procs : registry'[q] \subseteq registry[q]
    BY <1>14, <1>t DEF Discard, TypeOK
  <2>2. \A o \in Sockets : Same(o) /\ socket'[o] = socket[o]
    BY <1>14 DEF Discard, Same
  <2> QED
    BY <1>t, <2>1, <2>2, ListedKept
<1>15. ASSUME NEW p \in Procs, Crash(p)  PROVE Listed'
  <2> DEFINE here == {s \in Sockets : handler[s].at \in Served /\ handler[s].proc = p}
  <2>1. \A o \in Sockets \ here : handler'[o] = handler[o]
    BY <1>15 DEF Crash
  <2>2. \A o \in here : handler'[o].at = "ended" /\ handler'[o].proc = handler[o].proc
    <3>1. "ended" \in Phases
      BY DEF Phases
    <3> QED
      BY <1>0, <1>15, <3>1 DEF Crash
  <2>3. (\A q \in Procs : registry'[q] \subseteq registry[q]) /\ registry'[p] = {}
    BY <1>15, <1>t DEF Crash, TypeOK
  <2>4. \A o \in here : Unlisted(o)'
    BY <1>0, <2>3 DEF Unlisted, Listed, Counted
  <2>5. \A o \in Sockets : Same(o) \/ Moved(o)
    BY <1>0, <2>1, <2>2, <2>4 DEF Same, Moved
  <2>6. \A o \in Sockets : socket'[o] = "new" => socket[o] = "new"
    BY <1>15, <1>t DEF Crash, TypeOK
  <2> QED
    BY <1>t, <2>3, <2>5, <2>6, ListedKept
<1>16. ASSUME Forget \/ UNCHANGED vars  PROVE Listed'
  <2>1. \A o \in Sockets : Same(o)
    BY <1>16 DEF Forget, vars, Same
  <2> QED
    BY <1>16, <1>t, <2>1, ListedKept DEF Forget, vars
<1> QED
  BY <1>2, <1>3, <1>5, <1>6, <1>8, <1>9, <1>10, <1>11, <1>12, <1>13, <1>14, <1>15, <1>16
     DEF Next, HandlerStep

LEMMA InitListed == Init => Listed
<1> SUFFICES ASSUME Init PROVE Listed
  OBVIOUS
<1>1. Absent \in Handler /\ Absent.at = "none"
  BY Kinds DEF Absent
<1>2. TypeOK
  <2>1. last \in [status : Statuses, proc : Procs \cup {None}] /\ db \in Statuses
    BY DEF Init, Statuses
  <2>2. handler \in [Sockets -> Handler] /\ registry \in [Procs -> SUBSET Sockets]
    <3>1. handler = [s \in Sockets |-> Absent] /\ registry = [p \in Procs |-> {}]
      BY DEF Init
    <3> QED
      BY <1>1, <3>1
  <2>3. socket \in [Sockets -> {"new", "open", "closed"}] /\ faults \in 0..MaxFaults
    BY BoundsAssumption DEF Init
  <2> QED
    BY <2>1, <2>2, <2>3 DEF Init, TypeOK
<1>3. \A s \in Sockets : handler[s] = Absent
  BY DEF Init
<1>4. ProcKnown /\ NewIsAbsent /\ ClosingIsUnlisted
  BY <1>1, <1>3 DEF ProcKnown, NewIsAbsent, ClosingIsUnlisted, Served
<1>5. Counted
  BY DEF Init, Counted
<1> QED
  BY <1>2, <1>4, <1>5 DEF Listed

\* The variables have their types.
THEOREM PresenceTypeCorrect == Spec => []TypeOK
<1>1. Init => Listed
  BY InitListed
<1>2. Listed /\ [Next]_vars => Listed'
  BY StepListed
<1>3. Listed => TypeOK
  BY DEF Listed
<1> QED
  BY <1>1, <1>2, <1>3, PTL DEF Spec

\* A handler goes to its finally block only when its socket is closed.
BrokenIsClosed == \A s \in Sockets : At(s, "broken") => socket[s] = "closed"

LEMMA StepOpenIsCounted ==
    ASSUME Listed, OpenIsCounted, BrokenIsClosed, [Next]_vars
    PROVE  OpenIsCounted' /\ BrokenIsClosed'
<1> USE Kinds
<1>t. TypeOK /\ ProcKnown
  BY DEF Listed
<1>0. \A s \in Sockets : handler[s] \in Handler
  BY <1>t DEF TypeOK
\* No socket opens, and only a closed one leaves a registry.
<1>a. ASSUME \A s \in Sockets : socket'[s] = "open" =>
                /\ socket[s] = "open"
                /\ \A p \in Procs : s \in registry[p] => s \in registry'[p]
      PROVE  OpenIsCounted'
  BY <1>a DEF OpenIsCounted
\* None goes to "broken", and no closed socket opens again.
<1>b. ASSUME \A s \in Sockets : /\ handler'[s].at = "broken" => At(s, "broken")
                                /\ socket[s] = "closed" => socket'[s] = "closed"
      PROVE  BrokenIsClosed'
  BY <1>b DEF BrokenIsClosed, At
<1>1. ASSUME NEW s \in Sockets, NEW h \in Handler, Become(s, h), h.at # "broken",
             UNCHANGED <<socket, registry>>
      PROVE  OpenIsCounted' /\ BrokenIsClosed'
  <2>1. Only(s) /\ handler'[s] = h
    BY <1>t, <1>1, BecomeOnly
  <2> QED
    BY <1>1, <1>a, <1>b, <2>1 DEF Only, At
<1>2. ASSUME NEW s \in Sockets, NEW phase \in Writing, Goto(s, phase), UNCHANGED <<socket, registry>>
      PROVE  OpenIsCounted' /\ BrokenIsClosed'
  <2>1. phase \in Phases /\ phase # "broken"
    BY DEF Writing, Phases
  <2>2. Only(s) /\ handler'[s].at = phase
    BY <1>t, <1>2, <2>1, GotoOnly
  <2> QED
    BY <1>2, <1>a, <1>b, <2>1, <2>2 DEF Only, At
<1>3. ASSUME NEW s \in Sockets, GetPrev(s) \/ SetRedis(s)  PROVE OpenIsCounted' /\ BrokenIsClosed'
  <2>1. PICK phase \in {"renew", "set", "load"} : Goto(s, phase)
    BY <1>3 DEF GetPrev, SetRedis
  <2> QED
    BY <1>2, <1>3, <2>1 DEF GetPrev, SetRedis, Writing
<1>4. ASSUME NEW s \in Sockets, Renew(s) \/ CommitUser(s)  PROVE OpenIsCounted' /\ BrokenIsClosed'
  <2>1. Done(handler[s]) \in Handler /\ Done(handler[s]).at = "tell"
    BY <1>0, DoneIs
  <2> QED
    BY <1>1, <1>4, <2>1 DEF Renew, CommitUser
<1>5. ASSUME NEW s \in Sockets, LoadUser(s)  PROVE OpenIsCounted' /\ BrokenIsClosed'
  <2> DEFINE h == [handler[s] EXCEPT !.at = "commit", !.loaded = db]
  <2>1. "commit" \in Phases /\ db \in Statuses \cup {None} /\ handler[s] \in Handler
    BY <1>0, <1>t DEF Phases, Writing, TypeOK
  <2>2. h \in Handler /\ h.at = "commit"
    BY <2>1 DEF Handler
  <2>3. Become(s, h)
    BY <1>5 DEF LoadUser
  <2> HIDE DEF h
  <2> QED
    BY <1>1, <1>5, <2>2, <2>3 DEF LoadUser
<1>6. ASSUME NEW s \in Sockets, Tell(s)  PROVE OpenIsCounted' /\ BrokenIsClosed'
  <2>1. PICK phase \in {"loop", "ended"} : Become(s, Rest(handler[s], phase))
    BY <1>6 DEF Tell
  <2>2. phase \in Phases /\ phase # "broken"
    BY DEF Phases
  <2>3. Rest(handler[s], phase) \in Handler /\ Rest(handler[s], phase).at = phase
    BY <1>0, <2>2
  <2> QED
    BY <1>1, <1>6, <2>1, <2>2, <2>3 DEF Tell
<1>7. ASSUME NEW s \in Sockets, CallFails(s)  PROVE OpenIsCounted' /\ BrokenIsClosed'
  <2>1. UNCHANGED registry /\ socket' = [socket EXCEPT ![s] = "closed"]
    BY <1>7 DEF CallFails
  <2>2. \A o \in Sockets \ {s} : handler'[o] = handler[o] /\ socket'[o] = socket[o]
    BY <1>7, <1>t, <2>1 DEF CallFails, Become, TypeOK
  <2>3. socket'[s] = "closed"
    BY <1>t, <2>1 DEF TypeOK
  <2>4. OpenIsCounted'
    BY <1>a, <2>1, <2>2, <2>3
  <2>5. BrokenIsClosed'
    BY <2>2, <2>3 DEF BrokenIsClosed, At
  <2> QED
    BY <2>4, <2>5
<1>8. ASSUME NEW s \in Sockets, CloseTab(s)  PROVE OpenIsCounted' /\ BrokenIsClosed'
  <2>1. UNCHANGED <<handler, registry>> /\ socket' = [socket EXCEPT ![s] = "closed"]
    BY <1>8 DEF CloseTab
  <2>2. \A o \in Sockets : socket'[o] = "closed" \/ socket'[o] = socket[o]
    BY <1>t, <2>1 DEF TypeOK
  <2> QED
    BY <1>a, <1>b, <2>1, <2>2 DEF At
\* Only the handler of a closed socket takes it out.
<1>9. ASSUME NEW s \in Sockets, NoticeClosed(s)  PROVE OpenIsCounted' /\ BrokenIsClosed'
  <2>1. handler[s].proc \in Procs /\ Finally(s) /\ UNCHANGED socket
    BY <1>9, <1>t DEF NoticeClosed, At, ProcKnown
  <2>2. socket[s] = "closed"
    BY <1>9 DEF NoticeClosed, BrokenIsClosed
  <2>3. \A p \in Procs : registry[p] \ {s} \subseteq registry'[p]
    BY <1>t, <2>1, FinallyIs DEF TypeOK
  <2>4. \A o \in Sockets : handler'[o].at = "broken" => At(o, "broken")
    <3>1. CASE SetPresence(s, handler[s].proc, "close", "offline")
      <4>1. handler'[s].at = "get" /\ \A o \in Sockets \ {s} : Same(o)
        BY <1>t, <2>1, <3>1, SetPresenceIs DEF Legs, Statuses
      <4> QED
        BY <4>1 DEF Same, At
    <3>2. CASE Become(s, Rest(handler[s], "ended"))
      <4>1. Rest(handler[s], "ended") \in Handler /\ Rest(handler[s], "ended").at = "ended"
        BY <1>0 DEF Phases
      <4>2. Only(s) /\ handler'[s].at = "ended"
        BY <1>t, <3>2, <4>1, BecomeOnly
      <4> QED
        BY <4>2 DEF Only, At
    <3> QED
      BY <1>t, <2>1, <3>1, <3>2, FinallyIs
  <2> QED
    BY <1>a, <1>b, <2>1, <2>2, <2>3, <2>4
<1>10. ASSUME NEW s \in Sockets, NEW status \in Statuses, Event(s, status)
       PROVE  OpenIsCounted' /\ BrokenIsClosed'
  <2>1. handler[s].proc \in Procs /\ "loop" \in Legs /\ UNCHANGED <<socket, registry>>
    BY <1>10, <1>t DEF Event, At, ProcKnown, Legs
  <2>2. SetPresence(s, handler[s].proc, "loop", status)
    BY <1>10 DEF Event
  <2>3. handler'[s].at = "get" /\ \A o \in Sockets \ {s} : Same(o)
    BY <1>t, <2>1, <2>2, SetPresenceIs
  <2> QED
    BY <1>a, <1>b, <2>1, <2>3 DEF Same, At
\* A socket that opens is counted in the same step.
<1>11. ASSUME NEW s \in Sockets, NEW p \in Procs, Connect(s, p)
       PROVE  OpenIsCounted' /\ BrokenIsClosed'
  <2>1. /\ socket[s] = "new" /\ s \in registry'[p]
        /\ \A q \in Procs : registry[q] \subseteq registry'[q]
        /\ \A o \in Sockets \ {s} : socket'[o] = socket[o]
    BY <1>11, <1>t DEF Connect, TypeOK
  <2>2. "connect" \in Legs /\ "online" \in Statuses /\ SetPresence(s, p, "connect", "online")
    BY <1>11 DEF Connect, Legs, Statuses
  <2>3. handler'[s].at = "get" /\ \A o \in Sockets \ {s} : Same(o)
    BY <1>t, <2>2, SetPresenceIs
  <2>4. OpenIsCounted'
    BY <2>1 DEF OpenIsCounted
  <2> QED
    BY <1>b, <2>1, <2>3, <2>4 DEF Same, At
<1>12. ASSUME NEW s \in Sockets, NEW p \in Procs, Discard(s, p)
       PROVE  OpenIsCounted' /\ BrokenIsClosed'
  <2>1. /\ UNCHANGED <<socket, handler>> /\ socket[s] = "closed"
        /\ \A q \in Procs : registry[q] \ {s} \subseteq registry'[q]
    BY <1>12, <1>t DEF Discard, TypeOK
  <2> QED
    BY <1>a, <1>b, <2>1 DEF At
\* A process takes the sockets it counts with it.
<1>13. ASSUME NEW p \in Procs, Crash(p)  PROVE OpenIsCounted' /\ BrokenIsClosed'
  <2> DEFINE here == {s \in Sockets : handler[s].at \in Served /\ handler[s].proc = p}
  <2>1. \A o \in Sockets \ here : handler'[o] = handler[o] /\ socket'[o] = socket[o]
    BY <1>13 DEF Crash
  <2>2. \A o \in here : handler'[o].at = "ended" /\ socket'[o] = "closed"
    <3>1. "ended" \in Phases
      BY DEF Phases
    <3> QED
      BY <1>0, <1>13, <3>1 DEF Crash
  <2>3. \A q \in Procs \ {p} : registry'[q] = registry[q]
    BY <1>13, <1>t DEF Crash, TypeOK
  <2>4. registry[p] \subseteq here
    <3>1. \A o \in registry[p] : o \in Sockets /\ handler[o].proc = p /\ handler[o].at \notin {"none", "ended"}
      BY <1>t DEF TypeOK, Listed, Counted
    <3>2. \A o \in Sockets : handler[o].at \in Phases
      BY <1>0 DEF Handler
    <3> QED
      BY <3>1, <3>2 DEF Served
  <2> HIDE DEF here
  <2> QED
    BY <1>a, <1>b, <2>1, <2>2, <2>3, <2>4 DEF At
<1>14. ASSUME Forget \/ UNCHANGED vars  PROVE OpenIsCounted' /\ BrokenIsClosed'
  BY <1>14, <1>a, <1>b DEF Forget, vars, storeVars, At
<1> QED
  BY <1>3, <1>4, <1>5, <1>6, <1>7, <1>8, <1>9, <1>10, <1>11, <1>12, <1>13, <1>14
     DEF Next, HandlerStep

\* A process counts every open tab it serves, and only sockets whose handlers
\* it still runs (manager.py 101-123): every way out of a handler but the leak
\* of its first call takes the socket out, and the handler that closes has
\* done so before it says anything.
THEOREM SocketsAreCounted == Spec => []CountIsRight
<1>1. Init => Listed /\ OpenIsCounted /\ BrokenIsClosed
  <2>1. Init => OpenIsCounted /\ BrokenIsClosed
    BY DEF Init, OpenIsCounted, BrokenIsClosed, At, Absent
  <2> QED
    BY <2>1, InitListed
<1>2. Listed /\ OpenIsCounted /\ BrokenIsClosed /\ [Next]_vars
         => (Listed /\ OpenIsCounted /\ BrokenIsClosed)'
  BY StepListed, StepOpenIsCounted
<1>3. Listed /\ OpenIsCounted => CountIsRight
  BY DEF Listed, CountIsRight
<1> QED
  BY <1>1, <1>2, <1>3, PTL DEF Spec

-----------------------------------------------------------------------------
(* Which status stands *)

St(s) == handler[s].status

\* Without interference everybody writes the status that was set last.
SameStatus == clean => \A s \in Sockets : W(s) => St(s) = last.status

\* A call that is left alone sets the last status, and what it has done to
\* Redis and read from the database still holds.
AloneHolds(s) ==
    /\ last.status = St(s)
    /\ \A o \in Sockets : W(o) => St(o) = St(s)
    /\ handler[s].at \in {"load", "commit"} => redis \in {None, St(s)}
    /\ handler[s].at = "commit" => handler[s].loaded # St(s) \/ db = St(s)
AlonesHold == \A s \in Sockets : W(s) /\ handler[s].alone => AloneHolds(s)

\* The calls that are still going to write the last status.
RedisOwed(s) == handler[s].at \in {"get", "set"}
DbOwed(s) ==
    \/ handler[s].at \in {"set", "load"}
    \/ handler[s].at = "commit" /\ handler[s].loaded # last.status
    \/ handler[s].at = "get" /\ redis # last.status
RedisRight == redis \in {None, last.status} \/ \E s \in Sockets : RedisOwed(s)
DbRight == db = last.status \/ \E s \in Sockets : DbOwed(s)
Owed == clean => RedisRight /\ DbRight

Standing == SameStatus /\ AlonesHold /\ Owed

Steady(o) ==
    /\ handler'[o].at = handler[o].at /\ handler'[o].status = handler[o].status
    /\ handler'[o].loaded = handler[o].loaded /\ handler'[o].alone = handler[o].alone

LEMMA WritingIs == \A s : W(s) <=> handler[s].at \in {"get", "set", "load", "commit", "renew"}
BY DEF W, Writing

\* A step that touches neither store and lets handlers go that owe nothing.
LEMMA CalmKept ==
    ASSUME Standing, UNCHANGED <<redis, db, last>>, clean' => clean,
           \A o \in Sockets :
              Steady(o) \/ (~ W(o)' /\ (clean' => ~ RedisOwed(o) /\ ~ DbOwed(o)))
    PROVE  Standing'
<1>1. SameStatus'
  BY WritingIs DEF Standing, SameStatus, Steady, W, St
<1>2. AlonesHold'
  <2> SUFFICES ASSUME NEW s \in Sockets, W(s)', handler'[s].alone
               PROVE  AloneHolds(s)'
    BY DEF AlonesHold
  <2>1. Steady(s) /\ W(s) /\ handler[s].alone
    BY DEF Steady, W
  <2>2. AloneHolds(s)
    BY <2>1 DEF Standing, AlonesHold
  <2>3. \A o \in Sockets : W(o)' => W(o) /\ St(o)' = St(o)
    BY DEF Steady, W, St
  <2> QED
    BY <2>1, <2>2, <2>3 DEF AloneHolds, Steady, St
<1>3. ASSUME clean'  PROVE RedisRight' /\ DbRight'
  <2>1. RedisRight /\ DbRight
    BY <1>3 DEF Standing, Owed
  <2>2. \A o \in Sockets : (RedisOwed(o) => RedisOwed(o)') /\ (DbOwed(o) => DbOwed(o)')
    BY <1>3 DEF RedisOwed, DbOwed, Steady
  <2> QED
    BY <2>1, <2>2 DEF RedisRight, DbRight
<1> QED
  BY <1>1, <1>2, <1>3 DEF Standing, Owed

\* A new call: its rivals are no longer alone, and if there are none it owes
\* whatever is not already so.
LEMMA SetKept ==
    ASSUME TypeOK, Standing, NEW s \in Sockets, NEW p \in Procs, NEW leg \in Legs,
           NEW status \in Statuses, SetPresence(s, p, leg, status), ~ W(s),
           UNCHANGED <<redis, db>>
    PROVE  Standing'
<1>1. /\ handler'[s].at = "get" /\ St(s)' = status
      /\ handler'[s].alone = (Rivals(s, status) = {})
      /\ last'.status = status /\ clean' = (clean /\ Rivals(s, status) = {})
  <2>1. last' = [status |-> status, proc |-> p] /\ clean' = (clean /\ Rivals(s, status) = {})
    BY SetPresenceOnly
  <2> QED
    BY <2>1, SetPresenceIs DEF St
<1>2. \A o \in Sockets \ {s} :
         /\ handler'[o].at = handler[o].at /\ St(o)' = St(o) /\ (W(o)' <=> W(o))
         /\ handler'[o].loaded = handler[o].loaded
         /\ handler'[o].alone = (handler[o].alone /\ o \notin Rivals(s, status))
  <2>1. \A o \in Sockets \ {s} :
           /\ handler'[o].at = handler[o].at /\ handler'[o].status = handler[o].status
           /\ handler'[o].loaded = handler[o].loaded
           /\ handler'[o].alone = (handler[o].alone /\ o \notin Rivals(s, status))
    BY SetPresenceOnly, ZenonT(60)
  <2> QED
    BY <2>1 DEF St, W
<1>3. \A o \in Sockets \ {s} : o \in Rivals(s, status) <=> W(o) /\ St(o) # status
  BY DEF Rivals, W, St
<1>4. W(s)'
  BY <1>1 DEF W, Writing
<1>5. SameStatus'
  <2> SUFFICES ASSUME clean', NEW o \in Sockets, W(o)'  PROVE St(o)' = last'.status
    BY DEF SameStatus
  <2>1. Rivals(s, status) = {}
    BY <1>1
  <2>2. CASE o = s
    BY <1>1, <2>2
  <2>3. CASE o # s
    <3>1. W(o) /\ o \notin Rivals(s, status) /\ St(o)' = St(o)
      BY <1>2, <2>1, <2>3
    <3> QED
      BY <1>1, <1>3, <2>3, <3>1
  <2> QED
    BY <2>2, <2>3
<1>6. AlonesHold'
  <2> SUFFICES ASSUME NEW o \in Sockets, W(o)', handler'[o].alone
               PROVE  AloneHolds(o)'
    BY DEF AlonesHold
  <2>1. CASE o = s
    <3>1. Rivals(s, status) = {}
      BY <1>1, <2>1
    <3>2. \A q \in Sockets : W(q)' => St(q)' = status
      BY <1>1, <1>2, <1>3, <3>1
    <3> QED
      BY <1>1, <2>1, <3>2 DEF AloneHolds
  <2>2. CASE o # s
    <3>1. W(o) /\ handler[o].alone /\ St(o) = status
      BY <1>2, <1>3, <2>2
    <3>2. AloneHolds(o)
      BY <3>1 DEF Standing, AlonesHold
    <3>3. \A q \in Sockets : W(q)' => St(q)' = status
      BY <1>1, <1>2, <3>1, <3>2 DEF AloneHolds
    <3> QED
      BY <1>1, <1>2, <2>2, <3>1, <3>2, <3>3 DEF AloneHolds
  <2> QED
    BY <2>1, <2>2
<1>7. ASSUME clean'  PROVE RedisRight' /\ DbRight'
  <2>1. clean /\ Rivals(s, status) = {} /\ RedisRight /\ DbRight
    BY <1>1, <1>7 DEF Standing, Owed
  <2>2. RedisRight'
    BY <1>1 DEF RedisRight, RedisOwed
  <2>3. CASE redis # status
    BY <1>1, <2>2, <2>3 DEF DbRight, DbOwed
  <2>4. CASE redis = status
    <3>1. last.status = status
      <4>1. CASE \E o \in Sockets : RedisOwed(o)
        <5>1. PICK o \in Sockets : W(o)
          BY <4>1 DEF RedisOwed, W, Writing
        <5> QED
          BY <1>3, <2>1, <5>1 DEF Standing, SameStatus
      <4>2. CASE redis \in {None, last.status}
        BY <2>4, <4>2, NoneAssumption
      <4> QED
        BY <2>1, <4>1, <4>2 DEF RedisRight
    <3>2. \A o \in Sockets : DbOwed(o) => DbOwed(o)'
      <4>1. ~ DbOwed(s)
        BY DEF DbOwed, W, Writing
      <4> QED
        BY <1>1, <1>2, <3>1, <4>1 DEF DbOwed
    <3> QED
      BY <1>1, <2>1, <2>2, <3>1, <3>2 DEF DbRight
  <2> QED
    BY <2>3, <2>4
<1> QED
  BY <1>5, <1>6, <1>7 DEF Standing, Owed

\* A step of a call from one of its phases to the next.
LEMMA PhaseKept ==
    ASSUME TypeOK, Standing, NEW s \in Sockets, NEW phase \in Writing, Goto(s, phase), W(s),
           UNCHANGED <<db, last, clean>>,
           \/ redis' = redis
           \/ redis' = St(s),
           handler[s].at \notin {"load", "commit"} /\ phase \in {"load", "commit"} => redis' = St(s),
           phase # "commit",
           clean => RedisRight' /\ DbRight'
    PROVE  Standing'
<1>1. /\ \A o \in Sockets \ {s} : handler'[o] = handler[o]
      /\ handler'[s].at = phase /\ St(s)' = St(s) /\ handler'[s].alone = handler[s].alone
  BY GotoOnly, Kinds DEF Only, St
<1>2. \A o \in Sockets : (W(o)' <=> W(o)) /\ St(o)' = St(o) /\ handler'[o].alone = handler[o].alone
  BY <1>1 DEF W, St
<1>3. SameStatus'
  BY <1>2 DEF Standing, SameStatus
<1>4. AlonesHold'
  <2> SUFFICES ASSUME NEW o \in Sockets, W(o)', handler'[o].alone
               PROVE  AloneHolds(o)'
    BY DEF AlonesHold
  <2>1. W(o) /\ AloneHolds(o) /\ St(s) = St(o)
    BY <1>2 DEF Standing, AlonesHold, AloneHolds
  <2>2. last'.status = St(o)' /\ \A q \in Sockets : W(q)' => St(q)' = St(o)'
    BY <1>2, <2>1 DEF AloneHolds
  <2>3. CASE o # s
    BY <1>1, <1>2, <2>1, <2>2, <2>3 DEF AloneHolds
  <2>4. CASE o = s
    BY <1>1, <1>2, <2>1, <2>2, <2>4 DEF AloneHolds
  <2> QED
    BY <2>3, <2>4
<1> QED
  BY <1>3, <1>4 DEF Standing, Owed

\* The column is read: what was loaded is what is there.
LEMMA LoadKept ==
    ASSUME TypeOK, Standing, NEW s \in Sockets, LoadUser(s)
    PROVE  Standing'
<1> DEFINE h == [handler[s] EXCEPT !.at = "commit", !.loaded = db]
<1>1. /\ h \in Handler /\ h.at = "commit" /\ h.status = handler[s].status
      /\ h.alone = handler[s].alone /\ h.loaded = db
  <2>1. "commit" \in Phases /\ db \in Statuses \cup {None} /\ handler[s] \in Handler
    BY DEF Phases, Writing, TypeOK
  <2> QED
    BY <2>1 DEF Handler
<1>2. Become(s, h) /\ handler[s].at = "load" /\ UNCHANGED <<redis, db, last, clean>>
  BY DEF LoadUser, At, storeVars
<1> HIDE DEF h
<1>3. /\ handler'[s].at = "commit" /\ St(s)' = St(s) /\ handler'[s].loaded = db
      /\ handler'[s].alone = handler[s].alone
      /\ \A o \in Sockets \ {s} : handler'[o] = handler[o]
  BY <1>1, <1>2, BecomeOnly DEF Only, St
<1>4. \A o \in Sockets : (W(o)' <=> W(o)) /\ St(o)' = St(o) /\ handler'[o].alone = handler[o].alone
  BY <1>2, <1>3 DEF W, St, Writing
<1>5. SameStatus'
  BY <1>2, <1>4 DEF Standing, SameStatus
<1>6. AlonesHold'
  <2> SUFFICES ASSUME NEW o \in Sockets, W(o)', handler'[o].alone
               PROVE  AloneHolds(o)'
    BY DEF AlonesHold
  <2>1. W(o) /\ AloneHolds(o)
    BY <1>4 DEF Standing, AlonesHold
  <2>2. last'.status = St(o)' /\ \A q \in Sockets : W(q)' => St(q)' = St(o)'
    BY <1>2, <1>4, <2>1 DEF AloneHolds
  <2>3. CASE o # s
    BY <1>2, <1>3, <1>4, <2>1, <2>2, <2>3 DEF AloneHolds
  <2>4. CASE o = s
    BY <1>2, <1>3, <1>4, <2>1, <2>2, <2>4 DEF AloneHolds
  <2> QED
    BY <2>3, <2>4
<1>7. ASSUME clean'  PROVE RedisRight' /\ DbRight'
  <2>1. RedisRight /\ DbRight
    BY <1>2, <1>7 DEF Standing, Owed
  <2>2. \A o \in Sockets : RedisOwed(o) => RedisOwed(o)'
    BY <1>2, <1>3 DEF RedisOwed
  <2>3. \A o \in Sockets \ {s} : DbOwed(o) => DbOwed(o)'
    BY <1>2, <1>3 DEF DbOwed
  <2>4. db' = last'.status \/ DbOwed(s)'
    BY <1>2, <1>3 DEF DbOwed
  <2> QED
    BY <1>2, <2>1, <2>2, <2>3, <2>4 DEF RedisRight, DbRight
<1> QED
  BY <1>5, <1>6, <1>7 DEF Standing, Owed

\* The column is written if it was not so when it was loaded.
LEMMA CommitKept ==
    ASSUME TypeOK, Standing, NEW s \in Sockets, CommitUser(s)
    PROVE  Standing'
<1>1. /\ handler[s].at = "commit" /\ W(s) /\ handler[s] \in Handler
      /\ db' = IF handler[s].loaded # St(s) THEN St(s) ELSE db
      /\ UNCHANGED <<redis, last>>
  BY DEF CommitUser, At, W, Writing, St, TypeOK
<1>2. handler'[s].at = "tell" /\ \A o \in Sockets \ {s} : handler'[o] = handler[o]
  <2>1. Become(s, Done(handler[s]))
    BY DEF CommitUser
  <2> QED
    BY <1>1, <2>1, DoneIs, BecomeOnly DEF Only
<1>3. \A o \in Sockets : W(o)' => o # s /\ W(o) /\ St(o)' = St(o)
  BY <1>2 DEF W, St, Writing
<1>4. clean' = (clean \/ handler[s].alone) /\ clean \in BOOLEAN /\ handler[s].alone \in BOOLEAN
  BY <1>1 DEF CommitUser, TypeOK, Handler
<1>5. handler[s].alone => AloneHolds(s)
  BY <1>1 DEF Standing, AlonesHold
<1>6. SameStatus'
  <2> SUFFICES ASSUME clean', NEW o \in Sockets, W(o)'  PROVE St(o)' = last'.status
    BY DEF SameStatus
  <2>1. CASE clean
    BY <1>1, <1>3, <2>1 DEF Standing, SameStatus
  <2>2. CASE handler[s].alone
    BY <1>1, <1>3, <1>5, <2>2 DEF AloneHolds
  <2> QED
    BY <1>4, <2>1, <2>2
<1>7. AlonesHold'
  <2> SUFFICES ASSUME NEW o \in Sockets, W(o)', handler'[o].alone
               PROVE  AloneHolds(o)'
    BY DEF AlonesHold
  <2>1. o # s /\ W(o) /\ handler'[o] = handler[o] /\ AloneHolds(o)
    BY <1>2, <1>3 DEF Standing, AlonesHold
  <2>2. last'.status = St(o)' /\ \A q \in Sockets : W(q)' => St(q)' = St(o)'
    BY <1>1, <1>3, <2>1 DEF AloneHolds
  <2>3. St(s) = St(o) /\ St(o)' = St(o)
    BY <1>1, <1>3, <2>1 DEF AloneHolds
  <2> QED
    BY <1>1, <2>1, <2>2, <2>3 DEF AloneHolds
<1>8. ASSUME clean'  PROVE RedisRight' /\ DbRight'
  <2>1. CASE handler[s].alone
    <3>1. redis \in {None, last.status} /\ St(s) = last.status /\ (handler[s].loaded # St(s) \/ db = St(s))
      BY <1>1, <1>5, <2>1 DEF AloneHolds
    <3> QED
      BY <1>1, <3>1 DEF RedisRight, DbRight
  <2>2. CASE clean
    <3>1. RedisRight /\ DbRight /\ St(s) = last.status
      BY <1>1, <2>2 DEF Standing, Owed, SameStatus
    <3>2. \A o \in Sockets : RedisOwed(o) => o # s /\ RedisOwed(o)'
      BY <1>1, <1>2 DEF RedisOwed
    <3>3. \A o \in Sockets \ {s} : DbOwed(o) => DbOwed(o)'
      BY <1>1, <1>2 DEF DbOwed
    <3>4. DbOwed(s) => db' = last'.status
      BY <1>1, <3>1 DEF DbOwed
    <3>5. db = last.status => db' = last'.status
      BY <1>1, <3>1
    <3> QED
      BY <1>1, <3>1, <3>2, <3>3, <3>4, <3>5 DEF RedisRight, DbRight
  <2> QED
    BY <1>4, <1>8, <2>1, <2>2
<1> QED
  BY <1>6, <1>7, <1>8 DEF Standing, Owed

\* A lost key is as good as the right one.
LEMMA ForgetKept ==
    ASSUME TypeOK, Standing, Forget
    PROVE  Standing'
<1>1. redis' = None /\ UNCHANGED <<handler, db, last, clean>>
  BY DEF Forget
<1>2. None # last.status
  BY NoneAssumption DEF TypeOK
<1>3. SameStatus'
  BY <1>1 DEF Standing, SameStatus, W, St
<1>4. AlonesHold'
  BY <1>1 DEF Standing, AlonesHold, AloneHolds, W, St
<1>5. ASSUME clean'  PROVE RedisRight' /\ DbRight'
  <2>1. DbRight
    BY <1>1, <1>5 DEF Standing, Owed
  <2>2. \A o \in Sockets : DbOwed(o) => DbOwed(o)'
    BY <1>1, <1>2 DEF DbOwed
  <2> QED
    BY <1>1, <2>1, <2>2 DEF RedisRight, DbRight
<1> QED
  BY <1>3, <1>4, <1>5 DEF Standing, Owed

LEMMA StepStanding ==
    ASSUME Listed, Standing, [Next]_vars
    PROVE  Standing'
<1>t. TypeOK /\ ProcKnown
  BY DEF Listed
<1>0. \A s \in Sockets : handler[s] \in Handler /\ handler[s].leg \in Legs
  BY <1>t DEF TypeOK, Handler
<1>c. ASSUME NEW s \in Sockets, NEW h \in Handler, Become(s, h), h.at \notin Writing,
             clean' => clean /\ ~ RedisOwed(s) /\ ~ DbOwed(s), UNCHANGED <<redis, db, last>>
      PROVE  Standing'
  <2>1. handler'[s] = h /\ \A o \in Sockets \ {s} : handler'[o] = handler[o]
    BY <1>c, <1>t, BecomeOnly DEF Only
  <2> QED
    BY <1>c, <2>1, CalmKept DEF W, Steady
<1>1. ASSUME NEW s \in Sockets, GetPrev(s)  PROVE Standing'
  <2>1. handler[s].at = "get" /\ W(s) /\ UNCHANGED <<redis, db, last, clean>>
    BY <1>1 DEF GetPrev, At, W, Writing, storeVars
  <2>2. PICK phase \in {"renew", "set"} :
           Goto(s, phase) /\ (phase = "renew" <=> redis = St(s))
    BY <1>1 DEF GetPrev, St
  <2>3. phase \in Phases /\ phase \in Writing
    BY DEF Phases, Writing
  <2>4. handler'[s].at = phase /\ \A o \in Sockets \ {s} : handler'[o] = handler[o]
    BY <1>t, <2>2, <2>3, GotoOnly DEF Only
  <2>5. ASSUME clean  PROVE RedisRight' /\ DbRight'
    <3>1. RedisRight /\ DbRight /\ St(s) = last.status
      BY <2>1, <2>5 DEF Standing, Owed, SameStatus
    <3>2. CASE phase = "set"
      BY <2>4, <3>2 DEF RedisRight, RedisOwed, DbRight, DbOwed
    <3>3. CASE phase = "renew"
      <4>1. redis = last.status
        BY <2>2, <3>1, <3>3
      <4>2. ~ DbOwed(s) /\ \A o \in Sockets \ {s} : DbOwed(o) => DbOwed(o)'
        BY <2>1, <2>4, <4>1 DEF DbOwed
      <4> QED
        BY <2>1, <3>1, <4>1, <4>2 DEF RedisRight, DbRight
    <3> QED
      BY <3>2, <3>3
  <2>6. phase \notin {"load", "commit"}
    OBVIOUS
  <2> QED
    BY <1>t, <2>1, <2>2, <2>3, <2>5, <2>6, PhaseKept
<1>2. ASSUME NEW s \in Sockets, SetRedis(s)  PROVE Standing'
  <2>1. handler[s].at = "set" /\ W(s) /\ redis' = St(s) /\ UNCHANGED <<db, last, clean>>
    BY <1>2 DEF SetRedis, At, W, Writing, St
  <2>2. Goto(s, "load") /\ "load" \in Phases /\ "load" \in Writing
    BY <1>2 DEF SetRedis, Phases, Writing
  <2>3. handler'[s].at = "load"
    BY <1>t, <2>2, GotoOnly
  <2>4. ASSUME clean  PROVE RedisRight' /\ DbRight'
    <3>1. St(s) = last.status
      BY <2>1, <2>4 DEF Standing, SameStatus
    <3> QED
      BY <2>1, <2>3, <3>1 DEF RedisRight, DbRight, DbOwed
  <2> QED
    BY <1>t, <2>1, <2>2, <2>4, PhaseKept
<1>3. ASSUME NEW s \in Sockets, LoadUser(s)  PROVE Standing'
  BY <1>3, <1>t, LoadKept
<1>4. ASSUME NEW s \in Sockets, CommitUser(s)  PROVE Standing'
  BY <1>4, <1>t, CommitKept
<1>5. ASSUME NEW s \in Sockets, Renew(s)  PROVE Standing'
  <2>1. Done(handler[s]) \in Handler /\ Done(handler[s]).at = "tell"
    BY <1>0, DoneIs
  <2>2. "tell" \notin Writing
    BY DEF Writing
  <2> QED
    BY <1>5, <1>c, <2>1, <2>2 DEF Renew, At, RedisOwed, DbOwed, storeVars
<1>6. ASSUME NEW s \in Sockets, Tell(s)  PROVE Standing'
  <2>1. PICK phase \in {"loop", "ended"} : Become(s, Rest(handler[s], phase))
    BY <1>6 DEF Tell
  <2>2. phase \in Phases /\ phase \notin Writing
    BY DEF Phases, Writing
  <2>3. Rest(handler[s], phase) \in Handler /\ Rest(handler[s], phase).at \notin Writing
    BY <1>0, <2>2, Kinds
  <2> QED
    BY <1>6, <1>c, <2>1, <2>3 DEF Tell, At, RedisOwed, DbOwed, storeVars
<1>7. ASSUME NEW s \in Sockets, CallFails(s)  PROVE Standing'
  <2>1. PICK phase \in {"leaked", "broken", "ended"} : Become(s, Rest(handler[s], phase))
    BY <1>0, <1>7 DEF CallFails, Legs
  <2>2. phase \in Phases /\ phase \notin Writing
    BY DEF Phases, Writing
  <2>3. Rest(handler[s], phase) \in Handler /\ Rest(handler[s], phase).at \notin Writing
    BY <1>0, <2>2, Kinds
  <2> QED
    BY <1>7, <1>c, <2>1, <2>3 DEF CallFails, At, RedisOwed, DbOwed, storeVars
<1>8. ASSUME NEW s \in Sockets, NoticeClosed(s)  PROVE Standing'
  <2>1. handler[s].proc \in Procs /\ ~ W(s) /\ ~ RedisOwed(s) /\ ~ DbOwed(s)
    BY <1>8, <1>t DEF NoticeClosed, At, ProcKnown, W, Writing, RedisOwed, DbOwed
  <2>2. Finally(s) /\ UNCHANGED <<redis, db>>
    BY <1>8 DEF NoticeClosed, storeVars
  <2>3. CASE SetPresence(s, handler[s].proc, "close", "offline")
    <3>1. "close" \in Legs /\ "offline" \in Statuses
      BY DEF Legs, Statuses
    <3> QED
      BY <1>t, <2>1, <2>2, <2>3, <3>1, SetKept
  <2>4. CASE Become(s, Rest(handler[s], "ended")) /\ UNCHANGED <<last, clean>>
    <3>1. "ended" \in Phases /\ "ended" \notin Writing
      BY DEF Phases, Writing
    <3>2. Rest(handler[s], "ended") \in Handler /\ Rest(handler[s], "ended").at \notin Writing
      BY <1>0, <3>1, Kinds
    <3> QED
      BY <1>c, <2>1, <2>2, <2>4, <3>2
  <2> QED
    BY <1>t, <2>1, <2>2, <2>3, <2>4, FinallyIs
<1>9. ASSUME NEW s \in Sockets, NEW status \in Statuses, Event(s, status)  PROVE Standing'
  <2>1. handler[s].proc \in Procs /\ ~ W(s) /\ "loop" \in Legs
    BY <1>9, <1>t DEF Event, At, ProcKnown, W, Writing, Legs
  <2>2. SetPresence(s, handler[s].proc, "loop", status) /\ UNCHANGED <<redis, db>>
    BY <1>9 DEF Event, storeVars
  <2> QED
    BY <1>t, <2>1, <2>2, SetKept
<1>10. ASSUME NEW s \in Sockets, NEW p \in Procs, Connect(s, p)  PROVE Standing'
  <2>1. ~ W(s) /\ "connect" \in Legs /\ "online" \in Statuses
    BY <1>10 DEF Connect, Listed, NewIsAbsent, W, Writing, Legs, Statuses
  <2>2. SetPresence(s, p, "connect", "online") /\ UNCHANGED <<redis, db>>
    BY <1>10 DEF Connect, storeVars
  <2> QED
    BY <1>t, <2>1, <2>2, SetKept
<1>11. ASSUME NEW p \in Procs, Crash(p)  PROVE Standing'
  <2> DEFINE here == {s \in Sockets : handler[s].at \in Served /\ handler[s].proc = p}
  <2>1. \A o \in Sockets \ here : handler'[o] = handler[o]
    BY <1>11 DEF Crash
  <2>2. \A o \in here : handler'[o].at = "ended"
    <3>1. "ended" \in Phases
      BY DEF Phases
    <3> QED
      BY <1>0, <1>11, <3>1, Kinds DEF Crash
  <2>3. /\ UNCHANGED <<redis, db, last>>
        /\ clean' => clean
        /\ clean' => \A o \in here : handler[o].at \notin Writing
    BY <1>11 DEF Crash, storeVars
  <2>4. \A o \in here : ~ W(o)' /\ (clean' => ~ RedisOwed(o) /\ ~ DbOwed(o))
    BY <2>2, <2>3 DEF W, Writing, RedisOwed, DbOwed
  <2>5. \A o \in Sockets \ here : Steady(o)
    BY <2>1 DEF Steady
  <2>6. \A o \in Sockets : Steady(o) \/ (~ W(o)' /\ (clean' => ~ RedisOwed(o) /\ ~ DbOwed(o)))
    BY <2>4, <2>5
  <2> HIDE DEF here
  <2> QED
    BY <2>3, <2>6, CalmKept
<1>12. ASSUME Forget  PROVE Standing'
  BY <1>12, <1>t, ForgetKept
<1>13. ASSUME UNCHANGED <<handler, redis, db, last, clean>>  PROVE Standing'
  BY <1>13, CalmKept DEF Steady
<1> QED
  BY <1>1, <1>2, <1>3, <1>4, <1>5, <1>6, <1>7, <1>8, <1>9, <1>10, <1>11, <1>12, <1>13
     DEF Next, HandlerStep, CloseTab, Discard, vars, storeVars

LEMMA InitStanding == Init => Standing
<1> SUFFICES ASSUME Init PROVE Standing
  OBVIOUS
<1>1. \A s \in Sockets : ~ W(s)
  BY DEF Init, Absent, W, Writing
<1> QED
  BY <1>1 DEF Init, Standing, SameStatus, AlonesHold, Owed, RedisRight, DbRight

\* The status that was set last stands in Redis and in the database, as long
\* as no other one interferes (handler.py 28-49): calls that agree may
\* interleave as they like, and one that is left alone makes good for all
\* that went wrong before.
THEOREM LastStatusHolds == Spec => []LastStatusStands
<1>1. Init => Listed /\ Standing
  BY InitListed, InitStanding
<1>2. Listed /\ Standing /\ [Next]_vars => (Listed /\ Standing)'
  BY StepListed, StepStanding
<1>3. Standing => LastStatusStands
  <2>1. ASSUME Quiet  PROVE \A s \in Sockets : ~ RedisOwed(s) /\ ~ DbOwed(s)
    BY <2>1 DEF Quiet, Writing, RedisOwed, DbOwed
  <2> QED
    BY <2>1 DEF LastStatusStands, Standing, Owed, RedisRight, DbRight
<1> QED
  BY <1>1, <1>2, <1>3, PTL DEF Spec
=============================================================================
