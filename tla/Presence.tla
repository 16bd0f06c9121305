------------------------------ MODULE Presence ------------------------------
(***************************************************************************)
(* Presence of one user: websocket/handler.py, the sockets that each        *)
(* process counts (websocket/manager.py), the key in Redis and the column   *)
(* users.presence.  A handler is carried out call by call; handlers of all  *)
(* tabs interleave at every await.                                          *)
(***************************************************************************)
EXTENDS Naturals, FiniteSets

CONSTANTS
    Sockets,     \* connections ever opened by the user's tabs
    Procs,       \* uvicorn processes
    None,        \* no value
    MaxFaults    \* crashes of a process, failed calls and lost keys, in all

ASSUME ProcsAssumption == None \notin Procs /\ None \notin Sockets
ASSUME BoundsAssumption == MaxFaults \in Nat

VARIABLES
    socket,    \* socket[s]: the connection, as the browser sees it
    handler,   \* handler[s]: what websocket_handler is doing
    registry,  \* registry[p]: manager._user_sockets of the user
    redis,     \* the key presence:<user>
    db,        \* users.presence
    last,      \* who set the presence last, and to what (history)
    clean,     \* no other status has interfered with the last one (history)
    crashed,   \* a process has died with a handler of the user (history)
    faults     \* crashes, failed calls and lost keys so far

storeVars == <<redis, db>>
vars == <<socket, handler, registry, storeVars, last, clean, crashed, faults>>

Statuses == {"online", "afk", "offline"}

ASSUME NoneAssumption == None \notin Statuses

\* get .. commit: _set_presence, up to its last write.
Writing == {"get", "set", "load", "commit", "renew"}
Phases == {"none", "loop", "tell", "broken", "ended", "leaked"} \cup Writing
Served == Phases \ {"none", "ended"}
Legs == {"connect", "loop", "close"}

Absent == [at |-> "none", proc |-> None, leg |-> "connect", status |-> "online",
           loaded |-> None, alone |-> FALSE]

Handler == [at : Phases, proc : Procs \cup {None}, leg : Legs, status : Statuses,
            loaded : Statuses \cup {None}, alone : BOOLEAN]

Init ==
    /\ socket = [s \in Sockets |-> "new"]
    /\ handler = [s \in Sockets |-> Absent]
    /\ registry = [p \in Procs |-> {}]
    /\ redis = None /\ db = "offline"
    /\ last = [status |-> "offline", proc |-> None] /\ clean = TRUE
    /\ crashed = FALSE /\ faults = 0

At(s, phase) == handler[s].at = phase
Become(s, h) == handler' = [handler EXCEPT ![s] = h]
Goto(s, phase) == Become(s, [handler[s] EXCEPT !.at = phase])
Rest(h, phase) == [Absent EXCEPT !.at = phase, !.proc = h.proc]
Fault == faults < MaxFaults /\ faults' = faults + 1

-----------------------------------------------------------------------------
(* _set_presence *)

Rivals(s, status) ==
    {o \in Sockets \ {s} : handler[o].at \in Writing /\ handler[o].status # status}

\* The handler of s calls _set_presence(status).
SetPresence(s, p, leg, status) ==
    /\ handler' = [o \in Sockets |->
          IF o = s THEN [at |-> "get", proc |-> p, leg |-> leg, status |-> status,
                         loaded |-> None, alone |-> Rivals(s, status) = {}]
          ELSE [handler[o] EXCEPT !.alone = @ /\ o \notin Rivals(s, status)]]
    /\ last' = [status |-> status, proc |-> p]
    /\ clean' = (clean /\ Rivals(s, status) = {})

\* Error: a missing key is taken for an unchanged status.
GetPrev_MissingIsSame(s) ==
    /\ At(s, "get")
    /\ Goto(s, IF redis \in {None, handler[s].status} THEN "renew" ELSE "set")
    /\ UNCHANGED <<socket, registry, storeVars, last, clean, crashed, faults>>

\* prev = redis.get(key)
GetPrev(s) ==
    /\ At(s, "get")
    /\ Goto(s, IF redis = handler[s].status THEN "renew" ELSE "set")
    /\ UNCHANGED <<socket, registry, storeVars, last, clean, crashed, faults>>

Done(h) == [Rest(h, "tell") EXCEPT !.leg = h.leg]

\* The status is the one in Redis: expire, and no write to the database.
Renew(s) ==
    /\ At(s, "renew")
    /\ Become(s, Done(handler[s]))
    /\ UNCHANGED <<socket, registry, storeVars, last, clean, crashed, faults>>

SetRedis(s) ==
    /\ At(s, "set")
    /\ redis' = handler[s].status
    /\ Goto(s, "load")
    /\ UNCHANGED <<socket, registry, db, last, clean, crashed, faults>>

LoadUser(s) ==
    /\ At(s, "load")
    /\ Become(s, [handler[s] EXCEPT !.at = "commit", !.loaded = db])
    /\ UNCHANGED <<socket, registry, storeVars, last, clean, crashed, faults>>

\* Error: the column is copied from Redis.
CommitUser_FromRedis(s) ==
    /\ At(s, "commit")
    /\ db' = redis
    /\ Become(s, Done(handler[s]))
    /\ clean' = (clean \/ handler[s].alone)
    /\ UNCHANGED <<socket, registry, redis, last, crashed, faults>>

\* The ORM writes the column if it differs from the value that was loaded.
CommitUser(s) ==
    /\ At(s, "commit")
    /\ db' = IF handler[s].loaded # handler[s].status THEN handler[s].status ELSE db
    /\ Become(s, Done(handler[s]))
    /\ clean' = (clean \/ handler[s].alone)
    /\ UNCHANGED <<socket, registry, redis, last, crashed, faults>>

\* The friends are read and broadcast_presence is enqueued: back in the loop,
\* or out of the finally block.
Tell(s) ==
    /\ At(s, "tell")
    /\ Become(s, Rest(handler[s], IF handler[s].leg = "close" THEN "ended" ELSE "loop"))
    /\ UNCHANGED <<socket, registry, storeVars, last, clean, crashed, faults>>

-----------------------------------------------------------------------------
(* websocket_handler *)

\* accept, manager.connect, and the call for "online".
Connect(s, p) ==
    /\ socket[s] = "new"
    /\ socket' = [socket EXCEPT ![s] = "open"]
    /\ registry' = [registry EXCEPT ![p] = @ \cup {s}]
    /\ SetPresence(s, p, "connect", "online")
    /\ UNCHANGED <<storeVars, crashed, faults>>

\* The events "afk" and "active" of a tab.
Event(s, status) ==
    /\ At(s, "loop") /\ status \in {"online", "afk"}
    /\ SetPresence(s, handler[s].proc, "loop", status)
    /\ UNCHANGED <<socket, registry, storeVars, crashed, faults>>

\* The tab goes away, or its connection breaks.
CloseTab(s) ==
    /\ socket[s] = "open"
    /\ socket' = [socket EXCEPT ![s] = "closed"]
    /\ UNCHANGED <<handler, registry, storeVars, last, clean, crashed, faults>>

\* Error: the socket of the tab that is gone stays in the registry.
Finally_NotRemoved(s) ==
    /\ UNCHANGED registry
    /\ IF registry[handler[s].proc] = {s}
       THEN SetPresence(s, handler[s].proc, "close", "offline")
       ELSE Become(s, Rest(handler[s], "ended")) /\ UNCHANGED <<last, clean>>

\* Error: the sockets are counted before this one is taken out.
Finally_CountedFirst(s) ==
    LET p == handler[s].proc
    IN  /\ registry' = [registry EXCEPT ![p] = @ \ {s}]
        /\ IF registry[p] = {}
           THEN SetPresence(s, p, "close", "offline")
           ELSE Become(s, Rest(handler[s], "ended")) /\ UNCHANGED <<last, clean>>

\* The finally block: disconnect, and "offline" if this process has no other
\* socket of the user.
Finally(s) ==
    LET p == handler[s].proc
    IN  /\ registry' = [registry EXCEPT ![p] = @ \ {s}]
        /\ IF registry'[p] = {}
           THEN SetPresence(s, p, "close", "offline")
           ELSE Become(s, Rest(handler[s], "ended")) /\ UNCHANGED <<last, clean>>

\* receive_text raises, or the ping that is sent after 30 s does, or a call in
\* the loop has raised.
NoticeClosed(s) ==
    /\ At(s, "broken") \/ (At(s, "loop") /\ socket[s] = "closed")
    /\ Finally(s)
    /\ UNCHANGED <<socket, storeVars, crashed, faults>>

\* Redis, the database or the broker fails.  The first call is made before
\* the try: no finally block takes the socket out of the registry again.
CallFails(s) ==
    /\ handler[s].at \in Writing \cup {"tell"}
    /\ Fault
    /\ Become(s, Rest(handler[s], CASE handler[s].leg = "connect" -> "leaked"
                                     [] handler[s].leg = "loop" -> "broken"
                                     [] handler[s].leg = "close" -> "ended"))
    /\ socket' = [socket EXCEPT ![s] = "closed"]
    /\ clean' = (clean /\ At(s, "tell"))
    /\ UNCHANGED <<registry, storeVars, last, crashed>>

\* _send_to_set: a socket that cannot be written to is discarded.
Discard(s, p) ==
    /\ s \in registry[p] /\ socket[s] = "closed"
    /\ registry' = [registry EXCEPT ![p] = @ \ {s}]
    /\ UNCHANGED <<socket, handler, storeVars, last, clean, crashed, faults>>

\* A process dies with its handlers and its registry; another takes its place.
Crash(p) ==
    LET here == {s \in Sockets : handler[s].at \in Served /\ handler[s].proc = p}
    IN  /\ here # {}
        /\ Fault
        /\ handler' = [s \in Sockets |->
              IF s \in here THEN Rest(handler[s], "ended") ELSE handler[s]]
        /\ socket' = [s \in Sockets |-> IF s \in here THEN "closed" ELSE socket[s]]
        /\ registry' = [registry EXCEPT ![p] = {}]
        /\ clean' = (clean /\ \A s \in here : handler[s].at \notin Writing)
        /\ crashed' = TRUE
        /\ UNCHANGED <<storeVars, last>>

\* The key lives 90 s from the last call, and Redis evicts when it is full.
Forget ==
    /\ redis # None
    /\ redis' = None
    /\ Fault
    /\ UNCHANGED <<socket, handler, registry, db, last, clean, crashed>>

-----------------------------------------------------------------------------
HandlerStep(s) ==
    \/ GetPrev(s) \/ Renew(s) \/ SetRedis(s) \/ LoadUser(s) \/ CommitUser(s) \/ Tell(s)
    \/ CallFails(s)

Next ==
    \/ \E s \in Sockets :
          \/ HandlerStep(s) \/ CloseTab(s) \/ NoticeClosed(s)
          \/ \E status \in Statuses : Event(s, status)
          \/ \E p \in Procs : Connect(s, p) \/ Discard(s, p)
    \/ \E p \in Procs : Crash(p)
    \/ Forget

Spec == Init /\ [][Next]_vars

\* A handler that has begun a call goes on with it.  What a tab has sent
\* before it went away is finite, so its handler notices in the end; the
\* socket answers no ping.  Nobody has to open, use or close a tab.
Fairness ==
    \A s \in Sockets : WF_vars(HandlerStep(s)) /\ SF_vars(NoticeClosed(s))

FairSpec == Spec /\ Fairness

-----------------------------------------------------------------------------
TypeOK ==
    /\ socket \in [Sockets -> {"new", "open", "closed"}]
    /\ handler \in [Sockets -> Handler]
    /\ registry \in [Procs -> SUBSET Sockets]
    /\ redis \in Statuses \cup {None} /\ db \in Statuses
    /\ last \in [status : Statuses, proc : Procs \cup {None}] /\ clean \in BOOLEAN
    /\ crashed \in BOOLEAN /\ faults \in 0..MaxFaults

Quiet == \A s \in Sockets : handler[s].at \notin Writing \cup {"broken"}

\* Redis and the database end up with the status that was set last, unless
\* another one was being set at the same time or a call has failed half way;
\* and the next call that is left alone and that differs from Redis repairs
\* it.  An expired key makes no difference (handler.py:34-47).
LastStatusStands ==
    (Quiet /\ clean) => db = last.status /\ redis \in {None, last.status}

\* What a process counts before it says "offline" (manager.py:113-123) is
\* right whatever calls fail and whichever process dies: every open tab is in
\* the registry of its process, and what a registry holds are sockets of
\* handlers of that process which have not come to their end, among them those
\* whose first call has failed.
OpenIsCounted ==
    \A s \in Sockets : socket[s] = "open" => \E p \in Procs : s \in registry[p]
Counted ==
    \A p \in Procs : \A s \in registry[p] :
        handler[s].proc = p /\ handler[s].at \notin {"none", "ended"}
CountIsRight == OpenIsCounted /\ Counted

\* When the last tab is gone the user is offline in the end, unless another
\* status interfered, a process died with the tab or a socket was leaked.
NoTab == \A s \in Sockets : socket[s] # "open"
GoneGoesOffline ==
    NoTab ~> (db = "offline" \/ ~ NoTab \/ ~ clean \/ crashed
              \/ \E s \in Sockets : At(s, "leaked"))
=============================================================================
