----------------------------- MODULE RateLimit -----------------------------
(***************************************************************************)
(* The counter in front of /api/v1/auth (main.py): every request of an      *)
(* address increments it and renews its time to live in one transaction,    *)
(* and is refused when the counter has gone past Limit.  Redis may lose the *)
(* counter before its time (docker-compose.yml: allkeys-lru, --save "").    *)
(* Requests of other addresses have keys of their own.                      *)
(***************************************************************************)
EXTENDS Naturals, FiniteSets

CONSTANTS
    Requests,  \* the requests of the address, each sent once
    Limit,     \* 20
    Window,    \* 60 seconds, in units of the clock
    MaxResets  \* bound on evictions and restarts that lose the counter

VARIABLES
    count,     \* the key rl:auth:<ip>, 0 when there is none
    left,      \* its time to live
    request,   \* request[r]: how far it is, its count, the load it met, and
               \* which life of the counter it was counted in
    age,       \* age[r]: how long ago it was counted, up to Window
    resets     \* how often the counter was lost (history)

vars == <<count, left, request, age, resets>>

Unsent == [at |-> "unsent", count |-> 0, load |-> 0, life |-> 0]

Init ==
    /\ count = 0 /\ left = 0
    /\ request = [r \in Requests |-> Unsent]
    /\ age = [r \in Requests |-> Window]
    /\ resets = 0

\* The requests counted within the last Window, whatever became of them.
LastMinute == {q \in Requests : age[q] < Window}

\* INCR and EXPIRE, in a MULTI: nobody comes between.
Count(r) ==
    /\ request[r] = Unsent
    /\ count' = count + 1 /\ left' = Window
    /\ request' = [request EXCEPT ![r] =
          [at |-> "counted", count |-> count + 1,
           load |-> Cardinality(LastMinute) + 1, life |-> resets]]
    /\ age' = [age EXCEPT ![r] = 0]
    /\ UNCHANGED resets

\* get_redis or the pipeline raises: 500.  Nothing was counted, or only the
\* answer of Redis is lost.
RedisFails(r) ==
    /\ request[r].at \in {"unsent", "counted"}
    /\ request' = [request EXCEPT ![r].at = "failed"]
    /\ UNCHANGED <<count, left, age, resets>>

\* results[0] is the count of this request, however many came since.
Answer(r) ==
    /\ request[r].at = "counted"
    /\ request' = [request EXCEPT ![r].at =
          IF request[r].count > Limit THEN "refused" ELSE "passed"]
    /\ UNCHANGED <<count, left, age, resets>>

\* A unit of time: the key goes when no request has come for a Window.
Tick ==
    /\ left' = IF left = 0 THEN 0 ELSE left - 1
    /\ count' = IF left <= 1 THEN 0 ELSE count
    /\ age' = [r \in Requests |-> IF age[r] < Window THEN age[r] + 1 ELSE Window]
    /\ UNCHANGED <<request, resets>>

\* Redis evicts the key, or starts again with nothing.
Lose ==
    /\ count # 0 /\ resets < MaxResets
    /\ count' = 0 /\ left' = 0
    /\ resets' = resets + 1
    /\ UNCHANGED <<request, age>>

Next ==
    \/ \E r \in Requests : Count(r) \/ RedisFails(r) \/ Answer(r)
    \/ Tick \/ Lose

Spec == Init /\ [][Next]_vars

-----------------------------------------------------------------------------
\* "20 requests/minute/IP" (README.md:431): a request is refused only when
\* more than Limit, itself included, have come within the last minute.
RefusedOnlyAboveLimit ==
    \A r \in Requests : request[r].at = "refused" => request[r].load > Limit

\* The other half of it, as far as it goes: at any time, of the requests
\* counted within the last minute between two losses of the counter, at most
\* Limit were let in, whatever answers fail and however often the counter has
\* run out by itself and started again (rate_limit_middleware).
WithinLimit ==
    \A n \in 0..MaxResets :
        Cardinality({r \in LastMinute : request[r].at = "passed" /\ request[r].life = n})
            <= Limit
=============================================================================
