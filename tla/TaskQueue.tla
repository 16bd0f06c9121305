----------------------------- MODULE TaskQueue -----------------------------
(***************************************************************************)
(* The Celery queue of worker/celery_app.py and the broadcast tasks of     *)
(* worker/tasks.py: late acknowledgement, requeueing of what a lost worker *)
(* held, and self.retry with max_retries.  The broker keeps a message      *)
(* until it is acknowledged; a retry is a new message with one more try,   *)
(* enqueued before the old one is acknowledged, and a retry that cannot be *)
(* enqueued is the end of the task.  The countdown of a retry and the      *)
(* visibility timeout are abstracted to "some time later".  Redis keeps    *)
(* the messages it has: one that loses its data is not modelled.           *)
(***************************************************************************)
EXTENDS Naturals, FiniteSets

CONSTANTS
    Tasks,        \* one task per call of .delay
    Workers,      \* processes of the worker container (--concurrency=4)
    Slots,        \* broker messages: the bound on copies in the broker
    MaxRetries,   \* max_retries
    MaxCrashes,   \* the bound on lost workers
    None

ASSUME RetriesAssumption == MaxRetries \in Nat /\ MaxCrashes \in Nat
ASSUME NoneAssumption == None \notin Slots

VARIABLES
    broker,     \* slot -> free, or a message
    worker,     \* process -> what it is doing
    handed, delivered, dropped,   \* tasks enqueued, published, given up on
    crashes

vars == <<broker, worker, handed, delivered, dropped, crashes>>

Free == [at |-> "free"]
Message == [at : {"queued", "unacked"}, task : Tasks, tries : 0..MaxRetries]
Work == [slot : Slots, pc : {"publish", "retry", "ack"}]
Resting == [slot |-> None, pc |-> "idle"]

Init ==
    /\ broker = [s \in Slots |-> Free]
    /\ worker = [w \in Workers |-> Resting]
    /\ handed = {} /\ delivered = {} /\ dropped = {}
    /\ crashes = 0

Put(s, t, tries) ==
    /\ broker[s] = Free
    /\ broker' = [broker EXCEPT ![s] =
                    [at |-> "queued", task |-> t, tries |-> tries]]

Goto(w, pc) == worker' = [worker EXCEPT ![w].pc = pc]

Held(w) == broker[worker[w].slot]

\* broadcast_message.delay(...) in an HTTP handler.
Delay(t, s) ==
    /\ t \notin handed
    /\ Put(s, t, 0)
    /\ handed' = handed \cup {t}
    /\ UNCHANGED <<worker, delivered, dropped, crashes>>

\* A process takes one message; it stays in the broker, unacknowledged.
Take(w, s) ==
    /\ worker[w] = Resting
    /\ broker[s].at = "queued"
    /\ broker' = [broker EXCEPT ![s].at = "unacked"]
    /\ worker' = [worker EXCEPT ![w] = [slot |-> s, pc |-> "publish"]]
    /\ UNCHANGED <<handed, delivered, dropped, crashes>>

\* r.publish succeeds.
Publish(w) ==
    /\ worker[w].pc = "publish"
    /\ Goto(w, "ack")
    /\ delivered' = delivered \cup {Held(w).task}
    /\ UNCHANGED <<broker, handed, dropped, crashes>>

\* Error: one retry too many.
PublishFails_OffByOne(w) ==
    /\ worker[w].pc = "publish"
    /\ IF Held(w).tries <= MaxRetries
       THEN Goto(w, "retry") /\ UNCHANGED dropped
       ELSE Goto(w, "ack") /\ dropped' = dropped \cup {Held(w).task}
    /\ UNCHANGED <<broker, handed, delivered, crashes>>

\* r.publish raises: self.retry, unless this was the last try.
PublishFails(w) ==
    /\ worker[w].pc = "publish"
    /\ IF Held(w).tries < MaxRetries
       THEN Goto(w, "retry") /\ UNCHANGED dropped
       ELSE Goto(w, "ack") /\ dropped' = dropped \cup {Held(w).task}
    /\ UNCHANGED <<broker, handed, delivered, crashes>>

\* Error: the failure is swallowed, nothing is enqueued again.
Retry_Swallowed(w, s) ==
    /\ worker[w].pc = "retry"
    /\ Goto(w, "ack")
    /\ UNCHANGED <<broker, handed, delivered, dropped, crashes>>

\* self.retry enqueues a copy before the message is acknowledged.
Retry(w, s) ==
    /\ worker[w].pc = "retry"
    /\ Put(s, Held(w).task, Held(w).tries + 1)
    /\ Goto(w, "ack")
    /\ UNCHANGED <<handed, delivered, dropped, crashes>>

\* The copy cannot be enqueued: self.retry raises Reject, and the message goes
\* without another try.
RetryFails(w) ==
    /\ worker[w].pc = "retry"
    /\ Goto(w, "ack")
    /\ dropped' = dropped \cup {Held(w).task}
    /\ UNCHANGED <<broker, handed, delivered, crashes>>

Ack(w) ==
    /\ worker[w].pc = "ack"
    /\ broker' = [broker EXCEPT ![worker[w].slot] = Free]
    /\ worker' = [worker EXCEPT ![w] = Resting]
    /\ UNCHANGED <<handed, delivered, dropped, crashes>>

\* Error: the message was acknowledged when it was taken (no task_acks_late).
Crash_AckedEarly(w) ==
    /\ worker[w] # Resting
    /\ crashes < MaxCrashes
    /\ crashes' = crashes + 1
    /\ broker' = [broker EXCEPT ![worker[w].slot] = Free]
    /\ worker' = [worker EXCEPT ![w] = Resting]
    /\ UNCHANGED <<handed, delivered, dropped>>

\* A process dies with its message unacknowledged, or can no longer tell the
\* broker about it.
Crash(w) ==
    /\ worker[w] # Resting
    /\ crashes < MaxCrashes
    /\ crashes' = crashes + 1
    /\ worker' = [worker EXCEPT ![w] = Resting]
    /\ UNCHANGED <<broker, handed, delivered, dropped>>

\* task_reject_on_worker_lost, or the broker's visibility timeout: a message
\* that no process holds is queued again.
Restore(s) ==
    /\ broker[s].at = "unacked"
    /\ \A w \in Workers : worker[w].slot # s
    /\ broker' = [broker EXCEPT ![s].at = "queued"]
    /\ UNCHANGED <<worker, handed, delivered, dropped, crashes>>

Next ==
    \/ \E t \in Tasks, s \in Slots : Delay(t, s)
    \/ \E w \in Workers, s \in Slots : Take(w, s) \/ Retry(w, s)
    \/ \E w \in Workers :
          Publish(w) \/ PublishFails(w) \/ RetryFails(w) \/ Ack(w) \/ Crash(w)
    \/ \E s \in Slots : Restore(s)

\* A live process goes on with its task and takes the next one, and the broker
\* hands out, acknowledges and restores messages.  Nothing says that callers
\* call, or that a publication or a retry succeeds.
Fairness ==
    /\ \A w \in Workers :
          /\ WF_vars(\E s \in Slots : Take(w, s))
          /\ WF_vars(Publish(w) \/ PublishFails(w))
          /\ WF_vars(RetryFails(w) \/ \E s \in Slots : Retry(w, s))
          /\ WF_vars(Ack(w))
    /\ \A s \in Slots : WF_vars(Restore(s))

Spec == Init /\ [][Next]_vars
FairSpec == Spec /\ Fairness

-----------------------------------------------------------------------------
TypeOK ==
    /\ broker \in [Slots -> Message \cup {Free}]
    /\ worker \in [Workers -> Work \cup {Resting}]
    /\ handed \subseteq Tasks
    /\ delivered \subseteq Tasks
    /\ dropped \subseteq Tasks
    /\ crashes \in 0..MaxCrashes

InBroker(t) ==
    \E s \in Slots : broker[s].at # "free" /\ broker[s].task = t

\* A task that was handed over and neither published nor given up on is in the
\* broker, whatever workers crash between taking, publishing, retrying and
\* acknowledging (celery_app.py: task_acks_late).
NoTaskLost == handed \subseteq delivered \cup dropped \cup
                              {t \in Tasks : InBroker(t)}

\* The queue implements the at-least-once promise of AtLeastOnce.
Promise == INSTANCE AtLeastOnce WITH
    pending <- {t \in Tasks : InBroker(t)}
Implements == Promise!Spec

\* Every task handed over is at last published or given up on, after its last
\* retry or because the next try could not be enqueued (tasks.py:51-53), as
\* long as workers crash only finitely often.
EveryTaskSettles ==
    \A t \in Tasks : t \in handed ~> t \in delivered \cup dropped

=============================================================================
