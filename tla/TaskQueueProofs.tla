-------------------------- MODULE TaskQueueProofs --------------------------
(***************************************************************************)
(* The Celery queue of TaskQueue loses no task and implements AtLeastOnce, *)
(* for any numbers of tasks, workers, slots, retries and crashes.          *)
(***************************************************************************)
EXTENDS TaskQueue, TLAPS

\* What a process works on is a message of the broker that nobody else has.
Holding ==
    \A w \in Workers : worker[w] # Resting =>
        /\ broker[worker[w].slot].at = "unacked"
        /\ worker[w].pc = "retry" => Held(w).tries < MaxRetries

\* Two processes never work on one message.
OneHolder ==
    \A v, w \in Workers :
        worker[v].slot = worker[w].slot /\ v # w => worker[v] = Resting

\* A message about to be acknowledged is settled, or a copy with more tries
\* carries on.  The tries order the copies of a task, so that two of them can
\* not each count on the other.
Continued(t, tries) ==
    \/ t \in delivered \cup dropped
    \/ \E s \in Slots : /\ broker[s].at # "free" /\ broker[s].task = t
                        /\ broker[s].tries > tries

AckIsSafe ==
    \A w \in Workers : worker[w].pc = "ack" =>
        Continued(Held(w).task, Held(w).tries)

QueueInv == TypeOK /\ Holding /\ OneHolder /\ AckIsSafe /\ NoTaskLost

-----------------------------------------------------------------------------
\* A busy process has a slot, and a message in use has a task and its tries.
LEMMA Parts ==
    ASSUME TypeOK
    PROVE  /\ \A w \in Workers : worker[w] # Resting =>
                 /\ worker[w] \in Work
                 /\ worker[w].slot \in Slots
           /\ \A w \in Workers : worker[w].pc # "idle" => worker[w] # Resting
           /\ \A s \in Slots : broker[s].at # "free" =>
                 /\ broker[s] \in Message
                 /\ broker[s].task \in Tasks /\ broker[s].tries \in 0..MaxRetries
<1>1. \A w \in Workers : worker[w] \in Work \cup {Resting}
  BY DEF TypeOK
<1>2. \A s \in Slots : broker[s] \in Message \cup {Free}
  BY DEF TypeOK
<1>3. Resting.pc = "idle" /\ Free.at = "free"
  BY DEF Resting, Free
<1>. QED
  BY <1>1, <1>2, <1>3 DEF Work, Message

\* A process that rests is not one that has work.
LEMMA RestingIsIdle ==
    /\ Resting \notin Work /\ Free \notin Message
    /\ Resting.pc = "idle" /\ Resting.slot = None /\ Free.at = "free"
BY NoneAssumption DEF Resting, Free, Work, Message

LEMMA DelayKeeps ==
    ASSUME QueueInv, NEW t \in Tasks, NEW s \in Slots, Delay(t, s)
    PROVE  QueueInv'
<1>. DEFINE new == [at |-> "queued", task |-> t, tries |-> 0]
<1>1. new \in Message
  BY RetriesAssumption DEF Message
<1>2. /\ broker[s].at = "free"
      /\ broker' = [broker EXCEPT ![s] = new]
      /\ handed' = handed \cup {t}
      /\ UNCHANGED <<worker, delivered, dropped, crashes>>
  BY RestingIsIdle DEF Delay, Put
<1>3. TypeOK'
  BY <1>1, <1>2 DEF QueueInv, TypeOK
<1>4. \A x \in Slots : broker[x].at # "free" => broker'[x] = broker[x] /\ x # s
  BY <1>2 DEF QueueInv, TypeOK
<1>5. broker'[s] = new
  BY <1>2 DEF QueueInv, TypeOK
<1>6. \A w \in Workers : worker[w] # Resting => Held(w)' = Held(w)
  BY <1>2, <1>4, Parts DEF QueueInv, Holding, Held
<1>7. Holding'
  BY <1>2, <1>4, <1>6, Parts DEF QueueInv, Holding
<1>8. OneHolder'
  BY <1>2 DEF QueueInv, OneHolder
<1>9. AckIsSafe'
  BY <1>2, <1>4, <1>6, Parts DEF QueueInv, AckIsSafe, Continued
<1>10. NoTaskLost'
  <2>1. InBroker(t)'
    BY <1>5 DEF InBroker
  <2>2. \A x \in Tasks : InBroker(x) => InBroker(x)'
    BY <1>4 DEF InBroker
  <2>. QED
    BY <1>2, <2>1, <2>2 DEF QueueInv, NoTaskLost
<1>. QED
  BY <1>3, <1>7, <1>8, <1>9, <1>10 DEF QueueInv

LEMMA TakeKeeps ==
    ASSUME QueueInv, NEW w \in Workers, NEW s \in Slots, Take(w, s)
    PROVE  QueueInv'
<1>. DEFINE work == [slot |-> s, pc |-> "publish"]
            new == [broker[s] EXCEPT !.at = "unacked"]
<1>1. /\ worker[w] = Resting /\ broker[s].at = "queued"
      /\ broker' = [broker EXCEPT ![s] = new]
      /\ worker' = [worker EXCEPT ![w] = work]
      /\ UNCHANGED <<handed, delivered, dropped, crashes>>
  BY DEF Take
<1>2. broker[s] \in Message /\ new \in Message /\ work \in Work
  BY <1>1, Parts DEF QueueInv, Message, Work
<1>3. TypeOK'
  BY <1>1, <1>2 DEF QueueInv, TypeOK
<1>4. /\ worker'[w] = work /\ broker'[s] = new
      /\ \A v \in Workers : v # w => worker'[v] = worker[v]
      /\ \A x \in Slots : x # s => broker'[x] = broker[x]
  BY <1>1 DEF QueueInv, TypeOK
<1>5. \A v \in Workers : v # w /\ worker[v] # Resting => worker[v].slot # s
  BY <1>1 DEF QueueInv, Holding
<1>6. /\ new.at = "unacked" /\ new.task = broker[s].task
      /\ new.tries = broker[s].tries /\ work.slot = s /\ work.pc = "publish"
  BY <1>2 DEF Message
<1>. HIDE DEF work, new
<1>7. \A v \in Workers : v # w /\ worker[v] # Resting => Held(v)' = Held(v)
  BY <1>4, <1>5, Parts DEF QueueInv, Held
<1>8. Holding'
  BY <1>4, <1>5, <1>6, <1>7, Parts DEF QueueInv, Holding
<1>9. OneHolder'
  BY <1>4, <1>5, <1>6, RestingIsIdle, NoneAssumption DEF QueueInv, OneHolder
<1>10. \A x \in Slots : broker[x].at # "free" =>
          /\ broker'[x].at # "free" /\ broker'[x].task = broker[x].task
          /\ broker'[x].tries = broker[x].tries
  BY <1>1, <1>4, <1>6
<1>11. AckIsSafe'
  <2>. SUFFICES ASSUME NEW v \in Workers, worker'[v].pc = "ack"
                PROVE  Continued(Held(v).task, Held(v).tries)'
    BY DEF AckIsSafe
  <2>1. v # w /\ worker[v].pc = "ack"
    BY <1>4, <1>6
  <2>2. Held(v)' = Held(v)
    BY <1>7, <2>1, Parts DEF QueueInv
  <2>3. Continued(Held(v).task, Held(v).tries)
    BY <2>1 DEF QueueInv, AckIsSafe
  <2>. QED
    BY <1>1, <1>10, <2>2, <2>3 DEF Continued
<1>12. NoTaskLost'
  BY <1>1, <1>10 DEF QueueInv, NoTaskLost, InBroker
<1>. QED
  BY <1>3, <1>8, <1>9, <1>11, <1>12 DEF QueueInv

\* A process that goes on keeps its message.
LEMMA GotoFacts ==
    ASSUME QueueInv, NEW w \in Workers, worker[w] # Resting,
           NEW pc \in {"publish", "retry", "ack"}, Goto(w, pc)
    PROVE  /\ worker'[w].slot = worker[w].slot /\ worker'[w].pc = pc
           /\ worker' \in [Workers -> Work \cup {Resting}]
           /\ \A v \in Workers : v # w => worker'[v] = worker[v]
           /\ \A v \in Workers : worker'[v] # Resting => worker[v] # Resting
           /\ \A v \in Workers : worker'[v].slot = worker[v].slot
<1>. DEFINE new == [worker[w] EXCEPT !.pc = pc]
<1>1. worker[w] \in Work
  BY Parts DEF QueueInv
<1>2. new \in Work /\ new.slot = worker[w].slot /\ new.pc = pc
  BY <1>1 DEF Work
<1>3. worker' = [worker EXCEPT ![w] = new]
  BY DEF Goto
<1>. HIDE DEF new
<1>. QED
  BY <1>2, <1>3 DEF QueueInv, TypeOK

LEMMA PublishKeeps ==
    ASSUME QueueInv, NEW w \in Workers, Publish(w) \/ PublishFails(w) \/ RetryFails(w)
    PROVE  QueueInv'
<1>1. /\ worker[w].pc \in {"publish", "retry"} /\ worker[w] # Resting
      /\ UNCHANGED <<broker, handed, crashes>>
      /\ delivered \subseteq delivered' /\ dropped \subseteq dropped'
  BY RestingIsIdle DEF Publish, PublishFails, RetryFails
<1>2. Held(w) = broker[worker[w].slot] /\ Held(w).task \in Tasks
  BY <1>1, Parts DEF QueueInv, Held, Holding
<1>3. PICK pc \in {"retry", "ack"} :
        /\ Goto(w, pc)
        /\ pc = "retry" => Held(w).tries < MaxRetries
        /\ pc = "ack" => Held(w).task \in delivered' \cup dropped'
        /\ delivered' \subseteq Tasks /\ dropped' \subseteq Tasks
  <2>1. CASE Publish(w)
    BY <1>2, <2>1 DEF Publish, QueueInv, TypeOK
  <2>2. CASE PublishFails(w)
    BY <1>2, <2>2 DEF PublishFails, QueueInv, TypeOK
  <2>3. CASE RetryFails(w)
    BY <1>2, <2>3 DEF RetryFails, QueueInv, TypeOK
  <2>. QED
    BY <2>1, <2>2, <2>3
<1>4. /\ worker'[w].pc = pc
      /\ worker' \in [Workers -> Work \cup {Resting}]
      /\ \A v \in Workers : v # w => worker'[v] = worker[v]
      /\ \A v \in Workers : worker'[v] # Resting => worker[v] # Resting
      /\ \A v \in Workers : worker'[v].slot = worker[v].slot
  BY <1>1, <1>3, GotoFacts
<1>5. TypeOK'
  BY <1>1, <1>3, <1>4 DEF QueueInv, TypeOK
<1>6. \A v \in Workers : Held(v)' = Held(v)
  BY <1>1, <1>4 DEF Held
<1>7. Holding'
  BY <1>1, <1>3, <1>4, <1>6 DEF QueueInv, Holding
<1>8. OneHolder'
  BY <1>1, <1>4 DEF QueueInv, OneHolder
<1>9. AckIsSafe'
  <2>. SUFFICES ASSUME NEW v \in Workers, worker'[v].pc = "ack"
                PROVE  Continued(Held(v).task, Held(v).tries)'
    BY DEF AckIsSafe
  <2>1. CASE v = w
    BY <1>3, <1>4, <1>6, <2>1 DEF Continued
  <2>2. CASE v # w
    BY <1>1, <1>4, <1>6, <2>2 DEF QueueInv, AckIsSafe, Continued
  <2>. QED
    BY <2>1, <2>2
<1>10. NoTaskLost'
  BY <1>1 DEF QueueInv, NoTaskLost, InBroker
<1>. QED
  BY <1>5, <1>7, <1>8, <1>9, <1>10 DEF QueueInv

LEMMA RetryKeeps ==
    ASSUME QueueInv, NEW w \in Workers, NEW s \in Slots, Retry(w, s)
    PROVE  QueueInv'
<1>. DEFINE new == [at |-> "queued", task |-> Held(w).task,
                    tries |-> Held(w).tries + 1]
<1>1. /\ worker[w].pc = "retry" /\ worker[w] # Resting /\ Goto(w, "ack")
      /\ broker[s].at = "free" /\ broker' = [broker EXCEPT ![s] = new]
      /\ UNCHANGED <<handed, delivered, dropped, crashes>>
  BY RestingIsIdle DEF Retry, Put
<1>2. /\ worker[w].slot \in Slots /\ Held(w).at = "unacked"
      /\ Held(w).task \in Tasks /\ Held(w).tries \in 0..MaxRetries
      /\ Held(w).tries < MaxRetries
  BY <1>1, Parts DEF QueueInv, Holding, Held
<1>3. new \in Message
  BY <1>2, RetriesAssumption DEF Message
<1>4. /\ worker'[w].pc = "ack"
      /\ worker' \in [Workers -> Work \cup {Resting}]
      /\ \A v \in Workers : v # w => worker'[v] = worker[v]
      /\ \A v \in Workers : worker'[v] # Resting => worker[v] # Resting
      /\ \A v \in Workers : worker'[v].slot = worker[v].slot
  BY <1>1, GotoFacts
<1>5. TypeOK'
  BY <1>1, <1>3, <1>4 DEF QueueInv, TypeOK
<1>6. /\ broker'[s] = new
      /\ \A x \in Slots : broker[x].at # "free" => broker'[x] = broker[x]
  BY <1>1 DEF QueueInv, TypeOK
<1>7. \A v \in Workers : worker[v] # Resting => Held(v)' = Held(v)
  BY <1>4, <1>6, Parts DEF QueueInv, Holding, Held
<1>8. Holding'
  BY <1>4, <1>6, <1>7, Parts DEF QueueInv, Holding
<1>9. OneHolder'
  <2>1. \A v \in Workers : worker[v] = Resting => worker'[v] = Resting
    BY <1>1, <1>4
  <2>. QED
    BY <1>4, <2>1 DEF QueueInv, OneHolder
<1>10. AckIsSafe'
  <2>. SUFFICES ASSUME NEW v \in Workers, worker'[v].pc = "ack"
                PROVE  Continued(Held(v).task, Held(v).tries)'
    BY DEF AckIsSafe
  <2>1. CASE v = w
    <3>1. Held(w)' = Held(w)
      BY <1>1, <1>7
    <3>2. /\ broker'[s].at # "free" /\ broker'[s].task = Held(w).task
          /\ broker'[s].tries > Held(w).tries
      BY <1>2, <1>6, RetriesAssumption
    <3>. QED
      BY <2>1, <3>1, <3>2 DEF Continued
  <2>2. CASE v # w
    <3>1. worker[v].pc = "ack" /\ Held(v)' = Held(v)
      BY <1>4, <1>7, <2>2, Parts DEF QueueInv
    <3>2. Continued(Held(v).task, Held(v).tries)
      BY <3>1 DEF QueueInv, AckIsSafe
    <3>. QED
      BY <1>1, <1>6, <3>1, <3>2 DEF Continued
  <2>. QED
    BY <2>1, <2>2
<1>11. NoTaskLost'
  BY <1>1, <1>6 DEF QueueInv, NoTaskLost, InBroker
<1>. QED
  BY <1>5, <1>8, <1>9, <1>10, <1>11 DEF QueueInv

\* An acknowledged message takes nothing along: a copy that counted on it
\* counts on what it was continued by.
LEMMA AckKeeps ==
    ASSUME QueueInv, NEW w \in Workers, Ack(w)
    PROVE  QueueInv'
<1>. DEFINE a == worker[w].slot
<1>1. /\ worker[w].pc = "ack" /\ worker[w] # Resting
      /\ broker' = [broker EXCEPT ![a] = Free]
      /\ worker' = [worker EXCEPT ![w] = Resting]
      /\ UNCHANGED <<handed, delivered, dropped, crashes>>
  BY RestingIsIdle DEF Ack
<1>2. a \in Slots /\ Held(w) = broker[a]
  BY <1>1, Parts DEF QueueInv, Held
<1>3. TypeOK'
  BY <1>1, <1>2 DEF QueueInv, TypeOK
<1>4. /\ worker'[w] = Resting /\ broker'[a] = Free
      /\ \A v \in Workers : v # w => worker'[v] = worker[v]
      /\ \A x \in Slots : x # a => broker'[x] = broker[x]
  BY <1>1, <1>2 DEF QueueInv, TypeOK
<1>5. \A v \in Workers : v # w /\ worker[v] # Resting =>
         worker[v].slot \in Slots \ {a}
  BY <1>1, <1>2, Parts DEF QueueInv, OneHolder
<1>. HIDE DEF a
<1>6. \A v \in Workers : v # w /\ worker[v] # Resting => Held(v)' = Held(v)
  BY <1>4, <1>5 DEF Held
<1>7. Holding'
  BY <1>4, <1>5, <1>6 DEF QueueInv, Holding
<1>8. OneHolder'
  BY <1>4, <1>5, RestingIsIdle, NoneAssumption DEF QueueInv, OneHolder
<1>9. Continued(broker[a].task, broker[a].tries)
  BY <1>1, <1>2 DEF QueueInv, AckIsSafe
<1>10. ASSUME NEW t, NEW n \in Nat, Continued(t, n)
       PROVE  Continued(t, n)'
  <2>1. CASE t \in delivered \cup dropped
    BY <1>1, <2>1 DEF Continued
  <2>2. CASE \E x \in Slots : /\ broker[x].at # "free" /\ broker[x].task = t
                              /\ broker[x].tries > n
    <3>1. PICK x \in Slots : /\ broker[x].at # "free" /\ broker[x].task = t
                             /\ broker[x].tries > n
      BY <2>2
    <3>2. CASE x # a
      BY <1>4, <3>1, <3>2 DEF Continued
    <3>3. CASE x = a
      <4>1. CASE t \in delivered \cup dropped
        BY <1>1, <4>1 DEF Continued
      <4>2. CASE t \notin delivered \cup dropped
        <5>1. PICK y \in Slots : /\ broker[y].at # "free"
                                 /\ broker[y].task = t
                                 /\ broker[y].tries > broker[a].tries
          BY <1>9, <3>1, <3>3, <4>2 DEF Continued
        <5>2. broker[a].tries \in Nat /\ broker[y].tries \in Nat
          BY <3>1, <3>3, <5>1, Parts, RetriesAssumption DEF QueueInv
        <5>3. y # a /\ broker[y].tries > n
          BY <3>1, <3>3, <5>1, <5>2
        <5>. QED
          BY <1>4, <5>1, <5>3 DEF Continued
      <4>. QED
        BY <4>1, <4>2
    <3>. QED
      BY <3>2, <3>3
  <2>. QED
    BY <1>10, <2>1, <2>2 DEF Continued
<1>11. AckIsSafe'
  <2>. SUFFICES ASSUME NEW v \in Workers, worker'[v].pc = "ack"
                PROVE  Continued(Held(v).task, Held(v).tries)'
    BY DEF AckIsSafe
  <2>1. /\ v # w /\ worker[v].pc = "ack" /\ worker[v] # Resting
        /\ Held(v)' = Held(v)
    BY <1>4, <1>6, RestingIsIdle
  <2>2. Held(v).tries \in Nat
    BY <2>1, Parts, RetriesAssumption DEF QueueInv, Holding, Held
  <2>3. Continued(Held(v).task, Held(v).tries)
    BY <2>1 DEF QueueInv, AckIsSafe
  <2>4. \A t : \A n \in Nat : Continued(t, n) => Continued(t, n)'
    BY <1>10
  <2>. QED
    BY <2>1, <2>2, <2>3, <2>4 DEF Continued
<1>12. NoTaskLost'
  <2>. SUFFICES ASSUME NEW t \in handed, t \notin delivered \cup dropped
                PROVE  t \in Tasks /\ InBroker(t)'
    BY <1>1 DEF NoTaskLost
  <2>1. t \in Tasks /\ InBroker(t)
    BY DEF QueueInv, NoTaskLost
  <2>2. PICK x \in Slots : broker[x].at # "free" /\ broker[x].task = t
    BY <2>1 DEF InBroker
  <2>3. CASE x # a
    BY <1>4, <2>1, <2>2, <2>3 DEF InBroker
  <2>4. CASE x = a
    <3>1. PICK y \in Slots : /\ broker[y].at # "free" /\ broker[y].task = t
                             /\ broker[y].tries > broker[a].tries
      BY <1>9, <2>2, <2>4 DEF Continued
    <3>2. y # a
      BY <2>2, <2>4, <3>1, Parts, RetriesAssumption DEF QueueInv
    <3>. QED
      BY <1>4, <2>1, <3>1, <3>2 DEF InBroker
  <2>. QED
    BY <2>3, <2>4
<1>. QED
  BY <1>3, <1>7, <1>8, <1>11, <1>12 DEF QueueInv

LEMMA CrashKeeps ==
    ASSUME QueueInv, NEW w \in Workers, Crash(w)
    PROVE  QueueInv'
<1>1. /\ worker' = [worker EXCEPT ![w] = Resting]
      /\ crashes < MaxCrashes /\ crashes' = crashes + 1
      /\ UNCHANGED <<broker, handed, delivered, dropped>>
  BY DEF Crash
<1>2. /\ worker'[w] = Resting
      /\ \A v \in Workers : v # w => worker'[v] = worker[v]
  BY <1>1 DEF QueueInv, TypeOK
<1>3. TypeOK'
  BY <1>1, RetriesAssumption DEF QueueInv, TypeOK
<1>4. \A v \in Workers : v # w => Held(v)' = Held(v)
  BY <1>1, <1>2 DEF Held
<1>5. Holding'
  BY <1>1, <1>2, <1>4 DEF QueueInv, Holding
<1>6. OneHolder'
  BY <1>2, RestingIsIdle, Parts, NoneAssumption DEF QueueInv, OneHolder
<1>7. AckIsSafe'
  BY <1>1, <1>2, <1>4, RestingIsIdle DEF QueueInv, AckIsSafe, Continued
<1>8. NoTaskLost'
  BY <1>1 DEF QueueInv, NoTaskLost, InBroker
<1>. QED
  BY <1>3, <1>5, <1>6, <1>7, <1>8 DEF QueueInv

LEMMA RestoreKeeps ==
    ASSUME QueueInv, NEW s \in Slots, Restore(s)
    PROVE  QueueInv'
<1>. DEFINE new == [broker[s] EXCEPT !.at = "queued"]
<1>1. /\ broker[s].at = "unacked" /\ \A w \in Workers : worker[w].slot # s
      /\ broker' = [broker EXCEPT ![s] = new]
      /\ UNCHANGED <<worker, handed, delivered, dropped, crashes>>
  BY DEF Restore
<1>2. broker[s] \in Message /\ new \in Message
  BY <1>1, Parts DEF QueueInv, Message
<1>3. TypeOK'
  BY <1>1, <1>2 DEF QueueInv, TypeOK
<1>4. /\ broker'[s] = new /\ \A x \in Slots : x # s => broker'[x] = broker[x]
  BY <1>1 DEF QueueInv, TypeOK
<1>5. /\ new.at = "queued" /\ new.task = broker[s].task
      /\ new.tries = broker[s].tries
  BY <1>2 DEF Message
<1>. HIDE DEF new
<1>6. \A v \in Workers : worker[v] # Resting =>
         Held(v)' = Held(v) /\ broker'[worker[v].slot] = broker[worker[v].slot]
  BY <1>1, <1>4, Parts DEF QueueInv, Held
<1>7. Holding'
  BY <1>1, <1>6 DEF QueueInv, Holding
<1>8. OneHolder'
  BY <1>1 DEF QueueInv, OneHolder
<1>9. \A x \in Slots : broker[x].at # "free" =>
          /\ broker'[x].at # "free" /\ broker'[x].task = broker[x].task
          /\ broker'[x].tries = broker[x].tries
  BY <1>1, <1>4, <1>5
<1>10. AckIsSafe'
  <2>. SUFFICES ASSUME NEW v \in Workers, worker'[v].pc = "ack"
                PROVE  Continued(Held(v).task, Held(v).tries)'
    BY DEF AckIsSafe
  <2>1. worker[v].pc = "ack" /\ Held(v)' = Held(v)
    BY <1>1, <1>6, RestingIsIdle
  <2>2. Continued(Held(v).task, Held(v).tries)
    BY <2>1 DEF QueueInv, AckIsSafe
  <2>. QED
    BY <1>1, <1>9, <2>1, <2>2 DEF Continued
<1>11. NoTaskLost'
  BY <1>1, <1>9 DEF QueueInv, NoTaskLost, InBroker
<1>. QED
  BY <1>3, <1>7, <1>8, <1>10, <1>11 DEF QueueInv

-----------------------------------------------------------------------------
LEMMA InitQueue == Init => QueueInv
BY RestingIsIdle, RetriesAssumption, NoneAssumption
   DEF Init, QueueInv, TypeOK, Holding, OneHolder, AckIsSafe, NoTaskLost

LEMMA NextQueue == QueueInv /\ [Next]_vars => QueueInv'
<1>. SUFFICES ASSUME QueueInv, [Next]_vars PROVE QueueInv'
  OBVIOUS
<1>1. CASE \E t \in Tasks, s \in Slots : Delay(t, s)
  BY <1>1, DelayKeeps
<1>2. CASE \E w \in Workers, s \in Slots : Take(w, s) \/ Retry(w, s)
  BY <1>2, TakeKeeps, RetryKeeps
<1>3. CASE \E w \in Workers :
             Publish(w) \/ PublishFails(w) \/ RetryFails(w) \/ Ack(w) \/ Crash(w)
  BY <1>3, PublishKeeps, AckKeeps, CrashKeeps
<1>4. CASE \E s \in Slots : Restore(s)
  BY <1>4, RestoreKeeps
<1>5. CASE UNCHANGED vars
  BY <1>5 DEF vars, QueueInv, TypeOK, Holding, Held, OneHolder, AckIsSafe,
              Continued, NoTaskLost, InBroker
<1>. QED
  BY <1>1, <1>2, <1>3, <1>4, <1>5 DEF Next

LEMMA QueueAlwaysSound == Spec => []QueueInv
BY InitQueue, NextQueue, PTL DEF Spec

\* Every state of the queue is well typed (celery_app.py, tasks.py).
THEOREM QueueTypeCorrect == Spec => []TypeOK
<1>1. QueueInv => TypeOK
  BY DEF QueueInv
<1>. QED
  BY <1>1, QueueAlwaysSound, PTL

\* task_acks_late: whatever workers are lost, a task that was handed over is
\* published, given up, or still in the broker.
THEOREM QueueLosesNothing == Spec => []NoTaskLost
<1>1. QueueInv => NoTaskLost
  BY DEF QueueInv
<1>. QED
  BY <1>1, QueueAlwaysSound, PTL

-----------------------------------------------------------------------------
\* The refinement: which tasks are in the broker decides which step of
\* AtLeastOnce a step of the queue is.
Pending == {t \in Tasks : InBroker(t)}

\* A step that keeps every message in its place keeps Pending.
LEMMA SamePending ==
    ASSUME \A x \in Slots :
              /\ broker'[x].at # "free" <=> broker[x].at # "free"
              /\ broker[x].at # "free" => broker'[x].task = broker[x].task
    PROVE  Pending' = Pending
BY DEF Pending, InBroker

\* The task a busy process works on is pending.
LEMMA HeldIsPending ==
    ASSUME QueueInv, NEW w \in Workers, worker[w] # Resting
    PROVE  Held(w).task \in Pending
BY Parts DEF QueueInv, Holding, Held, Pending, InBroker

LEMMA DelayHands ==
    ASSUME QueueInv, NEW t \in Tasks, NEW s \in Slots, Delay(t, s)
    PROVE  Promise!Hand(t)
<1>. DEFINE new == [at |-> "queued", task |-> t, tries |-> 0]
<1>1. /\ t \notin handed /\ broker[s].at = "free"
      /\ broker' = [broker EXCEPT ![s] = new]
      /\ handed' = handed \cup {t}
      /\ UNCHANGED <<delivered, dropped>>
  BY RestingIsIdle DEF Delay, Put
<1>2. /\ broker'[s] = new
      /\ \A x \in Slots : x # s => broker'[x] = broker[x]
  BY <1>1 DEF QueueInv, TypeOK
<1>3. Pending' = Pending \cup {t}
  BY <1>1, <1>2 DEF Pending, InBroker
<1>. QED
  BY <1>1, <1>3 DEF Promise!Hand, Pending

LEMMA TakeAndRestoreStutter ==
    ASSUME QueueInv, NEW s \in Slots,
           Restore(s) \/ \E w \in Workers : Take(w, s)
    PROVE  UNCHANGED <<handed, Pending, delivered, dropped>>
<1>1. PICK at \in {"queued", "unacked"} :
          broker' = [broker EXCEPT ![s].at = at]
  BY DEF Restore, Take
<1>2. /\ broker[s].at # "free"
      /\ UNCHANGED <<handed, delivered, dropped>>
  BY DEF Restore, Take
<1>3. broker[s] \in Message
  BY <1>2, Parts DEF QueueInv
<1>4. /\ broker'[s].at = at /\ broker'[s].task = broker[s].task
      /\ \A x \in Slots : x # s => broker'[x] = broker[x]
  BY <1>1, <1>3 DEF QueueInv, TypeOK, Message
<1>5. Pending' = Pending
  BY <1>2, <1>4, SamePending
<1>. QED
  BY <1>2, <1>5

LEMMA PublishDelivers ==
    ASSUME QueueInv, NEW w \in Workers, Publish(w)
    PROVE  \E t \in Tasks : Promise!Deliver(t)
<1>1. /\ worker[w] # Resting /\ UNCHANGED <<broker, handed, dropped>>
      /\ delivered' = delivered \cup {Held(w).task}
  BY RestingIsIdle DEF Publish
<1>2. Held(w).task \in Pending /\ Held(w).task \in Tasks
  BY <1>1, HeldIsPending DEF Pending
<1>3. Pending' = Pending
  BY <1>1 DEF Pending, InBroker
<1>. QED
  BY <1>1, <1>2, <1>3 DEF Promise!Deliver, Pending

LEMMA FailureDropsOrStutters ==
    ASSUME QueueInv, NEW w \in Workers, PublishFails(w) \/ RetryFails(w)
    PROVE  \/ \E t \in Tasks : Promise!Drop(t)
           \/ UNCHANGED <<handed, Pending, delivered, dropped>>
<1>1. /\ worker[w] # Resting /\ UNCHANGED <<broker, handed, delivered>>
      /\ \/ dropped' = dropped
         \/ dropped' = dropped \cup {Held(w).task}
  BY RestingIsIdle DEF PublishFails, RetryFails
<1>2. Held(w).task \in Pending /\ Held(w).task \in Tasks
  BY <1>1, HeldIsPending DEF Pending
<1>3. Pending' = Pending
  BY <1>1 DEF Pending, InBroker
<1>. QED
  BY <1>1, <1>2, <1>3 DEF Promise!Drop, Pending

LEMMA RetryStutters ==
    ASSUME QueueInv, NEW w \in Workers, NEW s \in Slots, Retry(w, s)
    PROVE  UNCHANGED <<handed, Pending, delivered, dropped>>
<1>. DEFINE new == [at |-> "queued", task |-> Held(w).task,
                    tries |-> Held(w).tries + 1]
<1>1. /\ worker[w] # Resting /\ broker[s].at = "free"
      /\ broker' = [broker EXCEPT ![s] = new]
      /\ UNCHANGED <<handed, delivered, dropped>>
  BY RestingIsIdle DEF Retry, Put
<1>2. /\ broker'[s] = new
      /\ \A x \in Slots : x # s => broker'[x] = broker[x]
  BY <1>1 DEF QueueInv, TypeOK
<1>3. Held(w).task \in Pending
  BY <1>1, HeldIsPending
<1>4. Pending' = Pending
  BY <1>1, <1>2, <1>3 DEF Pending, InBroker
<1>. QED
  BY <1>1, <1>4

LEMMA AckSettlesOrStutters ==
    ASSUME QueueInv, NEW w \in Workers, Ack(w)
    PROVE  \/ \E t \in Tasks : Promise!Settle(t)
           \/ UNCHANGED <<handed, Pending, delivered, dropped>>
<1>. DEFINE a == worker[w].slot
            t == Held(w).task
<1>1. /\ worker[w].pc = "ack" /\ worker[w] # Resting
      /\ broker' = [broker EXCEPT ![a] = Free]
      /\ UNCHANGED <<handed, delivered, dropped>>
  BY RestingIsIdle DEF Ack
<1>2. a \in Slots /\ Held(w) = broker[a] /\ t \in Pending /\ t \in Tasks
  BY <1>1, Parts, HeldIsPending DEF QueueInv, Held, Pending
<1>3. /\ broker'[a].at = "free"
      /\ \A x \in Slots : x # a => broker'[x] = broker[x]
  BY <1>1, <1>2, RestingIsIdle DEF QueueInv, TypeOK
<1>4. Continued(t, Held(w).tries)
  BY <1>1 DEF QueueInv, AckIsSafe
<1>5. Pending' \subseteq Pending /\ Pending \subseteq Pending' \cup {t}
  BY <1>2, <1>3 DEF Pending, InBroker
<1>6. CASE t \in delivered \cup dropped
  <2>1. Pending' = Pending \/ Pending' = Pending \ {t}
    BY <1>5
  <2>. QED
    BY <1>1, <1>2, <1>6, <2>1 DEF Promise!Settle, Pending
<1>7. CASE t \notin delivered \cup dropped
  <2>1. PICK y \in Slots : /\ broker[y].at # "free" /\ broker[y].task = t
                           /\ broker[y].tries > broker[a].tries
    BY <1>2, <1>4, <1>7 DEF Continued
  <2>2. broker[a].tries \in Nat
    BY <1>1, <1>2, Parts, RetriesAssumption DEF QueueInv, Holding
  <2>3. y # a
    BY <2>1, <2>2
  <2>4. t \in Pending'
    BY <1>2, <1>3, <2>1, <2>3 DEF Pending, InBroker
  <2>. QED
    BY <1>1, <1>5, <2>4
<1>. QED
  BY <1>6, <1>7

LEMMA StepRefines ==
    QueueInv /\ [Next]_vars => [Promise!Next]_(Promise!queueVars)
<1>. SUFFICES ASSUME QueueInv, [Next]_vars
              PROVE  \/ Promise!Next
                     \/ UNCHANGED <<handed, Pending, delivered, dropped>>
  BY DEF Promise!queueVars, Pending
<1>1. CASE \E t \in Tasks, s \in Slots : Delay(t, s)
  BY <1>1, DelayHands DEF Promise!Next
<1>2. CASE \E w \in Workers, s \in Slots : Take(w, s)
  BY <1>2, TakeAndRestoreStutter
<1>3. CASE \E w \in Workers, s \in Slots : Retry(w, s)
  BY <1>3, RetryStutters
<1>4. CASE \E w \in Workers : Publish(w)
  BY <1>4, PublishDelivers DEF Promise!Next
<1>5. CASE \E w \in Workers : PublishFails(w) \/ RetryFails(w)
  BY <1>5, FailureDropsOrStutters DEF Promise!Next
<1>6. CASE \E w \in Workers : Ack(w)
  BY <1>6, AckSettlesOrStutters DEF Promise!Next
<1>7. CASE \E w \in Workers : Crash(w)
  BY <1>7 DEF Crash, Pending, InBroker
<1>8. CASE \E s \in Slots : Restore(s)
  BY <1>8, TakeAndRestoreStutter
<1>9. CASE UNCHANGED vars
  BY <1>9 DEF vars, Pending, InBroker
<1>. QED
  BY <1>1, <1>2, <1>3, <1>4, <1>5, <1>6, <1>7, <1>8, <1>9 DEF Next

\* The queue keeps the promise the rest of the backend relies on: what is
\* handed over stays pending until it was published or given up.
THEOREM QueueImplementsPromise == Spec => Implements
<1>1. Init => Promise!Init
  BY RestingIsIdle DEF Init, Promise!Init, InBroker
<1>. QED
  BY <1>1, StepRefines, QueueAlwaysSound, PTL
  DEF Spec, Implements, Promise!Spec
=============================================================================
