------------------------- MODULE MessageFeedProofs -------------------------
(***************************************************************************)
(* Proofs about MessageFeed, for any number of messages, openings of the   *)
(* page, lost sockets and crashes of the listener.                         *)
(***************************************************************************)
EXTENDS MessageFeed, SequenceTheorems, FiniteSetTheorems, TLAPS

\* No two entries of a list are of one message.
Once(list) == \A i, j \in DOMAIN list : list[i].msg = list[j].msg => i = j

\* The messages of list are those of old and perhaps m.
AtMost(list, old, m) ==
    \A i \in DOMAIN list :
        list[i].msg = m \/ \E j \in DOMAIN old : old[j].msg = list[i].msg

-----------------------------------------------------------------------------
(* The operations on lists *)

LEMMA ItemIs ==
    ASSUME NEW m \in Messages, NEW text \in Texts
    PROVE  Item(m, text) \in Items /\ Item(m, text).msg = m
BY DEF Item, Items

LEMMA AppendMessageIs ==
    ASSUME NEW list \in Seq(Items), NEW item \in Items
    PROVE  /\ AppendMessage(list, item) \in Seq(Items)
           /\ Once(list) => Once(AppendMessage(list, item))
           /\ AtMost(AppendMessage(list, item), list, item.msg)
<1>1. CASE Shows(list, item.msg)
  <2>1. AppendMessage(list, item) = list
    BY <1>1 DEF AppendMessage
  <2> QED
    BY <2>1 DEF AtMost
<1>2. CASE ~ Shows(list, item.msg)
  <2> DEFINE longer == Append(list, item)
  <2>1. AppendMessage(list, item) = longer
    BY <1>2 DEF AppendMessage
  <2>2. /\ longer \in Seq(Items) /\ Len(longer) = Len(list) + 1
        /\ \A i \in 1..Len(list) : longer[i] = list[i]
        /\ longer[Len(list) + 1] = item
    BY AppendProperties
  <2>3. DOMAIN list = 1..Len(list) /\ Len(list) \in Nat /\ DOMAIN longer = 1..(Len(list) + 1)
    BY <2>2, LenProperties
  <2> HIDE DEF longer
  <2>4. \A i \in DOMAIN longer : i \in DOMAIN list \/ i = Len(list) + 1
    BY <2>3
  <2>5. \A i \in DOMAIN list : list[i].msg # item.msg
    BY <1>2 DEF Shows
  <2>6. ASSUME Once(list)  PROVE Once(longer)
    BY <2>2, <2>3, <2>4, <2>5, <2>6 DEF Once
  <2>7. AtMost(longer, list, item.msg)
    BY <2>2, <2>3, <2>4 DEF AtMost
  <2> QED
    BY <2>1, <2>2, <2>6, <2>7
<1> QED
  BY <1>1, <1>2

LEMMA UpdateMessageIs ==
    ASSUME NEW list \in Seq(Items), NEW item \in Items
    PROVE  /\ UpdateMessage(list, item) \in Seq(Items)
           /\ Once(list) => Once(UpdateMessage(list, item))
           /\ AtMost(UpdateMessage(list, item), list, item.msg)
<1> DEFINE new == [i \in 1..Len(list) |-> IF list[i].msg = item.msg THEN item ELSE list[i]]
<1>1. DOMAIN list = 1..Len(list) /\ Len(list) \in Nat /\ \A i \in 1..Len(list) : list[i] \in Items
  BY LenProperties, ElementOfSeq
<1>2. UpdateMessage(list, item) = new
  BY <1>1 DEF UpdateMessage
<1>3. \A i \in 1..Len(list) : new[i] \in Items /\ new[i].msg = list[i].msg
  BY <1>1
<1>4. new \in Seq(Items) /\ DOMAIN new = 1..Len(list)
  BY <1>1, <1>3, IsASeq
<1> HIDE DEF new
<1>5. Once(list) => Once(new)
  BY <1>1, <1>3, <1>4 DEF Once
<1>6. AtMost(new, list, item.msg)
  BY <1>1, <1>3, <1>4 DEF AtMost
<1> QED
  BY <1>2, <1>4, <1>5, <1>6

\* What a frame does to the list of the page.
LEMMA OnFrameIs ==
    ASSUME view \in Seq(Items), NEW f \in Frames
    PROVE  /\ OnFrame(f) \in Seq(Items)
           /\ Once(view) => Once(OnFrame(f))
           /\ AtMost(OnFrame(f), view, f.msg)
<1>1. f.msg \in Messages /\ f.type \in Kinds /\ f.kind \in Kinds
  BY DEF Frames
<1>2. \A text \in Texts : Item(f.msg, text) \in Items /\ Item(f.msg, text).msg = f.msg
  BY <1>1, ItemIs
<1>3. "posted" \in Texts /\ "edited" \in Texts /\ "deleted" \in Texts
  BY DEF Texts
<1>4. CASE f.type = "message" /\ f.kind = "message"
  <2>1. OnFrame(f) = AppendMessage(view, Item(f.msg, "posted"))
    BY <1>4 DEF OnFrame
  <2> QED
    BY <1>2, <1>3, <2>1, AppendMessageIs
<1>5. CASE f.type = "message" /\ f.kind = "message_edited"
  <2>1. OnFrame(f) = AppendMessage(view, Item(f.msg, "edited"))
    BY <1>5 DEF OnFrame
  <2> QED
    BY <1>2, <1>3, <2>1, AppendMessageIs
<1>6. CASE f.type = "message" /\ f.kind = "message_deleted"
  <2>1. OnFrame(f) = view
    BY <1>6 DEF OnFrame
  <2> QED
    BY <2>1 DEF AtMost
<1>7. CASE f.type = "message_edited"
  <2>1. OnFrame(f) = UpdateMessage(view, Item(f.msg, "edited"))
    BY <1>7 DEF OnFrame
  <2> QED
    BY <1>2, <1>3, <2>1, UpdateMessageIs
<1>8. CASE f.type = "message_deleted"
  <2>1. OnFrame(f) = UpdateMessage(view, Item(f.msg, "deleted"))
    BY <1>8 DEF OnFrame
  <2> QED
    BY <1>2, <1>3, <2>1, UpdateMessageIs
<1> QED
  BY <1>1, <1>4, <1>5, <1>6, <1>7, <1>8 DEF Kinds

\* A message is logged when it is flushed, once.
LogOnce ==
    /\ \A i, j \in DOMAIN log : log[i] = log[j] => i = j
    /\ \A i \in DOMAIN log : send[log[i]] # "new"

LEMMA VisibleIs ==
    ASSUME TypeOK, NEW m \in Messages, Committed(m)
    PROVE  Visible(m) \in Items /\ Visible(m).msg = m
<1>1. row[m] \in [content : {"none", "posted", "edited"}, deleted : BOOLEAN]
  BY DEF TypeOK
<1>2. ~ row[m].deleted => row[m].content # "none"
  BY <1>1 DEF Committed, NoRow
<1> DEFINE text == IF row[m].deleted THEN "deleted" ELSE row[m].content
<1>3. text \in Texts
  BY <1>1, <1>2 DEF Texts
<1>4. Visible(m) = Item(m, text)
  BY DEF Visible
<1> HIDE DEF text
<1> QED
  BY <1>3, <1>4, ItemIs

\* The history lists committed messages, each of them once.
LEMMA HistoryIs ==
    ASSUME TypeOK, NEW rows \in History
    PROVE  /\ rows \in Seq(Items)
           /\ LogOnce => Once(rows)
           /\ \A i \in DOMAIN rows : rows[i].msg \in Messages /\ Committed(rows[i].msg)
<1> DEFINE shown == {i \in DOMAIN log : Committed(log[i])}
           size == Cardinality(shown)
<1>1. PICK n \in Numberings(shown) : rows = [i \in DOMAIN n |-> Visible(log[n[i]])]
  BY DEF History
<1>2. log \in Seq(Messages) /\ DOMAIN log = 1..Len(log) /\ Len(log) \in Nat
  BY LenProperties DEF TypeOK
<1>3. shown \subseteq 1..Len(log) /\ IsFiniteSet(shown)
  <2>1. shown \subseteq 1..Len(log)
    BY <1>2
  <2>2. IsFiniteSet(1..Len(log))
    BY <1>2, FS_Interval
  <2> QED
    BY <2>1, <2>2, FS_Subset
<1>4. size \in Nat
  BY <1>3, FS_CardinalityType
<1>5. n \in [1..size -> shown] /\ \A i, j \in 1..size : i < j => n[i] < n[j]
  BY <1>1 DEF Numberings
<1> HIDE DEF size
<1>6. \A i \in 1..size : n[i] \in DOMAIN log /\ n[i] \in Nat /\ log[n[i]] \in Messages /\ Committed(log[n[i]])
  BY <1>2, <1>3, <1>5, ElementOfSeq
<1>7. \A i, j \in 1..size : n[i] = n[j] => i = j
  BY <1>4, <1>5, <1>6
<1>8. \A i \in 1..size : Visible(log[n[i]]) \in Items /\ Visible(log[n[i]]).msg = log[n[i]]
  BY <1>6, VisibleIs
<1>9. rows = [i \in 1..size |-> Visible(log[n[i]])]
  BY <1>1, <1>5
<1>10. rows \in Seq(Items) /\ DOMAIN rows = 1..size
  BY <1>4, <1>8, <1>9, IsASeq
<1>11. \A i \in DOMAIN rows : rows[i].msg = log[n[i]]
  BY <1>8, <1>9, <1>10
<1>12. ASSUME LogOnce  PROVE Once(rows)
  BY <1>6, <1>7, <1>10, <1>11, <1>12 DEF LogOnce, Once
<1> QED
  BY <1>6, <1>10, <1>11, <1>12

-----------------------------------------------------------------------------
(* Types *)

LEMMA TaskIs == \A k \in Kinds, m \in Messages : Task(k, m) \in Tasks /\ Task(k, m).msg = m
BY DEF Task, Tasks

LEMMA FrameIs == \A t \in Tasks : Frame(t) \in Frames /\ Frame(t).msg = t.msg
BY DEF Frame, Frames, Tasks, Kinds

Rows == [content : {"none", "posted", "edited"}, deleted : BOOLEAN]

\* The steps by the part of the state that they change.
HandlerMoves(m) ==
    \/ SendFlush(m) \/ SendCommit(m) \/ SendFails(m)
    \/ EditLoad(m) \/ EditCommit(m) \/ DeleteCommit(m) \/ ChangeFails(m)
Enqueues(m) == SendEnqueue(m) \/ EditEnqueue(m) \/ DeleteEnqueue(m)
SocketMoves == SocketOpens \/ SocketCloses \/ ServerJoins \/ Listen \/ Leave
LoadMoves(v) == Open(v) \/ LoadJoins(v) \/ LoadFails(v)

LEMMA NextIs ==
    ASSUME [Next]_vars
    PROVE  \/ \E m \in Messages : HandlerMoves(m) \/ Enqueues(m) \/ OnSent(m)
           \/ \E t \in Tasks : Publish(t) \/ QueueMoves(t)
           \/ ListenerCrash \/ ListenerRestart \/ Dispatch \/ SocketMoves
           \/ \E v \in Visits : LoadMoves(v) \/ LoadAnswered(v) \/ LoadArrives(v)
           \/ UNCHANGED vars
BY DEF Next, HandlerMoves, Enqueues, SocketMoves, LoadMoves

LEMMA StepTypeOK ==
    ASSUME TypeOK, [Next]_vars
    PROVE  TypeOK'
<1> USE DEF rowVars, handlerVars, queueVars, listenerVars, socketVars, pageVars
<1>1. ASSUME NEW m \in Messages, HandlerMoves(m)  PROVE TypeOK'
  <2>1. UNCHANGED <<queueVars, listenerVars, socketVars, pageVars>>
    BY <1>1 DEF HandlerMoves, SendFlush, SendCommit, SendFails, EditLoad, EditCommit,
                DeleteCommit, ChangeFails
  <2>2. log' \in Seq(Messages)
    <3>1. log' = Append(log, m) \/ UNCHANGED log
      BY <1>1 DEF HandlerMoves, SendFlush, SendCommit, SendFails, EditLoad, EditCommit,
                  DeleteCommit, ChangeFails
    <3>2. log \in Seq(Messages)
      BY DEF TypeOK
    <3>3. Append(log, m) \in Seq(Messages)
      BY <3>2, AppendProperties
    <3> QED
      BY <3>1, <3>2, <3>3
  <2>3. row' \in [Messages -> Rows]
    <3>1. row \in [Messages -> Rows] /\ row[m] \in Rows
      BY DEF TypeOK, Rows
    <3>2. /\ [row[m] EXCEPT !.content = "edited"] \in Rows
          /\ [content |-> "posted", deleted |-> FALSE] \in Rows
          /\ [content |-> "none", deleted |-> TRUE] \in Rows
      BY <3>1 DEF Rows
    <3>3. \/ UNCHANGED row
          \/ row' = [row EXCEPT ![m] = [row[m] EXCEPT !.content = "edited"]]
          \/ row' = [row EXCEPT ![m] = [content |-> "posted", deleted |-> FALSE]]
          \/ row' = [row EXCEPT ![m] = [content |-> "none", deleted |-> TRUE]]
      <4>1. CASE SendCommit(m)
        BY <4>1 DEF SendCommit
      <4>2. CASE EditCommit(m)
        BY <4>2 DEF EditCommit
      <4>3. CASE DeleteCommit(m)
        BY <4>3 DEF DeleteCommit
      <4>4. CASE SendFlush(m) \/ SendFails(m) \/ EditLoad(m) \/ ChangeFails(m)
        BY <4>4 DEF SendFlush, SendFails, EditLoad, ChangeFails
      <4> QED
        BY <1>1, <4>1, <4>2, <4>3, <4>4 DEF HandlerMoves
    <3> QED
      BY <3>1, <3>2, <3>3
  <2>4. send' \in [Messages -> {"new", "flushed", "committed", "sent", "answered", "failed"}]
    <3>1. \/ UNCHANGED send
          \/ \E phase \in {"flushed", "committed", "failed"} : send' = [send EXCEPT ![m] = phase]
      BY <1>1 DEF HandlerMoves, SendFlush, SendCommit, SendFails, EditLoad, EditCommit,
                  DeleteCommit, ChangeFails
    <3> QED
      BY <3>1 DEF TypeOK
  <2>5. /\ edit' \in [Messages -> {"no", "loaded", "committed", "done", "failed"}]
        /\ delete' \in [Messages -> {"no", "committed", "done", "failed"}]
    BY <1>1 DEF HandlerMoves, SendFlush, SendCommit, SendFails, EditLoad, EditCommit,
                DeleteCommit, ChangeFails, TypeOK
  <2> QED
    BY <2>1, <2>2, <2>3, <2>4, <2>5 DEF TypeOK, Rows
<1>2. ASSUME NEW m \in Messages, Enqueues(m)  PROVE TypeOK'
  <2>1. PICK k \in Kinds : Queue!Hand(Task(k, m))
    BY <1>2 DEF Enqueues, SendEnqueue, EditEnqueue, DeleteEnqueue, Kinds
  <2>2. handed' \subseteq Tasks /\ pending' \subseteq Tasks /\ UNCHANGED <<delivered, dropped>>
    BY <2>1, TaskIs DEF Queue!Hand, TypeOK
  <2>3. UNCHANGED <<rowVars, listenerVars, socketVars, pageVars>>
    BY <1>2 DEF Enqueues, SendEnqueue, EditEnqueue, DeleteEnqueue
  <2>4. /\ send' \in [Messages -> {"new", "flushed", "committed", "sent", "answered", "failed"}]
        /\ edit' \in [Messages -> {"no", "loaded", "committed", "done", "failed"}]
        /\ delete' \in [Messages -> {"no", "committed", "done", "failed"}]
    BY <1>2 DEF Enqueues, SendEnqueue, EditEnqueue, DeleteEnqueue, TypeOK
  <2> QED
    BY <2>2, <2>3, <2>4 DEF TypeOK
<1>3. ASSUME NEW m \in Messages, OnSent(m)  PROVE TypeOK'
  <2>1. Item(m, "posted") \in Items
    BY ItemIs DEF Texts
  <2>2. view' \in Seq(Items)
    BY <1>3, <2>1, AppendMessageIs DEF OnSent, TypeOK
  <2>3. send' \in [Messages -> {"new", "flushed", "committed", "sent", "answered", "failed"}]
    BY <1>3 DEF OnSent, TypeOK
  <2> QED
    BY <1>3, <2>2, <2>3 DEF OnSent, TypeOK
<1>4. ASSUME NEW t \in Tasks, Publish(t)  PROVE TypeOK'
  <2>1. inbox \in Seq(Frames) /\ Frame(t) \in Frames /\ Len(inbox) <= MaxInbox
    BY FrameIs DEF TypeOK
  <2>2. inbox' \in Seq(Frames) /\ Len(inbox') <= MaxInbox
    <3>1. CASE listener = "up"
      <4>1. inbox' = Append(inbox, Frame(t)) /\ Len(inbox) < MaxInbox
        BY <1>4, <3>1 DEF Publish
      <4>2. inbox' \in Seq(Frames) /\ Len(inbox') = Len(inbox) + 1 /\ Len(inbox) \in Nat
        BY <2>1, <4>1, AppendProperties, LenProperties
      <4> QED
        BY <4>1, <4>2, BoundsAssumption
    <3>2. CASE listener # "up"
      BY <1>4, <2>1, <3>2 DEF Publish
    <3> QED
      BY <3>1, <3>2
  <2>3. delivered' \subseteq Tasks /\ UNCHANGED <<handed, pending, dropped>>
    BY <1>4 DEF Publish, Queue!Deliver, TypeOK
  <2> QED
    BY <1>4, <2>2, <2>3 DEF Publish, TypeOK
<1>5. ASSUME NEW t \in Tasks, QueueMoves(t)  PROVE TypeOK'
  <2>1. /\ handed' \subseteq Tasks /\ pending' \subseteq Tasks
        /\ delivered' \subseteq Tasks /\ dropped' \subseteq Tasks
    BY <1>5 DEF QueueMoves, Queue!Settle, Queue!Drop, TypeOK
  <2> QED
    BY <1>5, <2>1 DEF QueueMoves, TypeOK
<1>6. CASE ListenerCrash
  <2>1. inbox' = <<>> /\ inbox' \in Seq(Frames) /\ Len(inbox') <= MaxInbox
    BY <1>6, EmptySeq, BoundsAssumption DEF ListenerCrash
  <2>2. lost' \in 0..MaxListenerCrashes
    BY <1>6, BoundsAssumption DEF ListenerCrash, TypeOK
  <2> QED
    BY <1>6, <2>1, <2>2 DEF ListenerCrash, TypeOK
<1>7. CASE ListenerRestart
  BY <1>7 DEF ListenerRestart, TypeOK
<1>8. CASE Dispatch
  <2>1. inbox \in Seq(Frames) /\ inbox # <<>> /\ inbox' = Tail(inbox)
    BY <1>8 DEF Dispatch, TypeOK
  <2>2. /\ Head(inbox) \in Frames /\ inbox' \in Seq(Frames) /\ Len(inbox') = Len(inbox) - 1
        /\ Len(inbox) \in Nat
    BY <2>1, HeadTailProperties, LenProperties
  <2>3. Len(inbox') <= MaxInbox
    BY <2>2, BoundsAssumption DEF TypeOK
  <2>4. view' \in Seq(Items)
    BY <1>8, <2>2, OnFrameIs DEF Dispatch, TypeOK
  <2> QED
    BY <1>8, <2>2, <2>3, <2>4 DEF Dispatch, TypeOK
<1>9. CASE SocketMoves
  <2>1. closes' \in 0..MaxCloses
    BY <1>9, BoundsAssumption DEF SocketMoves, SocketOpens, SocketCloses, ServerJoins, Listen,
              Leave, TypeOK
  <2> QED
    BY <1>9, <2>1 DEF SocketMoves, SocketOpens, SocketCloses, ServerJoins, Listen, Leave, TypeOK
<1>10. ASSUME NEW v \in Visits, LoadMoves(v)  PROVE TypeOK'
  <2>1. load' \in [Visits -> Load]
    <3>1. load[v] \in Load
      BY DEF TypeOK
    <3>2. /\ [load[v] EXCEPT !.at = "asked"] \in Load
          /\ [load[v] EXCEPT !.at = "done"] \in Load
      BY <3>1 DEF Load
    <3>3. [at |-> "done", rows |-> <<>>] \in Load
      BY EmptySeq DEF Load
    <3>4. \/ load' = [load EXCEPT ![v] = [load[v] EXCEPT !.at = "asked"]]
          \/ load' = [load EXCEPT ![v] = [load[v] EXCEPT !.at = "done"]]
          \/ load' = [load EXCEPT ![v] = [at |-> "done", rows |-> <<>>]]
      BY <1>10 DEF LoadMoves, Open, LoadJoins, LoadFails
    <3> QED
      BY <3>2, <3>3, <3>4 DEF TypeOK
  <2>2. joined' \in {"no", "asked", "yes"} /\ here' \in BOOLEAN
    BY <1>10 DEF LoadMoves, Open, LoadJoins, LoadFails, TypeOK
  <2> QED
    BY <1>10, <2>1, <2>2 DEF LoadMoves, Open, LoadJoins, LoadFails, TypeOK
<1>11. ASSUME NEW v \in Visits, LoadAnswered(v)  PROVE TypeOK'
  <2>1. PICK rows \in History : load' = [load EXCEPT ![v] = [at |-> "answered", rows |-> rows]]
    BY <1>11 DEF LoadAnswered
  <2>2. [at |-> "answered", rows |-> rows] \in Load
    BY HistoryIs DEF Load
  <2>3. load' \in [Visits -> Load]
    BY <2>1, <2>2 DEF TypeOK
  <2> QED
    BY <1>11, <2>3 DEF LoadAnswered, TypeOK
<1>12. ASSUME NEW v \in Visits, LoadArrives(v)  PROVE TypeOK'
  <2>1. load[v] \in Load /\ load[v].rows \in Seq(Items)
    BY DEF TypeOK, Load
  <2>2. [at |-> "listed", rows |-> <<>>] \in Load
    BY EmptySeq DEF Load
  <2>3. load' \in [Visits -> Load] /\ view' \in Seq(Items)
    BY <1>12, <2>1, <2>2 DEF LoadArrives, TypeOK
  <2> QED
    BY <1>12, <2>3 DEF LoadArrives, TypeOK
<1>13. CASE UNCHANGED vars
  BY <1>13 DEF vars, TypeOK
<1> QED
  BY <1>1, <1>2, <1>3, <1>4, <1>5, <1>6, <1>7, <1>8, <1>9, <1>10, <1>11, <1>12, <1>13, NextIs

-----------------------------------------------------------------------------
(* Rows *)

\* Before its commit a message has no row; after it, and while it is edited
\* or deleted, it has one.
Rowless(m) == send[m] \in {"new", "flushed"}
Backed(m) == \/ send[m] \in {"committed", "sent", "answered"}
             \/ edit[m] \in {"loaded", "committed", "done"}
             \/ delete[m] \in {"committed", "done"}
RowsFollow ==
    \A m \in Messages : (Rowless(m) => ~ Committed(m)) /\ (Backed(m) => Committed(m))

Alike(m) == /\ row'[m] = row[m] /\ send'[m] = send[m]
            /\ edit'[m] = edit[m] /\ delete'[m] = delete[m]

\* A row stays, and a deleted one stays deleted.
LEMMA StepRows ==
    ASSUME TypeOK, RowsFollow, [Next]_vars
    PROVE  /\ RowsFollow'
           /\ \A m \in Messages : Committed(m) => Committed(m)'
           /\ \A m \in Messages : row[m].deleted => row'[m].deleted
<1> USE DEF rowVars, handlerVars
<1>0. /\ row \in [Messages -> Rows] /\ \A m \in Messages : row[m] \in Rows
      /\ DOMAIN send = Messages /\ DOMAIN edit = Messages /\ DOMAIN delete = Messages
  BY DEF TypeOK, Rows
<1>a. ASSUME NEW m \in Messages, \A o \in Messages \ {m} : Alike(o),
             Rowless(m)' => ~ Committed(m)', Backed(m)' => Committed(m)',
             Committed(m) => Committed(m)', row[m].deleted => row'[m].deleted
      PROVE  /\ RowsFollow'
             /\ \A o \in Messages : Committed(o) => Committed(o)'
             /\ \A o \in Messages : row[o].deleted => row'[o].deleted
  <2>1. \A o \in Messages \ {m} : /\ Rowless(o)' <=> Rowless(o)
                                  /\ Backed(o)' <=> Backed(o)
                                  /\ Committed(o)' <=> Committed(o)
                                  /\ row'[o] = row[o]
    BY <1>a DEF Alike, Rowless, Backed, Committed
  <2> QED
    BY <1>a, <2>1 DEF RowsFollow
<1>1. ASSUME NEW m \in Messages, HandlerMoves(m)
      PROVE  /\ RowsFollow'
             /\ \A o \in Messages : Committed(o) => Committed(o)'
             /\ \A o \in Messages : row[o].deleted => row'[o].deleted
  <2>1. \A o \in Messages \ {m} : Alike(o)
    BY <1>0, <1>1 DEF HandlerMoves, SendFlush, SendCommit, SendFails, EditLoad, EditCommit,
                      DeleteCommit, ChangeFails, Alike
  <2>2. (Rowless(m) => ~ Committed(m)) /\ (Backed(m) => Committed(m))
    BY DEF RowsFollow
  <2>3. CASE SendCommit(m)
    <3>1. row'[m] = [content |-> "posted", deleted |-> FALSE] /\ send'[m] = "committed"
      BY <1>0, <2>3 DEF SendCommit
    <3>2. ~ row[m].deleted
      BY <2>2, <2>3 DEF SendCommit, Rowless, Committed, NoRow
    <3> QED
      BY <1>a, <2>1, <3>1, <3>2 DEF Rowless, Committed, NoRow
  <2>4. CASE EditCommit(m)
    <3>1. row'[m] = [row[m] EXCEPT !.content = "edited"] /\ UNCHANGED send
      BY <1>0, <2>4 DEF EditCommit
    <3>2. row'[m].content = "edited" /\ row'[m].deleted = row[m].deleted
      BY <1>0, <3>1 DEF Rows
    <3>3. Committed(m)' /\ ~ Rowless(m)
      BY <2>2, <2>4, <3>2 DEF EditCommit, Backed, Committed, NoRow
    <3> QED
      BY <1>a, <2>1, <3>1, <3>2, <3>3 DEF Rowless
  <2>5. CASE DeleteCommit(m)
    <3>1. row'[m] = [content |-> "none", deleted |-> TRUE] /\ UNCHANGED send
      BY <1>0, <2>5 DEF DeleteCommit
    <3>2. Committed(m)' /\ ~ Rowless(m)
      BY <2>2, <2>5, <3>1 DEF DeleteCommit, Committed, NoRow
    <3> QED
      BY <1>a, <2>1, <3>1, <3>2 DEF Rowless
  <2>6. CASE SendFlush(m) \/ SendFails(m) \/ EditLoad(m) \/ ChangeFails(m)
    <3>1. UNCHANGED row
      BY <2>6 DEF SendFlush, SendFails, EditLoad, ChangeFails
    <3>2. (Committed(m)' <=> Committed(m)) /\ row'[m] = row[m]
      BY <3>1 DEF Committed
    <3>3. (Rowless(m)' => Rowless(m)) /\ (Backed(m)' => Backed(m) \/ Committed(m))
      BY <1>0, <2>6 DEF SendFlush, SendFails, EditLoad, ChangeFails, Rowless, Backed
    <3> QED
      BY <1>a, <2>1, <2>2, <3>2, <3>3
  <2> QED
    BY <1>1, <2>3, <2>4, <2>5, <2>6 DEF HandlerMoves
<1>2. ASSUME NEW m \in Messages, Enqueues(m) \/ OnSent(m)
      PROVE  /\ RowsFollow'
             /\ \A o \in Messages : Committed(o) => Committed(o)'
             /\ \A o \in Messages : row[o].deleted => row'[o].deleted
  <2>1. \A o \in Messages \ {m} : Alike(o)
    BY <1>0, <1>2 DEF Enqueues, SendEnqueue, EditEnqueue, DeleteEnqueue, OnSent, Alike
  <2>2. UNCHANGED row
    BY <1>2 DEF Enqueues, SendEnqueue, EditEnqueue, DeleteEnqueue, OnSent
  <2>3. (Rowless(m)' => Rowless(m)) /\ (Backed(m)' => Backed(m))
    BY <1>0, <1>2 DEF Enqueues, SendEnqueue, EditEnqueue, DeleteEnqueue, OnSent, Rowless, Backed
  <2>4. (Committed(m)' <=> Committed(m)) /\ row'[m] = row[m]
    BY <2>2 DEF Committed
  <2> QED
    BY <1>a, <2>1, <2>3, <2>4 DEF RowsFollow
<1>3. ASSUME UNCHANGED <<row, send, edit, delete>>
      PROVE  /\ RowsFollow'
             /\ \A o \in Messages : Committed(o) => Committed(o)'
             /\ \A o \in Messages : row[o].deleted => row'[o].deleted
  BY <1>3 DEF RowsFollow, Rowless, Backed, Committed
<1>4. \/ \E m \in Messages : HandlerMoves(m) \/ Enqueues(m) \/ OnSent(m)
      \/ UNCHANGED <<row, send, edit, delete>>
  BY NextIs DEF Publish, QueueMoves, ListenerCrash, ListenerRestart, Dispatch, SocketMoves,
     SocketOpens, SocketCloses, ServerJoins, Listen, Leave, LoadMoves, Open, LoadJoins, LoadFails,
     LoadAnswered, LoadArrives, vars
<1> QED
  BY <1>1, <1>2, <1>3, <1>4

\* A message enters the log when it is flushed and is not new again.
LEMMA StepLog ==
    ASSUME TypeOK, LogOnce, [Next]_vars
    PROVE  LogOnce'
<1> USE DEF rowVars, handlerVars
<1>0. /\ log \in Seq(Messages) /\ DOMAIN log = 1..Len(log) /\ Len(log) \in Nat
      /\ \A i \in DOMAIN log : log[i] \in Messages
      /\ DOMAIN send = Messages
  BY LenProperties, ElementOfSeq DEF TypeOK
<1>1. ASSUME NEW m \in Messages, SendFlush(m)  PROVE LogOnce'
  <2>1. /\ log' = Append(log, m) /\ send[m] = "new" /\ send' = [send EXCEPT ![m] = "flushed"]
    BY <1>1 DEF SendFlush
  <2>2. /\ DOMAIN log' = 1..(Len(log) + 1) /\ log'[Len(log) + 1] = m
        /\ \A i \in DOMAIN log : log'[i] = log[i]
    BY <1>0, <2>1, AppendProperties, LenProperties
  <2>3. \A i \in DOMAIN log' : i \in DOMAIN log \/ i = Len(log) + 1
    BY <1>0, <2>2
  <2>4. \A i \in DOMAIN log : log[i] # m
    BY <2>1 DEF LogOnce
  <2> QED
    BY <1>0, <2>1, <2>2, <2>3, <2>4 DEF LogOnce
<1>2. ASSUME UNCHANGED log, \A m \in Messages : send'[m] = "new" => send[m] = "new"
      PROVE  LogOnce'
  BY <1>0, <1>2 DEF LogOnce
<1>3. ASSUME NEW m \in Messages, HandlerMoves(m), ~ SendFlush(m)  PROVE LogOnce'
  <2>1. /\ UNCHANGED log
        /\ UNCHANGED send \/ \E phase \in {"committed", "failed"} : send' = [send EXCEPT ![m] = phase]
    BY <1>3 DEF HandlerMoves, SendCommit, SendFails, EditLoad, EditCommit, DeleteCommit, ChangeFails
  <2> QED
    BY <1>0, <1>2, <2>1
<1>4. ASSUME NEW m \in Messages, Enqueues(m) \/ OnSent(m)  PROVE LogOnce'
  <2>1. /\ UNCHANGED log
        /\ UNCHANGED send \/ \E phase \in {"sent", "answered"} : send' = [send EXCEPT ![m] = phase]
    BY <1>4 DEF Enqueues, SendEnqueue, EditEnqueue, DeleteEnqueue, OnSent
  <2> QED
    BY <1>0, <1>2, <2>1
<1>5. CASE UNCHANGED <<log, send>>
  BY <1>2, <1>5
<1>6. \/ \E m \in Messages : HandlerMoves(m) \/ Enqueues(m) \/ OnSent(m)
      \/ UNCHANGED <<log, send>>
  BY NextIs DEF Publish, QueueMoves, ListenerCrash, ListenerRestart, Dispatch, SocketMoves,
     SocketOpens, SocketCloses, ServerJoins, Listen, Leave, LoadMoves, Open, LoadJoins, LoadFails,
     LoadAnswered, LoadArrives, vars
<1> QED
  BY <1>1, <1>3, <1>4, <1>5, <1>6

-----------------------------------------------------------------------------
(* The lists of the page *)

\* Answers that are on their way list no message twice either.
ListsOnce == Once(view) /\ \A v \in Visits : Once(load[v].rows)

\* The messages that a list, the inbox and the queue hold have rows.
AllCommitted(list) == \A i \in DOMAIN list : Committed(list[i].msg)
AnswersCommitted == \A v \in Visits : AllCommitted(load[v].rows)

\* What a step may do to the lists.
LEMMA Lists ==
    ASSUME TypeOK, [Next]_vars
    PROVE  /\ \/ UNCHANGED view
              \/ \E v \in Visits : view' = load[v].rows
              \/ \E m \in Messages :
                    /\ view' = AppendMessage(view, Item(m, "posted"))
                    /\ send[m] = "sent"
              \/ inbox # <<>> /\ view' = OnFrame(Head(inbox))
           /\ \A v \in Visits : \/ load'[v].rows = load[v].rows
                                \/ load'[v].rows = <<>>
                                \/ load'[v].rows \in History
<1> USE DEF rowVars, handlerVars, queueVars, listenerVars, socketVars, pageVars
<1>0. load \in [Visits -> Load]
  BY DEF TypeOK
<1>1. ASSUME NEW m \in Messages, OnSent(m)
      PROVE  /\ UNCHANGED view \/ view' = AppendMessage(view, Item(m, "posted"))
             /\ send[m] = "sent" /\ UNCHANGED load
  BY <1>1 DEF OnSent
<1>2. ASSUME Dispatch
      PROVE  /\ inbox # <<>> /\ UNCHANGED load
             /\ UNCHANGED view \/ view' = OnFrame(Head(inbox))
  BY <1>2 DEF Dispatch
<1>3. ASSUME NEW v \in Visits, LoadMoves(v)
      PROVE  /\ UNCHANGED view
             /\ \A w \in Visits : load'[w].rows = load[w].rows \/ load'[w].rows = <<>>
  <2>1. UNCHANGED view
    BY <1>3 DEF LoadMoves, Open, LoadJoins, LoadFails
  <2>2. load[v] \in Load
    BY <1>0
  <2>3. CASE Open(v)
    BY <1>0, <2>2, <2>3 DEF Open, Load
  <2>4. CASE LoadJoins(v)
    BY <1>0, <2>2, <2>4 DEF LoadJoins, Load
  <2>5. CASE LoadFails(v)
    BY <1>0, <2>5 DEF LoadFails
  <2> QED
    BY <1>3, <2>1, <2>3, <2>4, <2>5 DEF LoadMoves
<1>4. ASSUME NEW v \in Visits, LoadAnswered(v)
      PROVE  /\ UNCHANGED view
             /\ \A w \in Visits : load'[w].rows = load[w].rows \/ load'[w].rows \in History
  BY <1>0, <1>4 DEF LoadAnswered
<1>5. ASSUME NEW v \in Visits, LoadArrives(v)
      PROVE  /\ view' = load[v].rows
             /\ \A w \in Visits : load'[w].rows = load[w].rows \/ load'[w].rows = <<>>
  BY <1>0, <1>5 DEF LoadArrives
<1>6. \/ \E m \in Messages : OnSent(m)
      \/ Dispatch
      \/ \E v \in Visits : LoadMoves(v) \/ LoadAnswered(v) \/ LoadArrives(v)
      \/ UNCHANGED <<view, load>>
  BY NextIs DEF HandlerMoves, SendFlush, SendCommit, SendFails, EditLoad, EditCommit, DeleteCommit,
     ChangeFails, Enqueues, SendEnqueue, EditEnqueue, DeleteEnqueue, Publish, QueueMoves,
     ListenerCrash, ListenerRestart, SocketMoves, SocketOpens, SocketCloses, ServerJoins, Listen,
     Leave, vars
<1>7. CASE \E m \in Messages : OnSent(m)
  BY <1>1, <1>7
<1>8. CASE Dispatch
  BY <1>2, <1>8
<1>9. CASE \E v \in Visits : LoadMoves(v)
  BY <1>3, <1>9
<1>10. CASE \E v \in Visits : LoadAnswered(v)
  BY <1>4, <1>10
<1>11. CASE \E v \in Visits : LoadArrives(v)
  BY <1>5, <1>11
<1> QED
  BY <1>6, <1>7, <1>8, <1>9, <1>10, <1>11

LEMMA HeadIs ==
    ASSUME TypeOK, inbox # <<>>
    PROVE  /\ Head(inbox) \in Frames /\ Head(inbox) = inbox[1] /\ 1 \in DOMAIN inbox
           /\ \A i \in DOMAIN Tail(inbox) : i + 1 \in DOMAIN inbox /\ Tail(inbox)[i] = inbox[i + 1]
<1>1. inbox \in Seq(Frames)
  BY DEF TypeOK
<1>2. /\ Len(inbox) \in Nat \ {0} /\ DOMAIN inbox = 1..Len(inbox)
      /\ Tail(inbox) \in Seq(Frames) /\ Len(Tail(inbox)) = Len(inbox) - 1
      /\ \A i \in 1..Len(Tail(inbox)) : Tail(inbox)[i] = inbox[i + 1]
  BY <1>1, HeadTailProperties, LenProperties, EmptySeq
<1>3. DOMAIN Tail(inbox) = 1..(Len(inbox) - 1)
  BY <1>2, LenProperties
<1>4. Head(inbox) \in Frames /\ Head(inbox) = inbox[1]
  BY <1>1, HeadTailProperties
<1> QED
  BY <1>2, <1>3, <1>4

LEMMA StepListsOnce ==
    ASSUME TypeOK, LogOnce, ListsOnce, [Next]_vars
    PROVE  ListsOnce'
<1>1. view \in Seq(Items)
  BY DEF TypeOK
<1>2. Once(view)'
  <2>1. CASE UNCHANGED view \/ \E v \in Visits : view' = load[v].rows
    BY <2>1 DEF ListsOnce, Once
  <2>2. CASE \E m \in Messages : view' = AppendMessage(view, Item(m, "posted"))
    <3>1. PICK m \in Messages : view' = AppendMessage(view, Item(m, "posted"))
      BY <2>2
    <3>2. Item(m, "posted") \in Items
      BY ItemIs DEF Texts
    <3>3. Once(AppendMessage(view, Item(m, "posted")))
      BY <1>1, <3>2, AppendMessageIs DEF ListsOnce
    <3> QED
      BY <3>1, <3>3 DEF Once
  <2>3. CASE inbox # <<>> /\ view' = OnFrame(Head(inbox))
    <3>1. Once(OnFrame(Head(inbox)))
      BY <1>1, <2>3, HeadIs, OnFrameIs DEF ListsOnce
    <3> QED
      BY <2>3, <3>1 DEF Once
  <2> QED
    BY <2>1, <2>2, <2>3, Lists
<1>3. ASSUME NEW v \in Visits  PROVE Once(load[v].rows)'
  <2>1. CASE load'[v].rows = load[v].rows
    BY <2>1 DEF ListsOnce, Once
  <2>2. CASE load'[v].rows = <<>>
    BY <2>2 DEF Once
  <2>3. CASE load'[v].rows \in History
    BY <2>3, HistoryIs DEF Once
  <2> QED
    BY <2>1, <2>2, <2>3, Lists
<1> QED
  BY <1>2, <1>3 DEF ListsOnce

\* The row of m is there after the step.
Still(m) == row'[m] # NoRow

LEMMA StepShown ==
    ASSUME TypeOK, RowsFollow, ShownIsCommitted, AnswersCommitted, [Next]_vars
    PROVE  ShownIsCommitted' /\ AnswersCommitted'
<1> USE DEF rowVars, handlerVars, queueVars, listenerVars, socketVars, pageVars
<1>0. \A m \in Messages : Committed(m) => Still(m)
  BY StepRows DEF Committed, Still
<1>t. /\ view \in Seq(Items) /\ inbox \in Seq(Frames) /\ pending \subseteq Tasks
      /\ \A v \in Visits : load[v].rows \in Seq(Items)
      /\ \A t \in Tasks : t.msg \in Messages
      /\ \A f \in Frames : f.msg \in Messages
  BY DEF TypeOK, Load, Tasks, Frames
<1>a. ASSUME NEW list \in Seq(Items), AllCommitted(list)
      PROVE  \A i \in DOMAIN list : list[i].msg \in Messages /\ Still(list[i].msg)
  <2>1. \A i \in DOMAIN list : list[i] \in Items
    BY LenProperties, ElementOfSeq
  <2> QED
    BY <1>0, <1>a, <2>1 DEF AllCommitted, Items
<1>b. ASSUME NEW list, NEW m \in Messages, Committed(m), AtMost(list, view, m)
      PROVE  \A i \in DOMAIN list : Still(list[i].msg)
  <2>1. AllCommitted(view)
    BY DEF ShownIsCommitted, AllCommitted
  <2> QED
    BY <1>0, <1>a, <1>b, <1>t, <2>1 DEF AtMost
<1>1. \A t \in pending' : Still(t.msg)
  <2>1. CASE \E m \in Messages : Enqueues(m)
    <3>1. PICK m \in Messages : Enqueues(m)
      BY <2>1
    <3>2. Committed(m)
      BY <3>1 DEF Enqueues, SendEnqueue, EditEnqueue, DeleteEnqueue, RowsFollow, Backed
    <3>3. PICK k \in Kinds : Queue!Hand(Task(k, m))
      BY <3>1 DEF Enqueues, SendEnqueue, EditEnqueue, DeleteEnqueue, Kinds
    <3> QED
      BY <1>0, <1>t, <3>2, <3>3, TaskIs DEF Queue!Hand, ShownIsCommitted
  <2>2. CASE pending' \subseteq pending
    BY <1>0, <1>t, <2>2 DEF ShownIsCommitted
  <2>3. (\E m \in Messages : Enqueues(m)) \/ pending' \subseteq pending
    BY NextIs DEF HandlerMoves, SendFlush, SendCommit, SendFails, EditLoad, EditCommit,
       DeleteCommit, ChangeFails, OnSent, Publish, QueueMoves, Queue!Deliver, Queue!Settle,
       Queue!Drop, ListenerCrash, ListenerRestart, Dispatch, SocketMoves, SocketOpens,
       SocketCloses, ServerJoins, Listen, Leave, LoadMoves, Open, LoadJoins, LoadFails,
       LoadAnswered, LoadArrives, vars
  <2> QED
    BY <2>1, <2>2, <2>3
<1>2. \A i \in DOMAIN inbox' : Still(inbox'[i].msg)
  <2>1. CASE \E t \in Tasks : Publish(t) /\ listener = "up"
    <3>1. PICK t \in Tasks : Publish(t) /\ listener = "up"
      BY <2>1
    <3>2. inbox' = Append(inbox, Frame(t)) /\ t \in pending
      BY <3>1 DEF Publish, Queue!Deliver
    <3>3. Frame(t) \in Frames /\ Frame(t).msg = t.msg
      BY FrameIs
    <3>4. /\ DOMAIN inbox = 1..Len(inbox) /\ DOMAIN inbox' = 1..(Len(inbox) + 1)
          /\ \A i \in 1..Len(inbox) : inbox'[i] = inbox[i] /\ inbox[i] \in Frames
          /\ inbox'[Len(inbox) + 1] = Frame(t) /\ Len(inbox) \in Nat
      BY <1>t, <3>2, <3>3, AppendProperties, LenProperties, ElementOfSeq
    <3>5. \A i \in DOMAIN inbox' : i \in DOMAIN inbox \/ i = Len(inbox) + 1
      BY <3>4
    <3>6. Still(t.msg)
      BY <1>0, <1>t, <3>2 DEF ShownIsCommitted
    <3>7. \A i \in DOMAIN inbox : Still(inbox[i].msg)
      BY <1>0, <1>t, <3>4 DEF ShownIsCommitted
    <3> QED
      BY <3>3, <3>4, <3>5, <3>6, <3>7
  <2>2. CASE inbox # <<>> /\ inbox' = Tail(inbox)
    <3>1. \A i \in DOMAIN inbox : Still(inbox[i].msg)
      <4>1. \A i \in DOMAIN inbox : inbox[i] \in Frames
        BY <1>t, LenProperties, ElementOfSeq
      <4> QED
        BY <1>0, <1>t, <4>1 DEF ShownIsCommitted
    <3> QED
      BY <2>2, <3>1, HeadIs
  <2>3. CASE inbox' = <<>>
    BY <2>3
  <2>4. CASE UNCHANGED inbox
    <3>1. \A i \in DOMAIN inbox : inbox[i] \in Frames
      BY <1>t, LenProperties, ElementOfSeq
    <3> QED
      BY <1>0, <1>t, <2>4, <3>1 DEF ShownIsCommitted
  <2>5. \/ \E t \in Tasks : Publish(t) /\ listener = "up"
        \/ inbox # <<>> /\ inbox' = Tail(inbox)
        \/ inbox' = <<>>
        \/ UNCHANGED inbox
    BY NextIs DEF HandlerMoves, SendFlush, SendCommit, SendFails, EditLoad, EditCommit,
       DeleteCommit, ChangeFails, Enqueues, SendEnqueue, EditEnqueue, DeleteEnqueue, OnSent,
       Publish, QueueMoves, ListenerCrash, ListenerRestart, Dispatch, SocketMoves, SocketOpens,
       SocketCloses, ServerJoins, Listen, Leave, LoadMoves, Open, LoadJoins, LoadFails,
       LoadAnswered, LoadArrives, vars
  <2> QED
    BY <2>1, <2>2, <2>3, <2>4, <2>5
<1>3. \A i \in DOMAIN view' : Still(view'[i].msg)
  <2>1. CASE UNCHANGED view
    <3>1. AllCommitted(view)
      BY DEF ShownIsCommitted, AllCommitted
    <3> QED
      BY <1>a, <1>t, <2>1, <3>1
  <2>2. CASE \E v \in Visits : view' = load[v].rows
    BY <1>a, <1>t, <2>2 DEF AnswersCommitted
  <2>3. ASSUME NEW m \in Messages, view' = AppendMessage(view, Item(m, "posted")), send[m] = "sent"
        PROVE  \A i \in DOMAIN view' : Still(view'[i].msg)
    <3>1. Committed(m)
      BY <2>3 DEF RowsFollow, Backed
    <3>2. Item(m, "posted") \in Items /\ Item(m, "posted").msg = m
      BY ItemIs DEF Texts
    <3>3. AtMost(view', view, m)
      BY <1>t, <2>3, <3>2, AppendMessageIs
    <3> QED
      BY <1>b, <3>1, <3>3
  <2>4. CASE inbox # <<>> /\ view' = OnFrame(Head(inbox))
    <3>1. Head(inbox) \in Frames /\ Committed(Head(inbox).msg)
      BY <2>4, HeadIs DEF ShownIsCommitted
    <3>2. AtMost(view', view, Head(inbox).msg)
      BY <1>t, <2>4, <3>1, OnFrameIs
    <3> QED
      BY <1>b, <1>t, <3>1, <3>2
  <2> QED
    BY <2>1, <2>2, <2>3, <2>4, Lists
<1>4. AnswersCommitted'
  <2> SUFFICES ASSUME NEW v \in Visits
               PROVE  \A i \in DOMAIN load'[v].rows : Still(load'[v].rows[i].msg)
    BY DEF AnswersCommitted, AllCommitted, Committed, Still
  <2>1. CASE load'[v].rows = load[v].rows
    <3>1. \A i \in DOMAIN load[v].rows : Still(load[v].rows[i].msg)
      BY <1>a, <1>t DEF AnswersCommitted
    <3> QED
      BY <2>1, <3>1
  <2>2. CASE load'[v].rows = <<>>
    BY <2>2
  <2>3. CASE load'[v].rows \in History
    BY <1>0, <2>3, HistoryIs
  <2> QED
    BY <2>1, <2>2, <2>3, Lists
<1> QED
  BY <1>1, <1>2, <1>3, <1>4 DEF ShownIsCommitted, Committed, Still

-----------------------------------------------------------------------------
(* Theorems *)

IInv == /\ TypeOK /\ RowsFollow /\ LogOnce
        /\ ListsOnce /\ ShownIsCommitted /\ AnswersCommitted

LEMMA InitIInv == Init => IInv
<1> SUFFICES ASSUME Init PROVE IInv
  OBVIOUS
<1>1. \A v \in Visits : load[v].rows = <<>>
  BY DEF Init, NotOpened
<1>2. view = <<>> /\ inbox = <<>> /\ log = <<>> /\ pending = {}
  BY DEF Init, Queue!Init
<1>3. TypeOK
  <2>1. NoRow \in Rows /\ NotOpened \in Load
    BY EmptySeq DEF NoRow, Rows, NotOpened, Load
  <2>2. row \in [Messages -> Rows] /\ load \in [Visits -> Load]
    BY <2>1 DEF Init
  <2>3. log \in Seq(Messages) /\ inbox \in Seq(Frames) /\ view \in Seq(Items) /\ Len(inbox) <= MaxInbox
    BY <1>2, EmptySeq, BoundsAssumption
  <2>4. closes \in 0..MaxCloses /\ lost \in 0..MaxListenerCrashes
    BY BoundsAssumption DEF Init
  <2> QED
    BY <2>2, <2>3, <2>4 DEF Init, Queue!Init, TypeOK, Rows
<1>4. RowsFollow
  BY DEF Init, RowsFollow, Rowless, Backed, Committed
<1>5. LogOnce /\ ShownIsCommitted
  BY <1>2 DEF LogOnce, ShownIsCommitted
<1>6. ListsOnce /\ AnswersCommitted
  BY <1>1, <1>2 DEF ListsOnce, Once, AnswersCommitted, AllCommitted
<1> QED
  BY <1>3, <1>4, <1>5, <1>6 DEF IInv

LEMMA StepIInv == IInv /\ [Next]_vars => IInv'
BY StepTypeOK, StepRows, StepLog, StepListsOnce, StepShown DEF IInv

\* The variables have their types: the page lists no row without a text.
THEOREM FeedTypeCorrect == Spec => []TypeOK
<1>1. IInv => TypeOK
  BY DEF IInv
<1> QED
  BY <1>1, InitIInv, StepIInv, PTL DEF Spec

\* The page never lists a message twice (stores/chat.js 29-59): the history
\* has each message once, and an answer or a frame adds only what is missing.
THEOREM NothingTwice == Spec => []NoDuplicateInView
<1>1. IInv => NoDuplicateInView
  BY DEF IInv, ListsOnce, Once, NoDuplicateInView
<1> QED
  BY <1>1, InitIInv, StepIInv, PTL DEF Spec

\* What is queued, on its way or shown is a committed row (messages.py
\* 171-200): a message is queued after its commit and rows stay.
THEOREM OnlyCommitted == Spec => []ShownIsCommitted
<1>1. IInv => ShownIsCommitted
  BY DEF IInv
<1> QED
  BY <1>1, InitIInv, StepIInv, PTL DEF Spec

\* A deleted message stays deleted (messages.py 187-226): an edit writes the
\* columns it changes and no others.
THEOREM DeletionStays == Spec => DeletionIsFinal
<1>1. IInv /\ [Next]_vars => [\A m \in Messages : row[m].deleted => row'[m].deleted]_vars
  BY StepRows DEF IInv
<1> QED
  BY <1>1, InitIInv, StepIInv, PTL DEF Spec, DeletionIsFinal

-----------------------------------------------------------------------------
(* The queue that the feed uses *)

\* The tasks in the queue are those of the handlers that are past their .delay.
Announced ==
    \A m \in Messages :
        /\ Task("message", m) \in handed <=> send[m] \in {"sent", "answered"}
        /\ Task("message_edited", m) \in handed <=> edit[m] = "done"
        /\ Task("message_deleted", m) \in handed <=> delete[m] = "done"

LEMMA TasksDiffer ==
    \A k, l \in Kinds, m, n \in Messages : Task(k, m) = Task(l, n) => k = l /\ m = n
<1> SUFFICES ASSUME NEW k \in Kinds, NEW l \in Kinds, NEW m \in Messages, NEW n \in Messages,
                    Task(k, m) = Task(l, n)
             PROVE  k = l /\ m = n
  OBVIOUS
<1>1. Task(k, m).kind = k /\ Task(l, n).kind = l /\ Task(k, m).msg = m /\ Task(l, n).msg = n
  BY DEF Task
<1> QED
  BY <1>1

\* Only an enqueueing handler hands a task over, and only its own.
LEMMA StepAnnounced ==
    ASSUME TypeOK, Announced, [Next]_vars
    PROVE  Announced'
<1> DEFINE Same == handed' = handed /\ send' = send /\ edit' = edit /\ delete' = delete
<1>1. ASSUME Same  PROVE Announced'
  BY <1>1 DEF Announced
<1>2. ASSUME NEW m \in Messages, HandlerMoves(m) \/ OnSent(m)
      PROVE  Announced'
  <2>1. handed' = handed
    BY <1>2 DEF HandlerMoves, SendFlush, SendCommit, SendFails, EditLoad, EditCommit,
                DeleteCommit, ChangeFails, OnSent, queueVars
  <2>2. /\ \A o \in Messages : send'[o] \in {"sent", "answered"} <=> send[o] \in {"sent", "answered"}
        /\ \A o \in Messages : edit'[o] = "done" <=> edit[o] = "done"
        /\ \A o \in Messages : delete'[o] = "done" <=> delete[o] = "done"
    BY <1>2 DEF HandlerMoves, SendFlush, SendCommit, SendFails, EditLoad, EditCommit,
                DeleteCommit, ChangeFails, OnSent, TypeOK
  <2> QED
    BY <2>1, <2>2 DEF Announced
<1>3. ASSUME NEW m \in Messages, Enqueues(m)
      PROVE  Announced'
  <2> USE DEF Kinds
  <2>1. CASE SendEnqueue(m)
    <3>1. /\ handed' = handed \cup {Task("message", m)} /\ edit' = edit /\ delete' = delete
          /\ send' = [send EXCEPT ![m] = "sent"]
      BY <2>1 DEF SendEnqueue, Queue!Hand
    <3> QED
      BY <3>1, TasksDiffer DEF Announced, TypeOK
  <2>2. CASE EditEnqueue(m)
    <3>1. /\ handed' = handed \cup {Task("message_edited", m)} /\ send' = send /\ delete' = delete
          /\ edit' = [edit EXCEPT ![m] = "done"]
      BY <2>2 DEF EditEnqueue, Queue!Hand
    <3> QED
      BY <3>1, TasksDiffer DEF Announced, TypeOK
  <2>3. CASE DeleteEnqueue(m)
    <3>1. /\ handed' = handed \cup {Task("message_deleted", m)} /\ send' = send /\ edit' = edit
          /\ delete' = [delete EXCEPT ![m] = "done"]
      BY <2>3 DEF DeleteEnqueue, Queue!Hand
    <3> QED
      BY <3>1, TasksDiffer DEF Announced, TypeOK
  <2> QED
    BY <1>3, <2>1, <2>2, <2>3 DEF Enqueues
<1>4. ASSUME NEW t \in Tasks, Publish(t) \/ QueueMoves(t)
      PROVE  Same
  BY <1>4 DEF Publish, QueueMoves, Queue!Deliver, Queue!Settle, Queue!Drop, handlerVars
<1>5. CASE ListenerCrash \/ ListenerRestart \/ Dispatch \/ SocketMoves \/ UNCHANGED vars
  BY <1>1, <1>5 DEF ListenerCrash, ListenerRestart, Dispatch, SocketMoves, SocketOpens,
                    SocketCloses, ServerJoins, Listen, Leave, vars, handlerVars, queueVars
<1>6. ASSUME NEW v \in Visits, LoadMoves(v) \/ LoadAnswered(v) \/ LoadArrives(v)
      PROVE  Same
  BY <1>6 DEF LoadMoves, Open, LoadJoins, LoadFails, LoadAnswered, LoadArrives,
              handlerVars, queueVars
<1> QED
  BY <1>1, <1>2, <1>3, <1>4, <1>5, <1>6, NextIs

\* No handler is kept from handing its task over: the abstract queue takes a
\* task once, and none of the three has been handed over before its handler's
\* .delay (messages.py 175, 199, 230).
NeverRefused ==
    \A m \in Messages :
        /\ send[m] = "committed" => Task("message", m) \notin handed
        /\ edit[m] = "committed" => Task("message_edited", m) \notin handed
        /\ delete[m] = "committed" => Task("message_deleted", m) \notin handed

\* See NeverRefused: what AtLeastOnce asks of those that use it, the handlers
\* of messages.py do.
THEOREM HandlersAreNeverRefused == Spec => []NeverRefused
<1>1. Init => Announced
  BY DEF Init, Queue!Init, Announced
<1>2. IInv /\ Announced /\ [Next]_vars => Announced'
  BY StepAnnounced DEF IInv
<1>3. Announced => NeverRefused
  BY DEF Announced, NeverRefused
<1> QED
  BY <1>1, <1>2, <1>3, InitIInv, StepIInv, PTL DEF Spec
=============================================================================
