---------------------------- MODULE MessageFeed ----------------------------
(***************************************************************************)
(* One room's messages on their way to one member's open page: the HTTP    *)
(* handlers of messages.py, the task queue (AtLeastOnce, which TaskQueue   *)
(* implements), the Redis listener of websocket/manager.py, and the page   *)
(* (RoomView.vue, ChatLayout.vue, stores/chat.js, stores/socket.js).       *)
(*                                                                         *)
(* A text is posted, edited or deleted; a frame is named by the payload    *)
(* (kind) it carries.  The member may read the room and the senders may    *)
(* write to it throughout.  A frame that the listener forwards is handled  *)
(* by the page at once: the socket keeps its order, so a slow socket is a  *)
(* slow listener.                                                          *)
(***************************************************************************)
EXTENDS Naturals, Sequences, FiniteSets

CONSTANTS
    Messages,
    Own, Edited, Deleted,   \* those the member sends; those that are edited
                            \* and deleted by somebody
    Visits,                 \* openings of the room page: 1..n
    MaxCloses, MaxListenerCrashes,
    MaxInbox                \* frames between Redis and the page

ASSUME SubsetAssumption ==
    Own \subseteq Messages /\ Edited \subseteq Messages /\ Deleted \subseteq Messages
ASSUME BoundsAssumption ==
    /\ Visits \subseteq Nat
    /\ MaxCloses \in Nat /\ MaxListenerCrashes \in Nat /\ MaxInbox \in Nat

Kinds == {"message", "message_edited", "message_deleted"}
Tasks == [kind : Kinds, msg : Messages]
Task(k, m) == [kind |-> k, msg |-> m]

VARIABLES
    row, log,              \* committed rows; messages by created_at
    send, edit, delete,    \* where the handlers of a message are
    handed, pending, delivered, dropped,   \* the queue
    listener, inbox, lost, \* the pub/sub listener and what Redis pushed to it
    socket, joined, closes,\* the WebSocket and its place in _room_sockets
    handlers, here, load, view    \* the page

rowVars == <<row, log>>
handlerVars == <<send, edit, delete>>
queueVars == <<handed, pending, delivered, dropped>>
listenerVars == <<listener, inbox, lost>>
socketVars == <<socket, joined, closes>>
pageVars == <<handlers, here, load, view>>
vars == <<rowVars, handlerVars, queueVars, listenerVars, socketVars, pageVars>>

Queue == INSTANCE AtLeastOnce

NoRow == [content |-> "none", deleted |-> FALSE]
NotOpened == [at |-> "no", rows |-> <<>>]

Init ==
    /\ row = [m \in Messages |-> NoRow] /\ log = <<>>
    /\ send = [m \in Messages |-> "new"]
    /\ edit = [m \in Messages |-> "no"]
    /\ delete = [m \in Messages |-> "no"]
    /\ Queue!Init
    /\ listener = "up" /\ inbox = <<>> /\ lost = 0
    /\ socket = "connecting" /\ joined = "no" /\ closes = 0
    /\ handlers = FALSE /\ here = FALSE /\ view = <<>>
    /\ load = [v \in Visits |-> NotOpened]

-----------------------------------------------------------------------------
(* messages.py *)

Committed(m) == row[m] # NoRow

\* db.flush: the row gets its created_at.
SendFlush(m) ==
    /\ send[m] = "new"
    /\ send' = [send EXCEPT ![m] = "flushed"]
    /\ log' = Append(log, m)
    /\ UNCHANGED <<row, edit, delete, queueVars, listenerVars, socketVars, pageVars>>

SendCommit(m) ==
    /\ send[m] = "flushed"
    /\ send' = [send EXCEPT ![m] = "committed"]
    /\ row' = [row EXCEPT ![m] = [content |-> "posted", deleted |-> FALSE]]
    /\ UNCHANGED <<log, edit, delete, queueVars, listenerVars, socketVars, pageVars>>

\* Error: the task is enqueued after the flush and before the commit.
SendEnqueue_BeforeCommit(m) ==
    /\ send[m] \in {"flushed", "committed"}
    /\ send' = [send EXCEPT ![m] = "sent"]
    /\ Queue!Hand(Task("message", m))
    /\ UNCHANGED <<rowVars, edit, delete, listenerVars, socketVars, pageVars>>

\* broadcast_message.delay, and the answer to the sender.
SendEnqueue(m) ==
    /\ send[m] = "committed"
    /\ send' = [send EXCEPT ![m] = "sent"]
    /\ Queue!Hand(Task("message", m))
    /\ UNCHANGED <<rowVars, edit, delete, listenerVars, socketVars, pageVars>>

\* The process dies, or .delay raises because the broker is away: what is
\* committed stays, what is not is rolled back.
SendFails(m) ==
    /\ send[m] \in {"flushed", "committed"}
    /\ send' = [send EXCEPT ![m] = "failed"]
    /\ UNCHANGED <<rowVars, edit, delete, queueVars, listenerVars, socketVars, pageVars>>

EditLoad(m) ==
    /\ m \in Edited /\ edit[m] = "no" /\ Committed(m)
    /\ ~ row[m].deleted
    /\ edit' = [edit EXCEPT ![m] = "loaded"]
    /\ UNCHANGED <<rowVars, send, delete, queueVars, listenerVars, socketVars, pageVars>>

\* Error: the whole row is written back as it was loaded.
EditCommit_WholeRow(m) ==
    /\ edit[m] = "loaded"
    /\ edit' = [edit EXCEPT ![m] = "committed"]
    /\ row' = [row EXCEPT ![m] = [content |-> "edited", deleted |-> FALSE]]
    /\ UNCHANGED <<log, send, delete, queueVars, listenerVars, socketVars, pageVars>>

\* The UPDATE sets content and edited_at of the row by its key.
EditCommit(m) ==
    /\ edit[m] = "loaded"
    /\ edit' = [edit EXCEPT ![m] = "committed"]
    /\ row' = [row EXCEPT ![m].content = "edited"]
    /\ UNCHANGED <<log, send, delete, queueVars, listenerVars, socketVars, pageVars>>

\* The second _load_message finds the same object in the session: the payload
\* has the text this request wrote.
EditEnqueue(m) ==
    /\ edit[m] = "committed"
    /\ edit' = [edit EXCEPT ![m] = "done"]
    /\ Queue!Hand(Task("message_edited", m))
    /\ UNCHANGED <<rowVars, send, delete, listenerVars, socketVars, pageVars>>

DeleteCommit(m) ==
    /\ m \in Deleted /\ delete[m] = "no" /\ Committed(m)
    /\ delete' = [delete EXCEPT ![m] = "committed"]
    /\ row' = [row EXCEPT ![m] = [content |-> "none", deleted |-> TRUE]]
    /\ UNCHANGED <<log, send, edit, queueVars, listenerVars, socketVars, pageVars>>

DeleteEnqueue(m) ==
    /\ delete[m] = "committed"
    /\ delete' = [delete EXCEPT ![m] = "done"]
    /\ Queue!Hand(Task("message_deleted", m))
    /\ UNCHANGED <<rowVars, send, edit, listenerVars, socketVars, pageVars>>

\* An edit or a deletion that is committed and not announced.
ChangeFails(m) ==
    /\ \/ edit[m] \in {"loaded", "committed"}
          /\ edit' = [edit EXCEPT ![m] = "failed"] /\ UNCHANGED delete
       \/ delete[m] = "committed"
          /\ delete' = [delete EXCEPT ![m] = "failed"] /\ UNCHANGED edit
    /\ UNCHANGED <<rowVars, send, queueVars, listenerVars, socketVars, pageVars>>

-----------------------------------------------------------------------------
(* worker/tasks.py and websocket/manager.py *)

\* The task publishes {"event": "message", **payload}; no payload has an
\* "event", and the listener makes the event the frame's "type".
Frame(t) == [type |-> "message", kind |-> t.kind, msg |-> t.msg]

\* Error: the channel is the wrong one and nobody is subscribed to it.
Publish_ToNobody(t) ==
    /\ Queue!Deliver(t)
    /\ UNCHANGED <<rowVars, handlerVars, listenerVars, socketVars, pageVars>>

\* Redis pushes to the listeners that are subscribed, and keeps nothing.
Publish(t) ==
    /\ Queue!Deliver(t)
    /\ IF listener = "up"
       THEN Len(inbox) < MaxInbox /\ inbox' = Append(inbox, Frame(t))
       ELSE UNCHANGED inbox
    /\ UNCHANGED <<rowVars, handlerVars, listener, lost, socketVars, pageVars>>

QueueMoves(t) ==
    /\ Queue!Settle(t) \/ Queue!Drop(t)
    /\ UNCHANGED <<rowVars, handlerVars, listenerVars, socketVars, pageVars>>

ListenerCrash ==
    /\ listener = "up" /\ lost < MaxListenerCrashes
    /\ listener' = "down" /\ inbox' = <<>> /\ lost' = lost + 1
    /\ UNCHANGED <<rowVars, handlerVars, queueVars, socketVars, pageVars>>

ListenerRestart ==
    /\ listener = "down"
    /\ listener' = "up"
    /\ UNCHANGED <<rowVars, handlerVars, queueVars, inbox, lost, socketVars, pageVars>>

-----------------------------------------------------------------------------
(* stores/chat.js, stores/socket.js, ChatLayout.vue, RoomView.vue *)

Shows(list, m) == \E i \in DOMAIN list : list[i].msg = m

\* Error: nothing is compared.
AppendMessage_Blind(list, item) == Append(list, item)

AppendMessage(list, item) ==
    IF Shows(list, item.msg) THEN list ELSE Append(list, item)

UpdateMessage(list, item) ==
    [i \in DOMAIN list |-> IF list[i].msg = item.msg THEN item ELSE list[i]]

Item(m, text) == [msg |-> m, text |-> text]

\* The handlers of ChatLayout, by the type of the frame.  A deletion that
\* comes as a "message" names no message and no room.
OnFrame(f) ==
    CASE f.type = "message" /\ f.kind = "message" ->
            AppendMessage(view, Item(f.msg, "posted"))
      [] f.type = "message" /\ f.kind = "message_edited" ->
            AppendMessage(view, Item(f.msg, "edited"))
      [] f.type = "message" /\ f.kind = "message_deleted" -> view
      [] f.type = "message_edited" -> UpdateMessage(view, Item(f.msg, "edited"))
      [] f.type = "message_deleted" -> UpdateMessage(view, Item(f.msg, "deleted"))

\* _dispatch sends the frame to the sockets in the room's set.
Dispatch ==
    /\ inbox # <<>>
    /\ inbox' = Tail(inbox)
    /\ view' = IF joined = "yes" /\ handlers THEN OnFrame(Head(inbox)) ELSE view
    /\ UNCHANGED <<rowVars, handlerVars, queueVars, listener, lost, socketVars,
                   handlers, here, load>>

SocketOpens ==
    /\ socket # "open"
    /\ socket' = "open"
    /\ UNCHANGED <<rowVars, handlerVars, queueVars, listenerVars, joined, closes, pageVars>>

\* The server's disconnect takes the socket out of every set; onclose opens
\* a new one after 3 s and says nothing about rooms.
SocketCloses ==
    /\ socket = "open" /\ closes < MaxCloses
    /\ socket' = "closed" /\ joined' = "no" /\ closes' = closes + 1
    /\ UNCHANGED <<rowVars, handlerVars, queueVars, listenerVars, pageVars>>

\* websocket_handler: join_room.
ServerJoins ==
    /\ joined = "asked"
    /\ joined' = "yes"
    /\ UNCHANGED <<rowVars, handlerVars, queueVars, listenerVars, socket, closes, pageVars>>

\* ChatLayout listens only after its first four requests.
Listen ==
    /\ ~ handlers
    /\ handlers' = TRUE
    /\ UNCHANGED <<rowVars, handlerVars, queueVars, listenerVars, socketVars, here, load, view>>

Open(v) ==
    /\ ~ here /\ load[v].at = "no"
    /\ here' = TRUE
    /\ load' = [load EXCEPT ![v].at = "asked"]
    /\ UNCHANGED <<rowVars, handlerVars, queueVars, listenerVars, socketVars, handlers, view>>

\* Another page is opened: the load goes on, the server is told nothing.
Leave ==
    /\ here
    /\ here' = FALSE
    /\ UNCHANGED <<rowVars, handlerVars, queueVars, listenerVars, socketVars, handlers, load, view>>

Visible(m) == Item(m, IF row[m].deleted THEN "deleted" ELSE row[m].content)

\* Error: the history shows rows of transactions that are not committed.
History_Dirty == {[i \in DOMAIN log |-> Visible(log[i])]}

\* The ways to number a set of positions from the first to the last: one.
Numberings(positions) ==
    {n \in [1..Cardinality(positions) -> positions] :
        \A i, j \in DOMAIN n : i < j => n[i] < n[j]}

\* get_room_messages: the committed rows by created_at (all fit the limit).
History ==
    {[i \in DOMAIN n |-> Visible(log[n[i]])] :
        n \in Numberings({i \in DOMAIN log : Committed(log[i])})}

LoadAnswered(v) ==
    /\ load[v].at = "asked"
    /\ \E rows \in History :
          load' = [load EXCEPT ![v] = [at |-> "answered", rows |-> rows]]
    /\ UNCHANGED <<rowVars, handlerVars, queueVars, listenerVars, socketVars, handlers, here, view>>

\* loadRoomMessages puts the answer in place of the list.
LoadArrives(v) ==
    /\ load[v].at = "answered"
    /\ load' = [load EXCEPT ![v] = [at |-> "listed", rows |-> <<>>]]
    /\ view' = load[v].rows
    /\ UNCHANGED <<rowVars, handlerVars, queueVars, listenerVars, socketVars, handlers, here>>

\* The room and its members are there too: join_room for the page that is
\* open now, if the socket is.
LoadJoins(v) ==
    /\ load[v].at = "listed"
    /\ load' = [load EXCEPT ![v].at = "done"]
    /\ joined' = IF here /\ socket = "open" /\ joined = "no" THEN "asked" ELSE joined
    /\ UNCHANGED <<rowVars, handlerVars, queueVars, listenerVars, socket, closes, handlers, here, view>>

\* A request of load() fails: router.push('/rooms').
LoadFails(v) ==
    /\ load[v].at \in {"asked", "answered", "listed"}
    /\ load' = [load EXCEPT ![v] = [at |-> "done", rows |-> <<>>]]
    /\ here' = FALSE
    /\ UNCHANGED <<rowVars, handlerVars, queueVars, listenerVars, socketVars, handlers, view>>

\* The answer to the member's own message: onSent, for the page open now.
OnSent(m) ==
    /\ m \in Own /\ send[m] = "sent"
    /\ send' = [send EXCEPT ![m] = "answered"]
    /\ view' = IF here THEN AppendMessage(view, Item(m, "posted")) ELSE view
    /\ UNCHANGED <<rowVars, edit, delete, queueVars, listenerVars, socketVars, handlers, here, load>>

-----------------------------------------------------------------------------
Next ==
    \/ \E m \in Messages :
          \/ SendFlush(m) \/ SendCommit(m) \/ SendEnqueue(m) \/ SendFails(m)
          \/ EditLoad(m) \/ EditCommit(m) \/ EditEnqueue(m)
          \/ DeleteCommit(m) \/ DeleteEnqueue(m) \/ ChangeFails(m) \/ OnSent(m)
    \/ \E t \in Tasks : Publish(t) \/ QueueMoves(t)
    \/ ListenerCrash \/ ListenerRestart \/ Dispatch
    \/ SocketOpens \/ SocketCloses \/ ServerJoins \/ Listen \/ Leave
    \/ \E v \in Visits :
          \/ Open(v) \/ LoadAnswered(v) \/ LoadArrives(v) \/ LoadJoins(v) \/ LoadFails(v)

Spec == Init /\ [][Next]_vars

\* Requests are carried out to the end, the queue settles what it was given
\* (EveryTaskSettles of TaskQueue), the listener restarts after 2 s, the
\* socket after 3 s.  Nobody has to write, open the page or stay on it.
Fairness ==
    /\ \A m \in Messages :
          /\ WF_vars(SendCommit(m) \/ SendEnqueue(m))
          /\ WF_vars(EditCommit(m) \/ EditEnqueue(m))
          /\ WF_vars(DeleteEnqueue(m))
          /\ WF_vars(OnSent(m))
    /\ \A t \in Tasks : WF_vars(Publish(t) \/ QueueMoves(t))
    /\ WF_vars(ListenerRestart) /\ WF_vars(Dispatch)
    /\ WF_vars(SocketOpens) /\ WF_vars(ServerJoins) /\ WF_vars(Listen)
    /\ \A v \in Visits :
          WF_vars(LoadAnswered(v) \/ LoadArrives(v) \/ LoadJoins(v))

FairSpec == Spec /\ Fairness

-----------------------------------------------------------------------------
Texts == {"posted", "edited", "deleted"}
Items == [msg : Messages, text : Texts]
Frames == [type : Kinds, kind : Kinds, msg : Messages]
Load == [at : {"no", "asked", "answered", "listed", "done"}, rows : Seq(Items)]

TypeOK ==
    /\ row \in [Messages -> [content : {"none", "posted", "edited"}, deleted : BOOLEAN]]
    /\ log \in Seq(Messages)
    /\ send \in [Messages -> {"new", "flushed", "committed", "sent", "answered", "failed"}]
    /\ edit \in [Messages -> {"no", "loaded", "committed", "done", "failed"}]
    /\ delete \in [Messages -> {"no", "committed", "done", "failed"}]
    /\ handed \subseteq Tasks /\ pending \subseteq Tasks
    /\ delivered \subseteq Tasks /\ dropped \subseteq Tasks
    /\ listener \in {"up", "down"} /\ lost \in 0..MaxListenerCrashes
    /\ inbox \in Seq(Frames) /\ Len(inbox) <= MaxInbox
    /\ socket \in {"connecting", "open", "closed"} /\ closes \in 0..MaxCloses
    /\ joined \in {"no", "asked", "yes"}
    /\ handlers \in BOOLEAN /\ here \in BOOLEAN
    /\ load \in [Visits -> Load] /\ view \in Seq(Items)

\* The page never lists a message twice, though a message reaches it from the
\* history, from the answer to its sender and from frames that the queue may
\* repeat.
NoDuplicateInView ==
    \A i, j \in DOMAIN view : view[i].msg = view[j].msg => i = j

\* Nothing is announced or shown that a rolled back transaction takes away:
\* what is queued, on its way or on the page is a committed row.
ShownIsCommitted ==
    /\ \A t \in pending : Committed(t.msg)
    /\ \A i \in DOMAIN inbox : Committed(inbox[i].msg)
    /\ \A i \in DOMAIN view : Committed(view[i].msg)

\* A deletion is final, whatever edit was under way (messages.py:222-226).
DeletionIsFinal ==
    [][\A m \in Messages : row[m].deleted => row'[m].deleted]_vars

\* A message that is queued while the page is open and in the room's set is
\* shown, unless the page, the socket or the listener goes away or the queue
\* gives the task up.
Watching == here /\ handlers /\ joined = "yes" /\ listener = "up"
LiveDelivery ==
    \A m \in Messages :
        (Watching /\ Task("message", m) \in pending \ delivered)
            ~> (~ Watching \/ Task("message", m) \in dropped \/ Shows(view, m))
=============================================================================
