------------------------------ MODULE History -------------------------------
(***************************************************************************)
(* Scrolling back through a room or a chat: get_room_messages and           *)
(* get_chat_messages with their cursor (messages.py), the list of the page  *)
(* (stores/chat.js), its first load (RoomView.vue) and the loads of older   *)
(* pages (MessageList.vue), while others write.                             *)
(***************************************************************************)
EXTENDS Naturals, Sequences

CONSTANTS
    Messages,  \* their ids, which are compared
    Requests,  \* requests of the page for messages
    Nothing,   \* no message, no request
    PageSize,  \* limit (50)
    MaxTime    \* bound on the clock

ASSUME MessagesAssumption == Messages \subseteq Nat /\ Nothing \notin Messages
ASSUME RequestsAssumption == Nothing \notin Requests
ASSUME PageAssumption == PageSize \in Nat \ {0} /\ MaxTime \in Nat \ {0}

VARIABLES
    clock,      \* the latest created_at
    time,       \* time[m]: created_at; 0 before the flush
    committed,  \* messages in the table
    open,       \* the page of the room is open
    joined,     \* frames of the room reach the page
    list,       \* chatStore.messages[roomId]
    loading,    \* the request behind loadingMore of the open MessageList
    req,        \* req[r]: a request of loadRoomMessages
    paged,      \* how many messages at the head of the list came in pages (history)
    base,       \* what was stored when the list was loaded (history)
    crossed     \* a page was put before a list that it does not belong to (history)

tableVars == <<clock, time, committed>>
listVars == <<list, paged, base, crossed>>
historyVars == <<tableVars, open, joined, listVars, loading, req>>

Unused == [at |-> "unused", before |-> Nothing, rows |-> <<>>, had |-> {}, fresh |-> FALSE]

\* The requests under way were made for another list or another MessageList.
Stale == [r \in Requests |-> [req[r] EXCEPT !.fresh = FALSE]]

HistoryInit ==
    /\ clock = 1
    /\ time = [m \in Messages |-> 0]
    /\ committed = {}
    /\ open = FALSE /\ joined = FALSE
    /\ list = <<>> /\ paged = 0 /\ base = {} /\ crossed = FALSE
    /\ loading = Nothing
    /\ req = [r \in Requests |-> Unused]

Elements(s) == {s[i] : i \in DOMAIN s}

-----------------------------------------------------------------------------
(* messages.py *)

\* db.flush: created_at is the clock of the process, which may or may not
\* have gone on since the last one.
Flush(m) ==
    /\ time[m] = 0
    /\ clock' \in clock..MaxTime
    /\ time' = [time EXCEPT ![m] = clock']
    /\ UNCHANGED <<committed, open, joined, listVars, loading, req>>

\* A transaction that rolls back is one that never commits.
Commit(m) ==
    /\ time[m] # 0 /\ m \notin committed
    /\ committed' = committed \cup {m}
    /\ UNCHANGED <<clock, time, open, joined, listVars, loading, req>>

Older(m, n) == time[m] < time[n] \/ (time[m] = time[n] /\ m < n)

\* Error: the cursor is the time alone.
BeforeCursor_ByTime(m, before) == before = Nothing \/ time[m] < time[before]

BeforeCursor(m, before) ==
    before = Nothing \/ time[m] < time[before] \/ (time[m] = time[before] /\ m < before)

\* A query without a cursor asks for the newest messages.
Asked(before) == {m \in committed : BeforeCursor(m, before)}
Ordered(rows) == \A i, j \in DOMAIN rows : i < j => Older(rows[i], rows[j])

\* The limit.
Lists == UNION {[1..n -> committed] : n \in 0..PageSize}

\* The newest of what was asked for, oldest first.
Page(rows, before) ==
    /\ Ordered(rows)
    /\ Elements(rows) \subseteq Asked(before)
    /\ \A m \in Asked(before) \ Elements(rows) :
          Len(rows) = PageSize /\ Older(m, rows[1])

Answer(r) ==
    /\ req[r].at = "asked"
    /\ \E rows \in Lists :
          /\ Page(rows, req[r].before)
          /\ req' = [req EXCEPT ![r].at = "answered", ![r].rows = rows,
                        ![r].had = IF req[r].before = Nothing THEN committed ELSE {}]
    /\ UNCHANGED <<tableVars, open, joined, listVars, loading>>

-----------------------------------------------------------------------------
(* RoomView.vue, MessageList.vue, stores/chat.js *)

\* Requests are interchangeable: a certain one is used next.
Upcoming(r) == req[r].at = "unused" /\ r = CHOOSE q \in Requests : req[q].at = "unused"

Ask(r, before) ==
    /\ Upcoming(r)
    /\ req' = [req EXCEPT ![r].at = "asked", ![r].before = before, ![r].fresh = TRUE]

\* load().  The MessageList is a new one, unless the page was of another room.
Open(r) ==
    /\ ~ open /\ open' = TRUE
    /\ Upcoming(r)
    /\ req' = [Stale EXCEPT ![r].at = "asked"]
    /\ loading' \in {loading, Nothing}
    /\ UNCHANGED <<tableVars, joined, listVars>>

Leave ==
    /\ open /\ open' = FALSE
    /\ UNCHANGED <<tableVars, joined, listVars, loading, req>>

\* Error: a list of one page is taken for the whole history.
Scroll_MoreThanAPage(r) ==
    /\ open /\ loading = Nothing /\ Len(list) > PageSize
    /\ Ask(r, list[1])
    /\ loading' = r
    /\ UNCHANGED <<tableVars, open, joined, listVars>>

\* Error: nothing keeps a second load from starting.
Scroll_Unguarded(r) ==
    /\ open /\ Len(list) >= PageSize
    /\ Ask(r, list[1])
    /\ loading' = r
    /\ UNCHANGED <<tableVars, open, joined, listVars>>

\* onScroll near the top of the list.
Scroll(r) ==
    /\ open /\ loading = Nothing /\ Len(list) >= PageSize
    /\ Ask(r, list[1])
    /\ loading' = r
    /\ UNCHANGED <<tableVars, open, joined, listVars>>

Used == [Unused EXCEPT !.at = "used"]
Use(r) == req' = [req EXCEPT ![r] = Used]

\* The answer to load() takes the place of the list; join_room follows, if the
\* page is still there.
FirstPageArrives(r) ==
    /\ req[r].at = "answered" /\ req[r].before = Nothing
    /\ req' = [Stale EXCEPT ![r] = Used]
    /\ list' = req[r].rows /\ paged' = Len(req[r].rows)
    /\ base' = req[r].had /\ crossed' = FALSE
    /\ joined' = (joined \/ open)
    /\ UNCHANGED <<tableVars, open, loading>>

\* Error: the page takes the place of the list.
OlderPageArrives_Replaces(r) ==
    /\ req[r].at = "answered" /\ req[r].before # Nothing
    /\ Use(r)
    /\ list' = req[r].rows /\ paged' = paged + Len(req[r].rows)
    /\ crossed' = (crossed \/ ~ req[r].fresh)
    /\ loading' = IF loading = r THEN Nothing ELSE loading
    /\ UNCHANGED <<tableVars, open, joined, base>>

\* [...data, ...messages], whatever the list is by now; the MessageList that
\* asked may load again.
OlderPageArrives(r) ==
    /\ req[r].at = "answered" /\ req[r].before # Nothing
    /\ Use(r)
    /\ list' = req[r].rows \o list /\ paged' = paged + Len(req[r].rows)
    /\ crossed' = (crossed \/ ~ req[r].fresh)
    /\ loading' = IF loading = r THEN Nothing ELSE loading
    /\ UNCHANGED <<tableVars, open, joined, base>>

\* The request fails.  Of load(): the page is left.  Of an older page: resolve
\* is never called, and this MessageList loads no more.
Fails(r) ==
    /\ req[r].at \in {"asked", "answered"}
    /\ Use(r)
    /\ open' = (open /\ req[r].before # Nothing)
    /\ UNCHANGED <<tableVars, joined, listVars, loading>>

\* appendMessage: the frame of a message, in any order.
Hear(m) ==
    /\ joined /\ m \in committed /\ m \notin Elements(list)
    /\ list' = Append(list, m)
    /\ UNCHANGED <<tableVars, open, joined, paged, base, crossed, loading, req>>

-----------------------------------------------------------------------------
HistoryNext ==
    \/ Leave
    \/ \E m \in Messages : Flush(m) \/ Commit(m) \/ Hear(m)
    \/ \E r \in Requests :
          \/ Open(r) \/ Scroll(r) \/ Answer(r)
          \/ FirstPageArrives(r) \/ OlderPageArrives(r) \/ Fails(r)

HistorySpec == HistoryInit /\ [][HistoryNext]_historyVars

\* Requests are answered and answers arrive; the reader goes on scrolling up.
HistoryFairness ==
    /\ \A r \in Requests : WF_historyVars(Answer(r) \/ FirstPageArrives(r) \/ OlderPageArrives(r))
    /\ WF_historyVars(\E r \in Requests : Scroll(r))

FairHistory == HistorySpec /\ HistoryFairness

-----------------------------------------------------------------------------
Request == [at : {"unused", "asked", "answered", "used"}, before : Messages \cup {Nothing},
            rows : Seq(Messages), had : SUBSET Messages, fresh : BOOLEAN]

HistoryTypeOK ==
    /\ clock \in 1..MaxTime /\ time \in [Messages -> 0..MaxTime]
    /\ committed \subseteq Messages /\ base \subseteq Messages
    /\ open \in BOOLEAN /\ joined \in BOOLEAN /\ crossed \in BOOLEAN
    /\ list \in Seq(Messages) /\ paged \in 0..Len(list)
    /\ loading \in Requests \cup {Nothing} /\ req \in [Requests -> Request]

\* Nothing is skipped (README.md:237): of the messages that were stored when
\* the list was loaded, those that are not older than its first one are all on
\* it, however many have the same time and whatever is written meanwhile.
NothingSkipped ==
    (~ crossed /\ list # <<>>) =>
        \A m \in base : m \in Elements(list) \/ Older(m, list[1])

\* The pages are in order and nothing is in them twice.
PagesInOrder ==
    ~ crossed => \A i, j \in 1..paged : i < j => Older(list[i], list[j])

\* A reader who stays and scrolls up sees everything in the end, unless a load
\* fails or the requests of the model are used up.
Shown == base \subseteq Elements(list)
Stuck == loading # Nothing /\ req[loading].at = "used"
ScrollReachesStart ==
    (open /\ joined) ~> (Shown \/ ~ open \/ crossed \/ Stuck
                         \/ \A r \in Requests : req[r].at = "used")
=============================================================================
