# Verification of the webchat

TLA+ models of the webchat in this repository (`backend/`, `frontend/`), the
TLC configurations that check them on small instances, and proofs, checked by
TLAPS, that hold for every instance. Paths are relative to the repository root;
`app/` stands for `backend/app/`, `endpoints/` for
`backend/app/api/v1/endpoints/`, `ui/` for `frontend/src/`.

    tlc -config rooms.cfg MCRoomMembership.tla     # a run
    tlapm RoomMembershipProofs.tla                 # a proof

## 1. The system

Vue pages talk to a FastAPI application over HTTP and one WebSocket per tab.
The application runs as four uvicorn processes, each an asyncio loop with its
own `ConnectionManager`; PostgreSQL (READ COMMITTED, one session per request)
is the only thing they share for data, Redis for caches, presence and pub/sub.
Whatever must reach other people's pages goes

    HTTP handler --.delay--> Redis queue --> Celery process --publish--> Redis
       --> pub/sub listener of every uvicorn process --> sockets of a room,
       a chat or a user --> Pinia stores of the page

and nothing in that chain but the database row is durable.

| component | state | operations | talks to |
|---|---|---|---|
| room membership (`endpoints/rooms.py`) | `rooms`, `room_members`, `room_bans`, `room_invitations` | create, update, join, leave, delete, ban/remove, unban, grant, revoke, invite, accept | database, cache, queue |
| accounts (`endpoints/auth.py`) | `users` | register, change and reset password, delete account (cascades into everything) | database, cache |
| sessions and tokens (`endpoints/auth.py`, `app/core/security.py`, `ui/api/client.js`) | `sessions`; `localStorage` of the browser | login, refresh (rotation), logout, list, revoke | database, browser tabs |
| contacts and personal chats (`endpoints/friends.py`, `endpoints/messages.py`) | `friend_requests`, `friendships`, `user_bans`, `personal_chats`, `messages` | ask, accept, reject, unfriend, ban, unban, open, list, send | database, cache, queue |
| room message feed (`endpoints/messages.py`, `app/websocket/manager.py`, `ui/stores`, `ui/views`) | `messages`; socket sets of a process; lists of a page | send, edit, delete, read; join and leave a set; load, append, update | database, queue, pub/sub, socket |
| task queue (`app/worker/`) | broker messages, processes | enqueue, take, publish, retry, acknowledge, restore | Redis |
| presence (`app/websocket/handler.py`) | count per process, Redis key (90 s), `users.presence` | connect, afk, active, disconnect | Redis, database, queue |
| cache (`app/core/cache.py`) | keys with a time to live | fill on read, delete on write | Redis |
| attachments (`messages.py`, `files.py`, `process_attachment`) | files on disk, `attachments` | upload, download, thumbnail | disk, database, queue |
| history pagination (`messages.py`, `MessageList.vue`) | none | page before a cursor | database |
| rate limiter (`app/main.py`) | counter per address | count, refuse | Redis |

The other parts (validation, user lookup, migrations, deployment, layout) keep
no state of their own; `PROJECT.json` lists them with the reason they are left
out.

### What is hard here

* **Check, then write.** A handler is a chain of `await db.execute` with
  Python checks in between and a commit at the end. Any two handlers interleave
  at each await, nothing is locked, and only constraints and cascades of the
  schema hold across handlers. A row that was loaded is written by primary key,
  whatever has become of it.
* **Legal calls in an unplanned order.** Invite, ban, accept; ask, ban, accept;
  two people who ban each other.
* **Two systems, one effect.** A commit and `.delay` are separate: a message can
  be stored and never announced; the other order would announce what is rolled
  back.
* **At-least-once, unordered.** Late acknowledgement repeats a task, retries
  overtake, four processes publish in any order.
* **Joining late, reconnecting, reloading.** The page reads history over HTTP
  and the rest over a socket, and nothing ties the two together.
* **One localStorage, many callers.** Every 401 refreshes on its own, with a
  token that works once and may be replaced at any await.
* **State per process.** Connection counts and socket sets are local to one of
  four processes.

`PROJECT.json` lists every such hazard at its line with the properties that
watch it.

### What makes each component correct

* *Rooms*: the owner stays member and administrator; nothing outlives its room
  or account; a private room is entered by invitation only; a flag reaches the
  row it was meant for; a banned user stays out.
* *Contacts*: friends have both agreed; chats and messages come about between
  friends with no ban; a ban ends the friendship and leaves the history
  visible.
* *Queue*: what is handed over is done at least once or given up on (after its
  last retry, or because the next one cannot be enqueued), whatever workers die.
* *Feed*: nothing appears twice; nothing appears that is not stored; deletion is
  final; what is queued while a page watches is shown there; edits reach the
  page, and so does what was missed offline (these two fail, section 3).
* *Sessions*: what was signed out or revoked stays so; a page keeps only tokens
  that were committed; a revocation takes hold within the life of an access
  token; nobody is logged out without cause.
* *Presence*: the status that was set last stands in both stores, unless another
  was being set; each process counts every open tab and no socket of a handler
  that is gone; whose tabs are closed goes offline; offline *only* when all tabs
  are closed (this fails, section 3).
* *Cache*: what is cached is as the database, unless it was read across a write;
  a cached private room is shown to members only; what is stale expires however
  often it is read.
* *Attachments*: a row has its whole file; `download_file` gives a file to members
  only; a task that is done has left the thumbnail.
* *Pagination*: pages neither skip nor repeat, whatever is written meanwhile;
  scrolling back reaches the start.
* *Rate limiter*: who stays below the limit is let in (this fails, section 3);
  within a window no more than the limit are let in, between two losses of the
  counter.

## 2. Modules

| module | models | composed with |
|---|---|---|
| `RoomPromise` | what a room promises, as if requests were instants | |
| `RoomMembership` | one room and the accounts | implements `RoomPromise` |
| `RoomMembershipProofs` | its theorems, the refinement among them | |
| `PairPromise` | what two people can rely on, as if requests were instants | |
| `Contacts` | one pair of people, their requests, bans and chat | implements `PairPromise` |
| `ContactsProofs` | its theorems, the refinement among them | |
| `Sessions` | the browser sessions of one user: localStorage, interceptors, refresh, sign-out, revocation | |
| `RateLimit` | the counter of one address | |
| `AuthProofs` | the theorems of `Sessions` and of `RateLimit` | `INSTANCE RateLimit` |
| `AtLeastOnce` | what `.delay` promises: the abstract queue | used by `MessageFeed` |
| `TaskQueue` | broker, worker processes, retries, crashes | implements `AtLeastOnce` |
| `TaskQueueProofs` | its theorems, the refinement among them | |
| `MessageFeed` | handlers, abstract queue, listener, socket and page of one member of one room | `INSTANCE AtLeastOnce` |
| `MessageFeedProofs` | its theorems | |
| `History` | scrolling back: cursor, answers and the list of the page | |
| `Presence` | the presence of one user: handlers, registries, Redis, database | |
| `PresenceProofs` | its theorems | |
| `CacheAside` | one cached key, the requests that fill it and those that delete it | |
| `CacheAsideProofs` | its theorems | |
| `Attachments` | uploads, thumbnails and downloads of one room | |
| `HistoryAndFilesProofs` | the theorems of `History` and of `Attachments` | |
| `MC*` | the instances for TLC: sets of endpoints, symmetry | |

`MessageFeed` uses the *abstract* queue, so its state does not carry slots,
retries and crashes; `TaskQueue` is shown, and proved, to implement it.

`RoomPromise` and `PairPromise` say what a user may rely on without knowing of
requests in flight: there every endpoint is one step with the guard its
documentation gives it, as far as races leave that guard standing. What they leave
out is as telling: a room promises nothing about the banned, and a pair not that
people are still friends at the instant a message is stored. The mappings
(`Promise` in `RoomMembership` and `Contacts`) read the committed tables, and what
was ever agreed or sent from the history variables.

### How handlers become actions

`RoomMembership` and `Contacts` share one form. A request in flight is a record
in `req`: its endpoint `op`, its caller and target, the *next* query it will do
(`pc`), and what the session has read so far. One action is the code from one
query to the next: the query, the checks after it, the early returns.
`HTTPException`, and any other exception, ends the request. The last action of
a handler is its commit with everything the commit does: flush, constraints,
ORM and database cascades; if a constraint refuses, nothing changes, as the
transaction rolls back. The first action includes the session check of
`get_current_user` and the first query; where the code would raise there, it
does nothing observable, and the action is disabled.

Details of the code that the models keep, because properties depend on them:

* Rows have identities (`Rows`, `Asks`). `DELETE` of a vanished row does
  nothing; `UPDATE` of a vanished row fails the request; a deleted and
  re-inserted row is another row.
* The ORM writes only changed attributes, and compares with the value *loaded*:
  granting what was already granted writes nothing, accepting an accepted
  request leaves its status alone (`SetAdmin`, `SetStatus`).
* A row that is in the session already keeps its attributes when it is read
  again (`LoadMember`).
* `User.owned_rooms` has no cascade, so an owner's account deletion fails
  (`DeleteAccountLoadRooms`); a room that appears after that query goes by the
  database's own cascade.
* `scalar_one_or_none` raises when it finds two rows (`LookupRaises`).
* In `ban_member` the deletion of the membership may be flushed before the last
  query of the same transaction; no other transaction sees it before the
  commit, so the model writes it there.

### TaskQueue

A broker slot is free, queued or unacknowledged; a process rests or holds one
slot. `Take`, `Publish`, `PublishFails`, `Retry`, `RetryFails`, `Ack` are the
life of one message under `task_acks_late`; `Crash` ends the process between any
two of them; `Restore` is `task_reject_on_worker_lost` and the visibility timeout,
which is taken to be longer than a task. `Retry` enqueues the next try before
the failed one is acknowledged, which is where copies multiply. The broker is the
Redis whose `publish` has just failed, so the enqueueing may fail too: then
`self.retry` raises `Reject`, and the task is given up on before its last retry
(`RetryFails`, `dropped`).
`broadcast_message`, `broadcast_presence` and `notify_user` are the same
protocol. The retry delay is "some time": it is constant in the code, and no
property depends on its length.

### MessageFeed

Each message has up to three handlers: `send` (flush, commit, enqueue), `edit`
(load, commit, enqueue) and `delete` (commit, enqueue), each of which may fail
in between. `Publish` puts a frame into `inbox` (what Redis pushed to the
listener) if the listener is up; `Dispatch` is `_pubsub_listener` with
`_dispatch`, the socket and the page's `on('message')` handler: frames on one
socket keep their order. `load[v]` is the v-th run of `RoomView.load()`: asked,
answered, listed (`loadRoomMessages` has replaced the list), then `join_room`.
`OnSent` is the answer to the member's own message. `History` is the set of
answers that the query allows; it has one element, the committed rows numbered
in their order (`Numberings`), a form that can be reasoned about without
induction over sequences. The payload's `kind` and the
frame's `type` are two fields, because `broadcast_message` and the listener
rename the one into the other.

### Sessions

`rows` is the table `sessions` of one user, `store` the localStorage of each
browser, which its tabs share. A refresh token is a JWT of user and expiry in
whole seconds, so it is the second it was made in: tokens of one second are
equal, and the column is unique (`MayHold`). A record of `req` is one call with
the interceptors around it: `sent`, then served, or on a 401 `refresh`
(the stored token is read there and then), `loaded` (the handler has its row and
has made the new pair), `answered` or `refused`, and back to `sent` with
`retried` set. `RefreshCommits` updates by primary key, whatever token the row
holds by then; it fails if the row is gone or the token collides, and leaves the
column alone when old and new token are equal, as the ORM does. `LogoutCommits`
deletes by token, so a token that was replaced deletes nothing. `TurnedOut` is
the interceptor's `catch`. `Lose` is the network, `CloseTab` a page that goes
away while its handler runs on. `Serve` includes the endpoint: for
`DELETE /auth/sessions/{id}` the deletion of the row.

### Presence

A handler is at a call of `_set_presence` (`get`, `set`, `load`, `commit`, or
`renew` where Redis already holds the status), at `broadcast_presence.delay`
(`tell`) or in its loop; `leg` says what comes after the call. `Connect` is
`accept`, `manager.connect` and the first call; `Event` is "afk" and "active";
`NoticeClosed` is the `finally` block, whose `disconnect`, count and call follow
each other without an await. `registry` is `_user_sockets` of each process, and
nothing else is shared but Redis and the column. The ORM writes the column only
if it differs from the value loaded. `CallFails` is any await that raises: in the
loop it leads to the `finally` block, in the `finally` block it ends the handler,
and in the first call, which is made *before* the `try`, it leaves the socket in
the registry (`leaked`) until a send fails (`Discard`). `Crash` takes a process
with its registry, `Forget` is the 90 s of the key or its eviction. `last`,
`clean` and `alone` are history: who set a status last, and whether another
status was being set at the same time.

### CacheAside

A behaviour is about one key (`Init` chooses it), as no request reads two. The
database is a version per *fact*; `Queries` gives for each key the queries that
its reader makes, in order, with the facts they read, and `Writes` gives for
each endpoint the facts it changes and the keys it deletes. A reader goes through
`get`, its queries, `set` and `serve`, with the membership check where the code
has it: before the cache in `list_members`, after a hit or between the queries in
`get_room`. A writer commits and then deletes, except `delete_account`, which
deletes first. Every call to Redis may fail silently, the key may be evicted, and
`left` is its time to live. `excused` marks what the design cannot keep fresh: an
entry of a reader that was under way when a write deleted, and one that Redis
failed to delete.

### Attachments

`upload` goes through `_load_message`, the opening and the writing of the file,
the commit of the row (refused by the foreign key when the message is gone),
`db.refresh` and `.delay`; `UploadFails` stops it anywhere. `task` is
`process_attachment`: row and file are looked up, `img.save` is not atomic
(`partial`), any exception retries or, after the last try or when the next one
cannot be enqueued, gives up; a lost process is restored. `download` is the
four looks of `download_file`, each at what is committed by then, while members
come and go and the room is deleted with all its rows. No action removes a file,
because no code does. `seen` is history: the caller has been a member at some
moment of the request.

### History

`Flush` gives a message its `created_at` from a clock that may stand still,
`Commit` makes it visible, in any order of messages. `Page(rows, before)` is the
query with the composite cursor as a relation: the rows are in order, they are
among what was `Asked` (`BeforeCursor`), and whatever was asked for and is left out
is older than all of them, while they are as many as the limit. There is exactly
one such answer, as (`created_at`, `id`) is a total order. `Open`, `Leave`, `Scroll`, `FirstPageArrives`,
`OlderPageArrives` and `Hear` are the page: the answer of `load()` replaces the
list, an older page is put before whatever the list is by then, and
`loadingMore` belongs to one `MessageList`, which is made anew with the page but
not when only the room changes. `Fails` leaves `loadingMore` set, as `loadMore`
has no `finally`. `paged`, `base` and `crossed` are history: which part of the
list came in pages, what was stored when the list was loaded, and whether a page
was put before a list that it was not asked for.

### RateLimit

`Count` is the `MULTI` with `INCR` and `EXPIRE`, which every request sends;
`Answer` compares with the count that this request got; `Tick` is time.
`RedisFails` comes before the transaction or after it, when only the answer is
lost. `Lose` takes the counter away before its time: Redis evicts any key when it
is full and keeps nothing across a restart (`docker-compose.yml:31-36`). `load`,
`life` and `resets` are history: how many requests, this one included, were
counted within the last window, and how often the counter had been lost by then.
Of the limit that the documentation gives, one half fails (section 3). The other,
that no more than the limit are let in within a window, is proved for the requests
that were counted between two losses (`WithinLimit`); each loss lets another
`Limit` through.

## 3. Runs

Passing runs:

| run | instance | states | what it shows |
|---|---|---|---|
| `rooms` | 2 users, 2 concurrent requests, 2 row keys, every endpoint | 490 000 | `OwnerIsAdmin`, `NoOrphanRows`, `PrivateByInvitation`, `GrantReachesLoadedRow` under every interleaving of two handlers, and the refinement `Implements` of `RoomPromise` |
| `contacts` | the pair, 2 concurrent requests, 2 friend requests ever, 2 row keys, every endpoint | 615 000 | `MutualConsent`, `MessageBetweenFriends`, `ChatBetweenFriends`, and the refinement `Implements` of `PairPromise` |
| `sessions` | 2 browsers, 2 concurrent calls, 2 sessions ever, 1 loss, 3 seconds | 3 700 000 | `EndedStaysEnded`, `StoredWasCommitted`, `RevocationTakesHold` |
| `queue` | 2 tasks, 2 processes, 5 slots, 1 retry, which may fail to be enqueued, 1 crash | 115 000 | `NoTaskLost`, the refinement `Implements`, and `EveryTaskSettles` |
| `feed` | 1 message of the member's own that is edited and deleted, 1 visit | 970 000 | `NoDuplicateInView`, `ShownIsCommitted`, `DeletionIsFinal`: races and failures of handlers against loading and repeated frames |
| `feed_live` | 1 own message, 2 visits, 1 lost socket, 1 listener crash | 112 000 | `LiveDelivery`, with everything that may go away |
| `presence` | 2 tabs on 2 processes, 1 crash, failed call or lost key | 370 000 | `LastStatusStands`, `CountIsRight`, `GoneGoesOffline` |
| `cache` | every key and endpoint, 2 readers, 1 writer, 2 writes, entries of 2 units, private room | 930 000 | `StaleOnlyByOverlap`, `MembersOnly`, `StaleEntriesGo` |
| `files` | an image and another file, 2 people, 2 retries, 2 faults | 640 000 | `RowHasFile`, `ServedToMembers`, `DoneMeansThumb` |
| `history` | 3 messages, pages of 1, 3 requests of the page, 2 instants | 476 000 | `NothingSkipped`, `PagesInOrder`, `ScrollReachesStart` |

Runs that find a disagreement between the code and what it says of itself:

| run | property | what happens |
|---|---|---|
| `rooms_ban_invited` | `BannedCannotRejoin` | an invitation from before the ban is accepted after it; no step looks the ban up |
| `limiter_slow_client` | `RefusedOnlyAboveLimit` | a client that stays below the limit in every minute is refused: each request renews the expiry of the counter, the refused ones too |

`BannedCannotRejoin` also fails in a pure race, with two requests: `join_room`
passes its ban check, the ban commits, the join commits. The same shape is in
`edit_message`, which tests `is_deleted` when it loads the row: an edit can put
text into a row whose deletion has committed meanwhile (`DeletionIsFinal`, which
does hold, says that it stays deleted all the same).

### Known from the models, without a run of their own

*Rooms and accounts.* The account of a room's owner cannot be deleted
(`DeleteAccountCommit`: the ORM nulls `rooms.owner_id`, and the whole deletion
fails at `auth.py:161`).

*Contacts.* A friend request from before a ban is accepted after it: nothing in
`accept_request` looks bans up, so a friendship can stand under a ban. Two people
who ban each other lose the list of *all* their chats to an internal error
(`LookupRaises`); `ChatLayout.vue:48` awaits that list before it registers its
socket handlers, so the page also gets nothing live. Two racing friend requests
leave two pending ones (`friends.py:49`).

*Sessions.* Two calls of a browser get a 401 together; the second refresh brings
the token that the first has replaced, is refused, and removes the fresh tokens
(`TurnedOut`). The same happens when the answer of a refresh is lost
(`client.js:25`) or the limiter answers it with 429, as every failure counts as a
refusal. A sign-out that races a refresh deletes nothing (`LogoutCommits` deletes
by token), and a second sign-in or refresh within one second fails on the unique
column (`LoginCollides`, `RefreshFails`).

*Queue.* A task whose retry cannot be enqueued ends there, whatever retries it had
left, and nobody is told (`RetryFails`, `tasks.py:53`).

*Feed.* An edit arrives as a frame of type `message` and is dropped as a
duplicate (`OnFrame`), and a deletion names no message in that form: neither
reaches an open page. After a reconnect nobody joins the room or loads what was
missed (`SocketOpens`). What is published after the history was read and before
`join_room` (`RoomView.vue:89`) is missing until the page is opened again. The page
lists messages in the order the tasks were
published in, not in that of the log (`Publish` takes any task).

*Presence.* "Offline only when all tabs are closed" (`README.md:204`) fails in two
ways. The count is per process: closing the last tab on one process sets the user
offline while a tab on another is open (`handler.py:127`). And on a single process,
without any fault:

1. The handler of the closed tab counts 0 sockets and begins
   `_set_presence("offline")`.
2. A tab opens on the same process; its handler finds the old "online" in Redis
   (`handler.py:34`) and only renews it (`handler.py:47`).
3. The first handler goes on and writes "offline" to Redis and to the database.

The process then counts an open tab whose user is offline in both stores, until
that tab sends "afk" or "active". `CountIsRight` says how far the code is right, the
count; `LastStatusStands` excuses the overlap (`clean`), as it does two *different*
statuses that are set at once, which may leave either of them, or one in Redis and
the other in the database. A socket whose first call failed is counted until a send
to it fails (`leaked`, `handler.py:69`), and nothing else says offline then. A process
that dies leaves its users online, as nothing else ever says offline
(`manager.py:101`); `GoneGoesOffline` excuses exactly that, a leaked socket, and
a status that was being set at the same time or failed half way.

*Cache.* `delete_account` deletes from the cache before it commits: the profile
can be cached again in between and outlive the account by its time to live
(`AccountDeletes`). The friend lists of others and the rooms that the account was
in are not deleted from the cache at all. `StaleEntriesGo` bounds both.

*Attachments.* `nginx/nginx.conf:62-67` serves the directory `/uploads/` as it is,
without asking who wants a file: `ServedToMembers` speaks of `download_file` alone.
No file is ever removed from disk, although `README.md:514` says
"On-disk files removed when room deleted" (`DeleteRoom`). A file can be uploaded
to a message that is deleted (`LoadMessage` looks at the author alone), by an
author who has left the room. `MessageInput.vue` sends the message first and
uploads then, so the broadcast shows the message without its attachment, and
nothing announces the attachment afterwards.

*Limiter.* A counter that is lost starts again, and another `Limit` requests of the
same minute are let in (`Lose`).

*History.* A load of older messages that fails leaves `loadingMore` set, and that
list loads no more (`Fails`). An older page that arrives after the list was
replaced is put before it all the same (`crossed`), and messages can then appear
twice or out of order: `appendMessage` compares, `OlderPageArrives` does not.

Every property of a passing run has a mutant in its module, an operator named
`<definition>_<error>` with a comment `Error: ...`, which a plausible bug in the
mapped code would amount to, and under which the run fails.

### Bounds, and why they are enough

* *Two requests.* Every property relates one handler to what others change
  between two of its steps, and a slot is used again as soon as its request
  ends: between two steps of one request the other slot carries out any
  sequence of complete requests. The theorems cover any number.
* *Two users.* Owner and member, banner and banned, inviter and invitee. Three
  distinct people matter only to `NoOrphanRows` (inviter, invitee, owner), where
  the theorem has no bound.
* *Row keys*, as many as requests, so that a fresh key always exists; a key is
  reused only when no session holds it. *Two friend requests ever* in
  `contacts`: enough for two racing ones, and for a rejected and a new one.
* *Queue*: five slots are more than two tasks with one retry and one crash can
  fill, so no step waits for a slot that the real broker would have. One retry
  and one crash reach the cases that matter, a crash between the enqueueing of
  the retry and the acknowledgement, and a retry that is not enqueued while
  another copy of its task is in the broker. How often publications and retries fail has no bound.
* *Sessions*: time only orders expiries, so the shortest lifetimes that still
  differ will do: an access token lives out the second it was made in, a refresh
  token one second more, and three seconds hold a sign-in, a refresh after an
  expiry, and a refresh token that has expired. Two calls are two racing
  refreshes, or a refresh against a sign-out, a sign-in or a revocation; one
  loss can fall anywhere.
* *Feed*: one message reaches the page by four ways (history, own answer, frame,
  repeated frame), which is what duplicates need.
  `MaxInbox` bounds what Redis has pushed: beyond it the queue waits.
* *Presence*: two tabs are two handlers that race on one process, or one handler
  on each of two processes; one fault of any kind falls anywhere. A second fault
  would only end a second handler the same way. The theorems have no bound.
* *Cache*: a stale entry needs a reader across a write and another that uses the
  entry; two writes leave an entry that is stale twice; a life of 2 tells an
  entry that was renewed from one that was not. `Private = TRUE` is the room with
  more checks; in a public room `MembersOnly` asks nothing of `get_room`.
* *Files*: an image and another file take the two branches of the task; two
  faults reach a process lost while it repairs what another left behind.
* *History*: with pages of one every message is a page boundary, and three
  messages with two instants have equal times on both sides of a boundary and
  commits that overtake flushes; three requests are a first load and two pages,
  or two loads and a page between them.
* *Limiter*: a limit and a window of 2 with four requests and one loss, as only
  the order of expiry, losses and requests matters.

`CHECK_DEADLOCK FALSE` wherever the system may really stop: rooms and accounts
end for good, and tasks, visits and messages are finite.

### Fairness

* `TaskQueue`: a live process goes on with its task and takes the next one, and
  the broker hands out, acknowledges and restores messages. Callers need not call,
  and no publication and no retry need succeed: fairness is on "retried or given
  up on". Crashes are bounded.
* `MessageFeed`: a request that has begun runs to its end (the handler has no
  waits but the database), the queue settles what it was given (which is
  `EveryTaskSettles`), the listener restarts after 2 s (`manager.py:69`), the
  socket after 3 s (`socket.js:46`). Nothing makes anybody write, open a page or
  stay on it. Handlers may still fail: fairness is on the disjunction of steps.
* `Presence`: a handler that has begun a call goes on (weak fairness of its
  steps), and a handler whose tab is gone notices (strong fairness, since events
  the tab had sent before may come first; they are finite, and a ping after 30 s
  of silence fails on a closed socket). Nobody opens, uses or closes a tab.
* `CacheAside`: time passes. Requests may stop anywhere.
* `History`: requests are answered and answers arrive, and the reader who stays
  goes on scrolling up. That is the premise of "scrolling reaches the start", not
  a promise of the code; a failed load is an excuse.
* The other modules have safety properties only, and no fairness.

## 4. Proofs

For any sets of users, requests, rows, friend requests, browsers, sessions,
tasks, workers and slots, any token lifetimes, and any choice of endpoints and
of cached keys:

| theorem | property |
|---|---|
| `TypeCorrect`, `OwnerStaysAdmin`, `RowsNeverOrphaned`, `PrivateRoomsByInvitation`, `GrantsReachTheirRow`, `RoomKeepsPromise` | `RoomMembership`: `TypeOK`, `OwnerIsAdmin`, `NoOrphanRows`, `PrivateByInvitation`, `GrantReachesLoadedRow`, `Implements` |
| `ContactsTypeCorrect`, `FriendsAgreed`, `MessagesBetweenFriends`, `ChatsBetweenFriends`, `PairKeepsPromise`, `ContactsNeverOrphaned` | `Contacts`: `TypeOK`, `MutualConsent`, `MessageBetweenFriends`, `ChatBetweenFriends`, `Implements`, `NoOrphans` |
| `SessionsTypeCorrect`, `EndedSessionsStayEnded`, `StoredTokensWereCommitted`, `RevocationIsBounded` | `Sessions`: `TypeOK`, `EndedStaysEnded`, `StoredWasCommitted`, `RevocationTakesHold` |
| `QueueTypeCorrect`, `QueueLosesNothing`, `QueueImplementsPromise` | `TaskQueue`: `TypeOK`, `NoTaskLost`, `Implements` |
| `FeedTypeCorrect`, `NothingTwice`, `OnlyCommitted`, `DeletionStays`, `HandlersAreNeverRefused` | `MessageFeed`: `TypeOK`, `NoDuplicateInView`, `ShownIsCommitted`, `DeletionIsFinal`, `NeverRefused` |
| `PresenceTypeCorrect`, `SocketsAreCounted`, `LastStatusHolds` | `Presence`: `TypeOK`, `CountIsRight`, `LastStatusStands` |
| `FilesTypeCorrect`, `RowsHaveFiles`, `FilesServedToMembers`, `DoneTasksLeaveThumbs` | `Attachments`: `TypeOK`, `RowHasFile`, `ServedToMembers`, `DoneMeansThumb` |
| `HistoryTypeCorrect`, `PagesSkipNothing`, `PagesAreOrdered` | `History`: `HistoryTypeOK`, `NothingSkipped`, `PagesInOrder` |
| `LimiterLimits` | `RateLimit`: `WithinLimit` |
| `CacheTypeCorrect`, `StaleByOverlapOnly`, `MembersOnlySee` | `CacheAside`: `TypeOK`, `StaleOnlyByOverlap`, `MembersOnly` |

Of these, `NeverRefused`, `NoOrphans` and `WithinLimit` are stated only here and are
in no run: `NoOrphans` follows from `Implements`, `NeverRefused` is what lets
`MessageFeed` use the abstract queue, and `WithinLimit` is the half of the documented
limit that stands.

Assumptions: `None` is no user, key, process, socket, status or file, and `Nothing`
no message and no request; the endpoints and keys in use are among the modelled
ones; a pair is two people; images are files; the messages that are sent, edited or
deleted are messages; ids of messages are numbers; a page has room for a message;
bounds are natural numbers. All are evaluated by TLC in the runs.

*Rooms.* None of the safety properties is inductive: they say nothing of the
requests in flight. Each is strengthened with what a request may still do.
`OwnerInv` adds `SparesOwner`: no departure in flight is the owner's, no ban or
revocation past its owner check is aimed at the owner (owners never change, so
the check cannot become stale), and before the room exists there are only
creations and account deletions. `PrivateInv` adds that whoever is about to
enter has been invited or the room is public. `GrantInv` says that a grant in
flight was begun by the owner of the room, who never changes; with it, the rest
of `GrantReachesLoadedRow` is that no other commit raises a flag in a room that
exists. The proofs go handler by handler, through one lemma for steps that only
move a request and one for commits. For `RoomKeepsPromise` these invariants
together (`SoundInv`) give each commit the guard of its step in `RoomPromise`, and
every query of a handler stutters there: that the handlers interleave cannot be
seen from outside, but for what the promise leaves out.

*Contacts.* One invariant for all five, `ContactsInv`. `Sound` says what a
request in flight has established: the friend request being answered was sent
by the other person and vanishes only with an account; the key of a request
being inserted is in no other hand (`KeysDiffer`); and a `send` or `open` past a
check has *witnessed* what the check asks for, where `witnessed` collects the
facts that have held since the request began. A message or a chat keeps what
its handler had witnessed. `PairInv` adds what `PairKeepsPromise` asks at the
commits: a witnessed friendship is one that both had agreed to
(`WitnessesAgreed`), and whoever is about to store a message has found a chat,
which no step removes (`SendersHaveChat`).

*Sessions.* `TypeInv` adds what a call carries in which phase. `SafeInv` adds
that the token of a row is in its history (`RowsIssued`), that a call that has
loaded a session carries a token of it, that an answer carries a committed
token, and that every access token in a store, a header or an answer is `Old`:
not younger than the end of its session. The last is what bounds a revocation. A
step moves time, ends and histories one way (`Onward`), under which everything
of that kind is preserved, so each action need only show it of what it changes.

*Limiter.* `LimiterInv`: while a request that was counted since the last loss is
less than a window old, the counter cannot have expired, so the requests of the last
window that have one `life` have different counts (`Numbered`), and those let in
have counts up to the limit (`PassedAreLow`). Those of one life map one to one into
`1..Limit`, hence are no more than `Limit`.

*Queue.* `QueueInv` adds to `NoTaskLost` that a busy process holds an
unacknowledged message and no two hold the same (`Holding`, `OneHolder`), and
`AckIsSafe`: a message about to be acknowledged is of a task that is published,
given up on (after its last try, or as its retry failed), or continued in the
broker by a message with more tries. The order of
tries is what makes it inductive: a copy that is acknowledged points to one with
strictly more tries, so copies cannot vouch for one another in a circle.
`QueueImplementsPromise` maps every step to a step of `AtLeastOnce` or a
stutter, under the same invariant.

*Feed.* `IInv` adds to the properties that a handler past its commit has a row
and one before it has none (`RowsFollow`), that a message is logged once
(`LogOnce`), and that the answers under way to the page list nothing twice and
nothing uncommitted (`ListsOnce`, `AnswersCommitted`). `RowsFollow` is the order
of commit and enqueue, and makes whatever a handler hands over committed; rows
never vanish, so it stays so in the queue, in the inbox and on the page. The
proofs treat each way into the page's list (append, update, replace) in a lemma
about the operator, and each step by the part of the state it changes.
`HandlersAreNeverRefused` is why
the queue never holds a handler up: an announcement is made once, so what a handler
hands over is new to the queue (`Announced`).

*Presence.* Two invariants. `Listed` ties registries to handlers: a socket in a
registry has a living handler of that process, and one whose `finally` has begun
is in none (`ClosingIsUnlisted`). `Standing` is about the two stores: without
interference all calls under way are about the status set last (`SameStatus`); a
call that has been left alone finds in Redis what it wrote and has loaded what
the column holds (`AlonesHold`); and each store holds the last status or a call
is under way that will still write it (`Owed`). `SocketsAreCounted` adds to the first
that every open tab is in a registry (`OpenIsCounted`). The `finally` block takes
its socket out however it was reached, so the proof needs that a handler gets there
only when the socket is closed (`BrokenIsClosed`).

*Attachments.* `Inv` says how far the upload must be for each place that knows a
file: rows and downloads know only files written whole and committed
(`RowsStored`, `DownloadsStored`), a task only those of a finished upload
(`TaskAfterUpload`), and who is a member now while downloading has been seen
(`MembersSeen`). No step undoes what was written, so nothing that happens to rows
and rooms matters.

*History.* `HistoryInv`: what is committed has its time (`Stamped`), and times never
change, so neither does the order of committed messages; a request for an older page
that is still for the list at hand (`fresh`) has asked for what is before the first
message of the list. The head of the list that came in pages then covers what was
stored when the list was loaded, from its first message on (`Covers`), and an
answer, however late, covers the gap in front of it exactly.

*Cache.* `IInv` says of an entry, and of what each reader has found so far, that
it is `Fresh`: what is promised of it is what the database holds, or a write has
still to delete the key (`Pending`), or it is excused. A commit that changes a
promised fact is of an endpoint that deletes the key afterwards (`WritesAre`, the
table of the endpoints against the documentation), so it leaves a deletion
pending; the deletion that ends this excuses the readers that are under way.
What a reader carries from its first query to its second is why `Fresh` is stated
of parts of an entry (`ReaderFresh`), and `SeenOnce` says which places only
members reach. `CacheTypeCorrect` needs that no version passes the number of
commits (`Counted`).

Only model-checked: the liveness properties (`EveryTaskSettles`, `LiveDelivery`,
`GoneGoesOffline`, `StaleEntriesGo`, `ScrollReachesStart`), which the prover does
not reach, and the two violated properties.

## 5. What is not modelled, and the assumptions

* Rooms: the broadcasts after the commits, which are the queue's; the search and
  the sorting of the catalog. `update_room` appears where its effect is read, in
  the cache.
* Contacts: notifications and the list of pending requests. One pair: pairs meet
  only in the deletion of an account, which is there. That the account of a room
  owner cannot be deleted appears as a choice.
* Feed: one member of one room, who may read it throughout; replies, unread
  counters and typing, on which nothing else depends; personal chats, whose
  messages take the same way; leaving the room's set, opening another room. One
  deletion and one edit per message. The transit on the socket is part of
  `Dispatch`.
* Sessions: one user; wrong passwords; registration, password change and reset,
  which touch no session; the deletion of the account, which ends them all; a
  refresh whose connection breaks while its handler runs; a page that shows the
  login form although tokens are stored.
* Queue: priorities and routing; a broker that loses its data. Redis runs with
  `--save ""` and `allkeys-lru` (`docker-compose.yml:31-36`), so a restart of it, or
  a full memory, takes the queued tasks with it. `NoTaskLost` and `EveryTaskSettles`
  speak of a broker that keeps what it has, and of workers that die.
* Presence: who is told (`broadcast_presence` goes through the queue); the idle
  timer of the page, which decides when "afk" and "active" are sent: any tab may
  send either at any time.
* Cache: the contents of the entries; keys meet only in the deletions of one
  call. `cache_delete_pattern` is called by nobody.
* Attachments: names, sizes and types. A personal chat takes the same steps with
  its two participants for members, who never change.
* History: one room. A chat has the same query. Edits and deletions change no
  position; the rooms of other pages share only `loadingMore`, which `Open` keeps
  or resets.
* `app/schemas/` validates and formats single values; configuration, migrations,
  layout, input widgets and deployment keep no state of their own.
* PostgreSQL is taken at its word for READ COMMITTED, constraints and cascades,
  Redis for delivering to connected subscribers, for `MULTI` and, as the broker, for
  keeping its messages, uuid4 for never repeating. As a cache, as the store of
  presence and as the counter of the limiter it may lose any key.

## 6. What could follow

* Compositions: `Contacts` with `CacheAside` (the frozen chat is decided on the
  database alone), `MessageFeed` with the removal of the member, whose socket
  stays in the room's set.
* One specification of feed, broker and workers, with the steps of `TaskQueue` in
  place of those of `AtLeastOnce`.
* A run for the tab that opens while another closes (section 3), once the code
  counts again before it writes "offline".

Each new module brings one passing run; the runs that find disagreements keep
one representative per kind.
