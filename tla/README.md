# Verification of yimsg

TLA+ models of yimsg, an instant-messaging system (Go server, TypeScript SDK,
web application, command-line client, auto-reply agent), with TLC runs and TLAPS
proofs. Paths below are relative to the repository root.

Contents: [inventory](#inventory) · [plan](#plan) · [modules](#modules) ·
[runs](#runs) · [fairness](#fairness) · [proofs](#proofs) ·
[divergences found](#divergences-found) · [abstractions](#abstractions) ·
[not modelled](#not-modelled)

## Inventory

The server keeps two kinds of SQLite shards. A *uid shard* holds what a user
owns: his messages, conversations, contacts, blocklist, mutelist, sessions. A
*group shard* holds a group and its members. One message is therefore written
once per recipient (a write fan-out), and no transaction spans two users. A
websocket connection is one goroutine that reads a request, runs its handler and
writes the answer; notifications go through a bounded channel of the connection.

| component | state | operations | hard behaviour | what makes it correct |
|---|---|---|---|---|
| Inbox (`server/internal/dal/message_store.go`, `conversation_store.go`, `helpers.go`) | `messages`, `conversations`, `messages_version.max_seq` of one user | Insert, UpdateByMsgID, DeleteByMsgID; Upsert, ClearUnread, Delete; retention purges; pages | transactions of several goroutines in any order; duplicates; tombstones | seqs are distinct and only grow; a text is not restored, a deletion is final; the conversation row follows the newest message |
| Sending and recalling (`service/message.go`, `message_recall.go`) | none of its own: the inboxes, the group's members, the task queue | send_message (direct, group), send_message with a recall body, delete_message, delete_conversation, clear_unread | each step is its own transaction; client retries; restart between two steps; one inbox of several fails | nothing acknowledged is lost; no message counts twice; sends and recalls converge in any order; a signal follows the write |
| Group membership (`service/group.go`, `dal/group_store.go`) | `group_info`, `group_member`, favourites | create, add, remove, update, page | the member list is read at another moment than the message is written | who is addressed; a system message reaches all |
| Task queue (`internal/taskqueue`) | `task_queue` table, a channel of 1024, workers | Open, Submit, Recover, RunPending, Close | restart with tasks in the channel; a full channel; Close against Submit | at-least-once execution |
| Online registry and connections (`internal/online`, `internal/ws`) | connections per user, 64 pending notifications each | Register, Unregister, Notify | a full channel drops; Unregister against Notify | a signal is a hint that cursors make up for |
| Incremental sync on the server (`service/sync*.go`, `contact.go`, `dal/contact_store.go`, `gc.go`) | rows with seq and status, `max_seq`, `gc_safe_seq` per table | version read, page, purge of tombstones, seq_too_old | a purge between the horizon check and the page | a replica that follows its cursor equals the table |
| Relations (`service/contact.go`, `blocklist.go`, `mutelist.go`) | contacts, blocklist, mutelist of two users | add, accept, reject, delete friend, block, mute | two users' rows in two transactions; check, then write | the two sides agree, or a retry repairs them |
| Garbage collection (`service/gc.go`) | retention windows, sessions | purges per shard | purge of a msg_id that is sent again | only what is outside the window goes |
| SDK persistent gateway (`packages/sdk/src/datagateway`) | local tables, one cursor and one rebuild flag per domain, the queue of notifications | background sync, sync on notification, reset and rebuild, deletions by id | two syncs of a domain interleave; a disconnect or the death of the process during a rebuild; deletions that overtake rows | the replica converges, the cursor never passes what was applied, every domain is reported |
| SDK session runtime (`packages/sdk/src/internal`, `state/lifecycle.ts`, `uikit/src/app/views/auth.ts`) | socket, timers, connection handlers, `connectPromise`, token, user, gateway, stored token | connect, login, authenticate, startSession, logout, kick, reconnect | timers against answers; calls that overlap at every await; requests that a close rejects | a ready session is whole; host, SDK and server agree on who is signed in; every call ends |
| SDK display-info cache (`packages/sdk/src/state/cache.ts`) | entries per scope in a bounded map, a bounded queue of ids to load, forced ids, a merge timer, the `displayinfo` table | read, forced read, flush, refresh, write-through of own changes, clear | loads of an old session answered in a new one; an own change against an answer on its way; full queue, eviction | one user's remarks are not shown to another; a forced read shows the newest name; names never go back |
| Bounded lists (`packages/uikit/src/app/bounded-list`, `views/chat`) | a window of whole pages, an overlay of local writes, one page request, a dirty mark | first page, continuation at either edge, eviction, refresh, catch-up, local upsert and removal | notices during a load; a late page of another query; an answer that overtakes the page with its row | the window is a slice of the source, or the user is told; nothing stays forgotten |
| Auto-reply agent (`agent/`) | scheduler state, persisted progress | poll, plan, reply | crash between reply and progress | at most one reply per message |
| Organisation directory (`service/org.go`) | organisation graph | sync | as incremental sync | as incremental sync |
| Accounts, sessions, ids, shards, configuration, uploads, plugins, CLI, web application | see `PROJECT.json` | | little concurrency | |

How they interact: a connection's goroutine calls the service; the service
calls the stores of one or more shards, the task queue and the registry; the
queue's workers call back into the service; the registry signals connections;
the SDK answers a signal with an incremental sync. The hazards this gives rise to, each
with its source line and the properties that cover it, are listed in
`PROJECT.json` under `hazards`.

Of the TypeScript code two fifths are a generated codec
(`protocol/generated/typescript/yimsg.ts`), and much of the rest is views,
translations and the thin methods of `client.ts`: text and forwarding, without
state that outlives a call. The state that matters is in the files named above.

## Plan

Most important first: messages, then what makes replicas agree, then the
client's session and what it shows, then the rest.

| part | modules | state |
|---|---|---|
| messages | `Inbox`, `Messaging`, `MessagingProperties`, `InboxLifecycle`; `MessagingProofs`, `FanoutProofs` | built, safety proved |
| incremental sync and the local replica | `LocalReplica`; `ReplicaProofs` | built, safety proved |
| bounded lists | `PageWindow`, `BoundedList`, `ListHost`; `ListProofs` | built, safety proved |
| session runtime | `Session`; `SessionProofs` | built, safety proved |
| display-info cache | `DisplayCache`; `CacheProofs` | built, safety proved |
| task queue and registry: their bounded channels, start and stop, lost and mute connections | `Delivery`; `DeliveryProofs` | built, safety proved |
| friend requests and blocks of two users | `Relations`; `RelationsProofs` | built, safety proved |
| retention purges, agent, directory | | to do, as far as they have state of their own |

Every safety property that a passing run checks is proved, two of `Messaging` for
executions without errors and restarts, as they are checked.

## Modules

| module | role | models |
|---|---|---|
| `Inbox` | operators, no variables | one user's rows and the SQL transactions on them |
| `InboxLifecycle` | abstract specification | what an inbox promises to its readers |
| `Messaging` | state machine, extends `Inbox` | requests, task queue, workers, edits, errors, restarts |
| `MessagingProperties` | properties, extends `Messaging` | invariants, action and liveness properties, the refinement mapping |
| `MCMessaging` | TLC constants and symmetry | |
| `MessagingProofs` | lemmas about `Inbox`; theorems about `Messaging`: types, numbering, refinement | |
| `FanoutProofs` | theorems about the fan-out of `Messaging`: what is acknowledged, removed, signalled, announced; conversation rows and unread counts; convergence | |
| `LocalReplica` | state machine | the server's tables as a client syncs them, the persistent gateway's sync loops and notification queue |
| `MCReplica` | TLC constants | |
| `ReplicaProofs` | theorems about `LocalReplica` | |
| `PageWindow` | operators | the window and the overlay of a bounded list |
| `BoundedList` | operators, extends `PageWindow` | the methods of `BoundedList` on a record |
| `ListHost` | state machine, extends `BoundedList` | the message list and the conversation list, their source, notices, user |
| `MCList` | TLC constants | |
| `ListProofs` | theorems about `ListHost` | |
| `Session` | state machine | transport, runtime and lifecycle of one client under the web kit's auth view |
| `SessionProofs` | theorems about `Session` | |
| `DisplayCache` | state machine | one scope of the display-info cache with its gateways and the local table |
| `CacheProofs` | theorems about `DisplayCache` | |
| `MCSession` | TLC constants; either of the two | |
| `Delivery` | state machine | the task queue's channel and workers, start and stop of the process, registry, one connection and its client |
| `MCServer` | TLC constants; `Messaging` or `Delivery` | |
| `DeliveryProofs` | theorem about the queue of `Delivery` | |
| `Relations` | state machine | requests, answers and blocks of two users |
| `RelationsProofs` | theorems about `Relations` | |
| `MCRelations` | TLC constants; `Messaging` or `Relations` | |

### Inbox

A box is `[max, rows, conv]`: `messages_version.max_seq`, the `messages` rows by
msg_id, the `conversations` rows by the other side (`NoUser` for the one
group). A row has its seq, its deleted flag and what its body is: `original`,
`placeholder` (the same msg_id overwritten by its recall body), `event` (the
recall's own message) or `system`. Each operator is one store method, which is
one transaction: `Insert`, `Mask` (UpdateByMsgID with a recall body),
`DeleteByMsgID`, `Upsert`, `ClearUnread`, `DeleteConversation`. `Insert` of a
known msg_id returns 0 and consumes no seq; `Upsert` replaces a row only by a
greater seq, and inserts a missing row whatever the seq.

### Messaging

An actor is a goroutine: one of `Requests` (a websocket connection's handler) or
of `Workers` (of the queue). `job[a]` is what it executes, with the stage of
its handler; `at[a][u]` is how far it is with `u`'s inbox:
`insert -> mask -> event -> touch -> done`, the calls of `applyGroupMessage`
and `applyRecallState` in their order and with their early exits
(`AfterInsert`). The inboxes of a fan-out are written by parallel goroutines in
`handleGroupMessageTask`, so one actor has several cursors.

| code | actions |
|---|---|
| `sendDM` | `StartSend`, `WriteInbox` of the sender (stage own), `TurnToPeer`, `WriteInbox` of the peer, `AnswerDirect` |
| `sendGroupMessage` | `StartSend` (membership check), `WriteInbox`, `ListMembers`, `Submit` |
| `recallViaSend`, `recallGroupMessage`, `applyRecallState` | `StartRecall` (checks on the caller's copy), `WriteInbox` with mask and event, then as above |
| `AddGroupMember` | `AddGroupMember` (row), `ListMembers`, `Submit` |
| `RemoveGroupMember` | `StartRemove` (list), `RemoveMember` (row), `Submit` |
| `Queue.SetAsync` worker, `handleGroupMessageTask`, `handleGroupSystemTask`, `Queue.run` | `Take`, `WriteInbox` per target, `Notify`, `RemoveTask` |
| `DeleteMessage`, `DeleteConversation`, `ClearUnread` | `DeleteMessage`, `RemoveConversation`, `ReadConversation` |
| a returned database error | `RequestFails` where the request ends with it, `WriteFails` where it is logged and the work goes on, `ListFails` where it is dropped, `RemoveFails` where it leaves the task to be replayed |
| process restart, `Recover` | `Restart`: actors and channel are gone, every stored task is dispatched |

`submitted` and `acked` are history variables for the properties; `attempts`,
`edits`, `faults`, `crashes` count against the bounds `MaxAttempts`,
`MaxEdits`, `MaxFaults`, `MaxCrashes`.

### InboxLifecycle

Per user and message a cell (absent, shown as something, gone) and a position;
steps are Arrive, Withdraw, Erase and Skip. `MessagingProperties!Lifecycle` maps
rows to cells, seqs to positions, `max` to the last position. That Messaging
implements it says: retries, replays, out-of-order tasks and deletions never
bring a text back, never insert a deleted message again, never move a message
but by its deletion, and never reuse a position.

### LocalReplica

A domain is a table of the server (`max_seq`, `gc_safe_seq`, rows with a seq and
a status), its local copy and a cursor. Its kind says which code it runs through:
`messages` (no horizon; a row is inserted by `applyMessageSyncBatch`),
`conversations` (`runIncrementalSync`, no rebuild), `relation` (contacts,
blocklist, mutelist: tombstones are purged, a cursor below the horizon is
answered seq_too_old). The two actors are `runBackgroundSync`, which walks the
domains in order, and the handler that `syncQueue` runs, one at a time; they share
tables, cursors and rebuild flags.

| code | actions |
|---|---|
| a store's write with `bumpVersion`, `purgeUserSeqRows` | `Put`, `Remove`, `Receive`, `Delete`, `Purge` |
| `sync_*` handlers | `CheckHorizon`, `ReadPage`: two reads, a write may come between |
| `runIncrementalSync`, `runMessagesSync`, `syncDomainPage`, `runSyncStage` | `Begin`, `Reset`, `Apply`, `Reject`, `EndBackground` |
| `enqueueSync`, `drain`, the handlers of notifications | `Deliver`, `DeliverDeletion`, `Handle`, `HandleDeletions`, `HandlerDone`, `NextNode` |
| timeout, error answer, closed tab, killed process | `Fail`, `Restart`, `Die` (between a page's rows and its cursor) |

Continuations of resolved promises run before the next frame is handled
(`Settled`).

The history variable `exposed` names three windows in which the code does not
keep the promise; the properties exclude a replica that went through one, and
nothing else. *Reset overlaps*: one actor clears a table while the other is between two
pages of it, whose next page then moves the cursor past rows that were
cleared. *Unguarded purge*: tombstones go between the horizon check and the page, or
during a rebuild, where no horizon is checked. *Late deletion*: a deletion by id
is handled after a newer row with that key arrived. See
[divergences](#divergences-found).

### PageWindow, BoundedList, ListHost

`PageWindow` has the window (a set of whole pages, each with the cursors of its
ends, and whether the source has more beyond either edge) and the overlay (local
upserts and removals on top of it, until a first page settles them).
`BoundedList` is the class as a record with one operator per method, in the
order of its assignments: `RunFirstPage`, `Reset`, `Refresh`, `CatchUp`,
`LoadPage`, `Invalidate`, `Decide`, `UpsertLocal`, `RemoveLocal`, `Scrolled`,
`Landed`. A call in flight carries what it was issued with; one that a newer
generation has made obsolete is dropped when the generation advances, since it
lands without effect.

| code | actions of ListHost |
|---|---|
| `getMessageList`, `getConversationList`, `fetchByIdentity` | `Serve` (`Slice`, `Around`), `Land`, `FailCall` |
| `scheduleDecide`'s frame | `DecideFrame` |
| `refreshOpenConversation`, `refreshConversations`, `removeMessage` | `NoticeChanged`, `NoticeDeleted` |
| `invalidateBoundedLists` after a reconnect | `Disconnect`, `Reconnect` |
| `openConversation`, `jumpToMessageInConversation`, `resumeOpenConversation` | `OpenConversation`, `JumpToMessage`, `SwitchView` |
| `sendOptimistically` | `Send`, `ServeSend`, `SendAnswered`, `SendFails` |
| scroll events, the pill | `Scroll`, `Reach`, `ClickPill` |
| others' writes | `Write`, `Delete` |

The layout is reduced to whether the fresh edge is near and whether an edge is in
reach. The user chooses both freely by scrolling, and a repaint can change the first
as well. After most repaints the code decides again; after the removal of a visible
row it does not: the content shrinks, the scroll position stays, and the user may be
near the fresh edge without a scroll event (`RemoveLocal`, and `ToBottom` where he
was near already). `slid` remembers that this is how he came there. A dirty list may
then stay behind for good, so `CatchesUp` asks of it only that it goes on showing that
it is stale. (The conversation list moves its scroll position in the same repaint,
which makes an event; the model lets that event come or not.)

### Session

An action is one task of the event loop with every promise continuation it sets
off. A *flow* is a call of login, authenticate, logout, or the clean-up of a kick,
at the await where it is suspended (`Pcs`). `Fresh` is the client's state: the
transport's socket and reconnect timer, the attempts of `ensureConnected` (each
wraps the handler it finds and has a timer that puts that one back),
`connectPromise`, token, user, lifecycle state, installed gateway, and the kit's
stored token and view.

| code | actions and operators |
|---|---|
| `WsTransport` open, close, reconnect | `SocketOpens`, `SocketFails`, `SocketDrops`, `ReconnectTimer`; `Opened`, `Drop` |
| `ensureConnected` | `EnsureConnected`, `Attempt`, `RunHooks`; `AttemptTimer` |
| `login`, `authenticate`, `startSession` | `Answer`, `Authenticated`, `Initialize`, `StorageChecked`, `DatabaseOpens`, `DatabaseFails` |
| `logout`, rejected requests | `LogOut`, `SignedOut`, `Fail`, `RequestTimer` |
| session:kicked | `PasswordChanged`, `KickArrives`, `KickLeavesQueue` |
| the auth view | `LoginClicked`, `LogoutClicked`, `Reload` |

`exposed` becomes true in four windows in which a promise of the documents is
broken (sign-out during a persistent start, starts for two users at once, an
answer that a logout overtook, a login submitted twice). Three of the invariants
(`ReadyIsWhole`, `HostAgrees`, `ServedAsSelf`) are about behaviours that never
enter one; `ConnectionShown`, `FlowsEnd` and `StaysConnected` are about all.

### DisplayCache

`store` is the `ScopeStore` of one scope with the flush timer and the installed
gateway: the ids held in FIFO order, their entries, the queue of pending ids and
the forced ones. `rows` is the `displayinfo` table of each user's local database,
`source` the server's names. Neither an answer nor a row has a remark: remarks in
the cache are those made in this session.

| code | actions and operators |
|---|---|
| `getUserInfos` and `enqueue` | `GetInfos` (`Read`, `Ask`, `Enqueue`, `Refused`, `Schedule`) |
| `flushScope`, the gateways' `getUserInfos` | `FlushTimer` (`Flush`, `LoadLocal`, `ShowAll`, `LoadRemote`), without a gateway `FlushNothing` |
| `fetchUserInfosFromServer`, `collectSerialBatches` | `Fetch`, `Slice`, then `Answered` (`Left`, `NextFetch`) |
| `refreshUserInfos`, `updateDisplayInfos` | `Answered` (`Refresh`, `Told`, `Stored`) |
| `client-cache-updates.ts` | `ChangeInfo`, then `Answered` (`Confirmed`, `WriteThrough`) |
| `startSession`, gateway init, `logout` | `Login`, `InstallGateway`, `OpenDatabase`, `StartFails`, `Logout` |
| server, other clients | `Serve`, `ChangedElsewhere` |
| timeouts, expiry | `RequestFails`, `TimePasses` |

The loops over ids (`Read`, `ShowAll`, `LoadRemote`) are recursive functions of the
number of ids done, so that they can be reasoned about.

Two limits split what is asked for. The cache splits a flush into loads by the limit
it was constructed with (`size.batch`; `cache.ts:158`, `:612`), all of which are
started at once; the gateway splits a load into requests by the lower of that limit and
the server's (`size.request`; `client.ts:320`), each of which is sent when the one
before is answered. The answers of a load are applied together after the last request,
or lost together when one fails. So an early answer can be overtaken: the name changes
on the server, another load or an own change shows the new one, and then the old one is
applied over it. The code does this (see the divergences), and the two properties about
names except it as narrowly as they can: `Overtaken(q)` is the ids of which an earlier
request of the load `q` was told a name that the server no longer has when the load is
applied.

`InfosMoveForward` says what a step may not do to an id that is held before and
after it. A remark may still be lost while a load is shown: when the ids of a load
and those held do not fit into the cache together (`Overflows`), an id can be pushed
out by one of the load and come back by another, without its remark.

### Delivery

`Messaging` says what a task writes and `LocalReplica` how a client pulls; `Delivery`
abstracts both to one step and models what is between them: a task goes from the
submitter's hands through the queue's channel to a worker, whose signal goes
through the connection's channel and the socket to the client. All three hold a
fixed number of items; the first blocks, the second drops, the third blocks until a
deadline.

| code | actions |
|---|---|
| `Submit`, `dispatch` | `Persist`, `Dispatch`; `Panic` when the channel is closed in between |
| worker, handler, `run`, `remove` | `TakeTask`, `Write` (which may fail), `Finish` (with `Notified`; the removal may fail) |
| `main`: `Open`, `SetAsync`, `Recover`, listen | `Start` (`Recover` may fail), `Replay`, `Listen` |
| SIGTERM, `Close`; a kill | `Stop`, `Exit`; `Kill` |
| `Register`, `bindAuthAndDrain`, `Unregister` | `Register`, `SignedIn`, `Drain`, `Lose` |
| `sendFrame` past its deadline | `TimeOut`: the websocket library fails every later write, but the handler only logs and the read loop goes on, so the connection is `mute` |
| `handleNotification` of the client | `Hear` |

`waiting` is the tasks that this process has left to the next start (their row
could not be removed, their sender panicked, or `Recover` failed, which `main` only
logs); `missed` is the tasks whose last execution could not write the inbox, which the
handler logs and `run` takes for success; `lost` says that the connection
has lost a signal for which no later one makes up.

### Relations

`contact[u]` is u's row about the other user, `blocks` who blocks. A request is a
goroutine at one of its reads or transactions (`Stages`): `isEitherWayBlocked` is two
reads, then the caller's row, then the other's.

| code | actions |
|---|---|
| `AddFriend`, `AcceptFriend` | `Receive`, `CheckBlocks` twice, `WriteMine`, `WriteTheirs` |
| `RejectFriend`, `DeleteFriend` | `Receive`, `WriteMine`, for a rejection `WriteTheirs` |
| `BlockUser`, `UnblockUser` | `Receive`, `BlockList`, for a block `WriteMine` |
| a database error, a restart | `Fails`, the second disjunct of `WriteTheirs`, `Crash` |

`gone` is who took his own row away (a deletion tells the other side nothing, by
design), `missed` whose row lost a write, `stale` that one of two windows was
entered: a block between the check and the writes of a request, and a rejection
that withdraws a request made after the rejected one.

## Runs

| run | instance | checks | shows |
|---|---|---|---|
| `messaging_order` | group of a, b; m1 from a, m2 from b, recall of m1, one edit; 2 connections, 2 workers. Beside it 2 users, 3 requests in 3 goroutines, one error or restart | `TypeOK`, `RecallConverges`, `RecallAnnounced`, `ConversationConverges`, `ConversationNeverRewinds`; `SidesAgree` | whatever the order of inserts, masks, upserts and edits, recalled texts are unreadable, placeholders announced, conversation rows newest; the rows of two users agree when their requests have ended |
| `messaging_restart` | m1 to the group, m2 direct to b and its recall, each sent up to twice, one restart, one edit | `SeqsDistinct`, `AckedIsSafe`, `UnreadNeverOvercounts` | retries and replays lose nothing acknowledged and count nothing twice |
| `messaging_members` | c joins or somebody leaves while m1 is sent; 2 connections, 2 workers, one restart, one database error | `NothingLost`, `NotifyAfterWrite` | a removed task was executed for every target; a signal follows the row |
| `server_live` | m1, its recall, one edit, one error, one restart, 2 workers, fair. Beside it 3 tasks of 2 submitters, 2 workers, channels and socket of one place, 2 mishaps | `EveryTaskRuns`, `KeepsLifecycle`; `HeldOnce`, `EveryTaskIsSeen` | every stored task is executed and removed, or after a database error at least no longer waiting; refinement; no task is dropped or held twice, and each is seen by the client unless its write failed or its row waits for another start |
| `replica_sync` | messages, conversations, contacts; 2 keys, pages of 1 row, both local schemas; 2 writes, 1 purge, 1 fault | `TypeOK`, `NoneMissing`, `NoGhost`, `QuiescentSame`, `Converges` | what the cursor has passed is in the copy, what is gone from the server is not, and the copy becomes the table |
| `list_catchup` | both hosts; pages of 2 rows, windows of 2 pages, 5 rows, a second conversation, 1 placeholder; 2 events, 1 of them a fault | `TypeOK`, `NeverForgotten`, `BehindIsShown`, `WindowOfOpen`, `AckedStaysVisible`, `NoOrphanPlaceholder`, `ClearedWithNewest`, `CatchesUp` | a list shows a slice of its source or says that it is behind, and catches up where the user waits for it, unless a removal brought him there, when it goes on saying so |
| `session` | both kinds of storage, 3 flows at once, 2 logins, 2 faults; cache of 1 entry, queue of 1 or 2, or 2 of both with loads of two requests, 2 users, 2 ids, 3 events | `TypeOK`, `ReadyIsWhole`, `HostAgrees`, `ServedAsSelf`, `ConnectionShown`, `FlowsEnd`, `StaysConnected`; `CacheTypeOK`, `SessionsApart`, `ForcedIsFresh`, `NoHollow`, `InfosMoveForward` | sessions agree on who is signed in and every call ends; what is shown for an id is this session's and goes back only in a load whose early answer was overtaken |
| `unread_two_workers` | two messages, two workers | `UnreadCounted` (violated) | finding 1 |
| `recall_restart` | a recall and a restart | `RecallConverges` (violated) | finding 2 |
| `fanout_replay` | a message and a restart | `FanoutConverges` (violated) | finding 3 |
| `replica_first_sync` | three domains with one row or two each, nothing else happens | `BackgroundSettles` (violated) | finding 4 |
| `list_jump` | `list_catchup` for messages alone | `ClearedAtFreshEdge` (violated) | finding 5 |

Why these bounds are enough for the questions asked: the order hazards are
between two messages of one conversation (or a message and its recall) written
by two goroutines into one inbox, which two workers and two connections give in
every order; one restart is enough to cut a handler at every point, and with
two attempts per msg_id a retry can meet its interrupted, running or finished
first attempt; a third user is needed only where the membership changes.
Properties that promise delivery are conditioned on `faults = 0`: the code logs
database errors of a fan-out and gives the message up (`message.go:56-61`), so
after one it promises nothing to that member. `RecallConverges` and
`ConversationConverges` are checked as passing without restarts; with one they
fail, and the first fails when somebody joins, see below. `CHECK_DEADLOCK FALSE`: once the bounded requests are used up
and every task is done, nothing is left to do. The same holds of the other runs:
a replica, a list or a signed-out client at rest has nothing to do.

- `replica_sync`: with one row per page two keys already make a loop of two
  pages with a cursor in between; one purge is enough to pass a cursor, and two
  writes to make the tombstone and a row after it. One fault cuts either actor at
  every await or kills the process at the one place where an application is not
  atomic.
- `list_catchup`: five rows do not fit in two pages of two, so eviction and both
  continuation edges occur; two events are a write against a write, a switch, a
  send or a failure. Scrolling and clicking are not counted.
- `session`: two logins are two users; three flows are a login, a
  re-authentication and a clean-up or a logout at once; each fault is a lost
  connection, a lost answer, a failed database, a reload or a kick, so every pair
  of them is explored.
- In the same run the display cache: one entry makes every second id evict the
  first; the queue of one is overflown by a read of two ids, the queue of two is
  not; three events are two logins with a change or failure between, or a change,
  an expiry and a failure. With two entries and one load of two requests an own
  change or a second read falls between the two; that another load with more
  requests overtakes it is within the proof, not the run. `Session` and `DisplayCache` meet only where a session
  starts and ends, which each models, so a behaviour of `MCSession` is one
  of the first (the cache at rest) or one of the second.

- `messaging_order` and `server_live` each explore a second module beside
  `Messaging`, with which it shares no state: `part` chooses at the start whose
  behaviour it is. Three requests are the smallest number in which an answer, a
  block or a second request falls between the two writes of a first and a third
  meets the result. With channels of one place two tasks fill them and the third
  waits or is dropped; two mishaps are a stop or a kill with a lost signal, or a
  lost and a mute connection.

Symmetry is used over connections and over workers only, and not in the
liveness run.

For each checked property `PROJECT.json` names a mutant, defined next to the
operator it changes (a dropped condition, INSERT OR REPLACE, a missing
Recover...), under which the property is violated in that run.

## Fairness

`FairSpec` has weak fairness of `WorkerStep(w)` for each worker: the Go
scheduler runs every runnable goroutine and a worker's loop only blocks on an
empty channel. Clients are not fair: nobody has to send or retry. Restarts and
errors are bounded by constants, so progress is claimed for executions in which
they eventually stop.

`LocalReplica!FairSpec`: promises are continued, the server answers, answers and
notifications are handled. `Serve`, `Answered` and `Notified` are guarded by
`Settled`, as the event loop takes a frame when its microtasks are done; weak
fairness suffices since `Continue` ends. Nobody has to write, purge, fail or restart.

`ListHost!Fairness`: what was sent is answered while the connection is up and
fails when it is not (request timers), notices are heard and the client reconnects,
animation frames run. The user owes nothing: `CatchesUp` says what happens to one
who stays at the fresh edge of a visible list: from some time on it is up to date or
its first page has failed, or it has been brought there by a removal and says that it
is stale.

`Session!Fairness`: `WF_vars(Progress)` of all that happens by itself (sockets open
or fail, timers fire, requests are answered or time out, a database opens or
fails). Logins and faults are bounded, so only finitely many steps of `Progress`
can happen, and fairness to all of them together is fairness to each. `FlowsEnd`
and `StaysConnected` are recurrences (`[]<>`), so they hold after every fault.

`Delivery!Fairness`: submitters, workers and the drain of the connection are goroutines,
each fair by itself; `Main` is the process, which ends after a stop, is started
again and replays; the client reconnects, signs in and reads its socket. Nobody has
to submit. In `MCServer` the same conditions are stated for the part that the
behaviour is one of.

## Proofs

The theorems hold for every number of users, messages, requests, workers,
domains, keys, retries, errors and restarts, and every size of pages, windows and
channels. What they assume of the constants is named in the modules:

- `InboxAssumption`, `MessagingAssumption`: the three kinds of msg_id are disjoint
  (client ids and server-drawn ids of the msg_id generator), a message goes from a
  user to another or to the group, a goroutine is not both a connection and a worker;
- `ReplicaAssumption`, `InitialAssumption`: one table of messages and one of
  conversations, finitely many keys (a page is cut from an ordered result, and a
  result is finite), and the server's tables at the start are numbered: a row's seq
  was drawn from `max_seq`;
- `NoticeAssumption`: the types that announce deletions are not those of a domain;
- `DeliveryAssumption`: the task ids are 1, 2, ... up to a number, the channels have
  room for one item at least;
- `RelationsAssumption`: the two users are two;
- `PageAssumption`, `HostAssumption`: the sizes are positive numbers, and a source has
  finitely many rows at the start;
- `DisplayCacheAssumption`: users are positive numbers, a read asks for a sequence of
  ids, a request carries at least one id, the sizes of cache and queue are numbers;
- `SessionAssumption`: the slots for calls under way are a finite, non-empty set of
  numbers, the bounds on logins and faults are numbers.

1. `AlwaysWellFormed`. Types alone are not inductive: `TouchConversation` types
   only if a recall has an event and a message has a sender and a peer, which
   depends on what kind of job the actor has. `WellFormed` adds to `TypeOK` what
   a stage says about its job (`JobOK`: only sends and recalls write own and
   peer inboxes, only recalls mask) and what a task names (`TaskOK`). The proof
   has one lemma per group of actions (`BeginKeeps`, `RequestKeeps`,
   `WriteKeeps`, `WorkerKeeps`, `UserKeeps`, `FaultKeeps`), combined in
   `StepKeeps`. `TypeCorrect` follows.
2. `StepKeeps` also shows that a step is at most one transaction of `Inbox` on
   one user's box (`OneTransaction`). The module begins with lemmas about the
   transactions: each leaves a box (`RewritesType`) and keeps its numbering
   (`RewritesKeepsNumbering`). Hence `SeqsAlwaysDistinct`.
3. `LifecycleKept`: each transaction is one of five visible changes of the box
   (`RewritesAreVisible`), each of which is a step of `InboxLifecycle` or a stutter
   (`VisibleChangeIsLifecycleStep`). Masking is a Withdraw only if the masked
   row is an original or already a placeholder; that needs `KindsOK`, that the
   row of a client message is never an event or a system message, which is
   proved with it.
4. `ConversationsNeverRewind`: `Upsert` replaces a row only by a greater seq, but
   it also inserts a missing row whatever the seq, and `DeleteConversation` moves
   a row to `max + 1` without looking at its seq. So the property needs
   `ConversationsOK`: a missing row has seq 0, and no row and no seq that a
   cursor carries from an insert to its upsert is above `max`
   (`ConversationsBounded`). Every transaction advances a box (`Advances`) under
   that invariant.
5. `UnreadBounded`: an unread count is at most the number of messages of others in
   the inbox. A restart between insert and upsert loses an increment (finding 3),
   so the count is not what has been inserted; but it is never more. `CountsOK`:
   a message whose goroutine is between its insert and its upsert is *owed* to the
   count, by one goroutine only, since a second insert of the same msg_id is not
   fresh; the count is at most the number of the messages that nobody owes.
6. `NothingEverLost`, `NotifiedAfterWrite`, `AcknowledgedIsSafe` share one inductive
   invariant, `Traced`: which rows a cursor has behind it (`Reached`, for each
   program counter), that a job is the execution of its task, and that a task that
   was submitted and is no longer stored has its rows everywhere. It is stable
   under what others do because no transaction takes a row away or brings a text
   back (`RowsKept`), which is proved once per transaction. All three
   are conditioned on `faults = 0`, as the code gives up a member's write after a
   database error; restarts and retries are unrestricted.
7. `TasksExclusive`: no two workers execute one task, and the task of a worker is
   stored and not in the channel. `RecallsAnnounced` needs it: between the mask
   of a row and its event, the event is owed by the goroutine that has masked, and after a
   restart by its stored task, which nobody else can remove. The run checks
   `RecallAnnounced` without restarts, and so does the theorem;
   `RecallsReachReceivers` says what restarts leave of it: the receivers in a
   group always get their event, while the inbox of the sender and both of a direct
   chat are written by the request, which a restart forgets (finding 2).
8. `TasksHeldOnce`: `HeldOnce` counts the places in which a task is, and says of a
   task that is no longer stored that it was written or that its handler has hidden a
   failed write (`missed`). `Held` says
   the same of sets: the channel, the rows that `Recover` has read, the submitters and
   the workers contain no task twice and have none in common, and together they are
   the stored tasks but for those left to the next start. The step from sets to
   numbers is at the end (`HeldHeldOnce`). That the rows can be listed by id at all
   (`InOrder` is not empty, so `Start` can happen) is an induction over the
   size of a set, which is proved by a minimal counterexample in the natural
   numbers, since an induction theorem cannot be instantiated.
9. `ConversationsConverge`, from `Converging`, and `RecallsConverge`, from
   `Recalling`, are about executions without errors and restarts (findings 2 and 3).
   At the end a conversation row has come as far as every live message of its chat;
   until then a row may be ahead of its conversation, but then some goroutine
   *pushes* it: it is about to upsert that conversation with a seq at least as great,
   or to write the event of the recall whose placeholder the row is. A goroutine
   that is pushing goes on (`BusyCursorStays`, which needs `Exclusive` of 7), a
   placeholder that a recall inserts has no event yet (`Follows`), and whoever inserts the
   event, a retry perhaps, upserts the conversation in its turn. `Converging` also
   relates the seq of an active conversation row, and that of an upsert to come, to the
   message named: a deletion gives a message a new seq, so they agree only while it is
   live.
   `Recalling` says of a message that its sender sees as recalled that his copy has
   no text and that the recall is *pursued*: by the request, by the peer's copy, or by
   a task that was submitted, which is for all members. The last is true only as
   long as nobody joins (`NobodyJoins`, the premise of the theorem; members may leave):
   a recall goes to the members of its own moment (see the divergences).
10. `CursorSkipsNothing`, `GhostsAreHeardOf`, `ReplicaTyped` from `InSync`.
   Both properties relate a copy to the server, and the answer of a request that
   was read before a write, a purge or a reset and is applied after it
   can break both. `InSync` says what an answer is good for by the time it
   arrives. Its rows are the server's or have changed in a way that the client
   will hear of from any cursor it may have by then (`RowsKnown`); what it was asked
   for and does not have lies above it (`NoneSkipped`); every row of the copy
   that vanished from the server is deleted by it, or will be
   by a later one, or the cursor is below the horizon and the copy will be rebuilt
   (`GhostsHeard`); no live row below the cursor is missing (`LacksNone`). The
   proof treats one domain at a time, with one lemma per kind of step of it (a write,
   a purge, requests that come and go, a page read, a page applied) and one per action,
   which says of what kind it is. The two properties exclude the windows in `exposed`
   in the proof as in the run, each only those that it needs.
11. `WakeUpsNeverLost`, from `NeverForgotten`. `InSync` says that nothing is wrong with
   what arrives, not that anything arrives. `NothingForgotten` adds who will bring
   what the copy of a relation lacks: its sync is still to begin (`Waiting`: a notice on
   its way, a flag, an entry on the list of an actor), or a request sees to it (`Sees`:
   it is unread, or its page is not the last of its sync, or it is and what it carries
   completes the copy), or nothing is lacking (`CaughtUp`, which also says of every
   page on its way that it brings back nothing that is gone). A notification that comes
   during a sync of its own domain is why a flag is cleared before the handler begins
   and not after; `Queued` says that a flag that is set has its node in the chain.
   A last page that is read before a write does not see to it, but the write is announced;
   a purge only takes tombstones that the last page carries or that a rebuild makes up
   for, since a purge between horizon check and page is `exposed`. A sync that gave up
   (`failed`) is excluded in the proof as in the run.
12. `NoticesNeverForgotten`, `WindowAlwaysOfOpen`, `PlaceholdersNeverOrphaned` of
   `ListHost`, for every source, page size, window size and bound, from
   `PageAssumption` and `HostAssumption`. A host is a composition of the list's
   methods, so the proofs have one lemma per method for a predicate of the list,
   and one step per action of the host. `Remembers`: a dirty list is loading,
   due for a decision or stale; inductive as it stands. `Keeps`: the window, the
   answers on their way and the queries they were asked with are all of the open
   conversation, which is what makes a late page harmless; it needs that a call
   which outlives a change of the query is dropped with its generation. The
   placeholders need that every placeholder in the overlay has its send
   (`SendsOK`) and that no answer ever carries one.
13. `BehindAlwaysShown`, `AckedAlwaysVisible`, `AlwaysClearedWithNewest`,
   `ListAlwaysTyped` of `ListHost`, from `SliceOK`. What the window shows is compared
   with the source message by message, so that a change of one says nothing of the
   others: of a message without a local record, the rows in the window are those the
   source has between its edges (`Shows`), and an answer on its way has what the source
   has beyond its cursor, up to where it ends (`Tells`). This is owed of the messages
   of which the list has heard everything (`Unchanged`: every change is covered by the
   first page that was asked for last, and its deletion is not on its way), and, however
   far the list is behind, of those that were sent from here and not deleted (`Sent`),
   since messages do not move. What a first page that is asked for after the answer of
   a send must have is owed as soon as the record of the send may be settled by it,
   which is why a record counts as local for that answer only while it is not covered
   (`Settled`). `Control` is what the calls need: one for a page at most, with the
   cursor and query the list still has; no edge without a cursor; a stale list is
   loaded. A list's method either leaves the window, takes no record away and makes
   nothing heard (`Steady`) or asks for a first page (`Restarted`), with one lemma per
   method; a source's step leaves what is certain certain or takes certainty away. The
   answers that land rest on lemmas about the window: the slices of a source, which
   count the rows beyond a row, reach from edge to edge (`NewestAnswer`, `EdgeAnswer`,
   `AroundAnswer`), and extending and evicting keep the pages apart and the slice whole
   (`ExtendedOrdered`, `ExtendedShows`). That a finite set of seqs has a least and a
   greatest element is proved from the well-foundedness of the numbers (`HasMin`,
   `HasMax`).
14. `SessionTyped`, `ConnectionAlwaysShown`, `ReadySessionsWhole`, `HostAlwaysAgrees`,
   `AlwaysServedAsSelf` of `Session`, from `SessionOK`, which has three parts. `Sound`
   holds in every reachable state: which calls can be suspended where, requests are
   under way on an open socket only, the token is the user's, a call that waits to
   connect has an attempt with a running timer, and the re-authentication after a
   page load is alone. `Counted` bounds the attempts by the logins. `Clean` and
   `Served` hold until a window of `exposed` is entered: the user, his state, his
   gateway and what overlapping calls carry are of one session, what the kit has
   stored and shows is that session's but for calls under way, and the server knows
   the connection, or a re-authentication or logout is under way. A step of the model
   is a composition of operators on the client's record, so there is one lemma per
   operator on what it changes (`...Does`) and one on what it keeps (`...Keeps`);
   `SignedOutKeeps` and `FailKeeps` carry most of it, as every failure of a
   re-authentication ends there. That the recursion of `Chain` over wrappers of
   wrappers has a solution is proved by a minimal counterexample (`WrapsExist`).
15. `SidesAlwaysAgree`, from `AlwaysAgreeing`. `SidesAgree` speaks of moments at which no
   request is under way; `Agreeing` is what holds in between, of any number of
   requests of the two users. A row that the other side contradicts is about to be
   written by a request that has written its first row (`Fitting`, `Due`). A request
   past its check of the blocks has no block to fear (`Checked`), the row that a block
   does away with is still to be written by the request that blocks (`UnaskedOrDue`),
   and a row that a rejection took away is answered by nobody (`Withdrawn`); these three
   need that no window of `stale` was entered, the first that no row is in `missed`.
16. `CacheTyped`, `AlwaysApart`, `AlwaysFresh`, `NeverHollow`, `AlwaysMovesForward` of
   `DisplayCache`, from `CacheOK`. Each property is of the cache, and each can be broken by
   an answer that was asked for in another session, served before a change or overtaken
   by one. `Apart` says what can be on the wire: nothing but a login without a gateway,
   one login at most, and changes of remarks only of the user who is signed in and
   before that login. `Ordered`: requests are served in order, so of two requests about
   an id the later one is told the newer name; of the names that a load was told
   by earlier requests and that wait for its last, only that they are not newer than
   what a request on its way is or will be told.
   `Forward`: nothing shown or stored is newer than what a request on its way
   will be told, and nothing shown newer than what is stored, but for own changes,
   which are written to memory only; names that wait are excepted, as they may
   be overtaken. Where a load is applied, the ids it shows late are those of
   `Overtaken`, which are no longer owed and which `InfosMoveForward` excepts. `Named`: an id
   that is held without its name has lost its load, is queued, or is asked for.
   `Owed`: an id that must show the server's name is queued with force and timed
   (`Due`), asked for with nothing older behind (`Coming`), or shown and stored with
   it, or about to be loaded from there (`Arrived`). A flush moves an id from the
   first to the second, which holds of the request for it among all the batches because
   every batch with an id in need is sent. There is one lemma per operator on the store
   and one per action and part of the invariant. A loop is its recursive function,
   which has a solution by a minimal counterexample (`Counting`, `Looping`), and what
   each round keeps the loop keeps.

Model-checked only:

- liveness (`EveryTaskRuns`, `EveryTaskIsSeen`, `Converges`, `CatchesUp`, `FlowsEnd`,
  `StaysConnected`), which is outside what TLAPS proves.

## Divergences found

1. `unread_two_workers`: `ConversationStore.Upsert` drops the unread increment
   together with the row when the row is already newer
   (`conversation_store.go:41`). Two workers that insert m1 then m2 and upsert
   m2 then m1 leave unread at 1 for two messages. The documentation says the
   count is incremented by every message of others
   (`server/docs/关系与会话偏好方案.md:94`).
2. `recall_restart`: a recall overwrites the caller's copy before the fan-out is
   submitted (`message_recall.go:78`). After a restart in between, the retry is
   refused as already recalled and the others keep the text, which
   `server/docs/消息能力方案.md:146` says can no longer be read.
3. `fanout_replay`: `applyGroupMessage` updates the conversation only for a
   fresh row (`message.go:98`). A restart between the insert and the upsert
   makes the replay skip it, so conversation and unread count stay behind,
   against `taskqueue.go:6` (replays have no wrong effect) and
   `server/docs/db/消息数据库设计.md:75` (updated with every message).
4. `replica_first_sync`: `applyMessageSyncBatch` inserts rows without naming the
   column `status` (`persistent.ts:514`), which the gateway's schema declares
   `NOT NULL CHECK (status <> 0)` without a default
   (`packages/sdk/src/datagateway/sqlite-local-api.ts:30`). The first page with a
   live message is refused, the stage is reported failed and rethrows, and the
   domains after it are never reported, against
   `docs/architecture/同步机制方案.md:230` and `:250`. The unit tests use an
   in-memory schema with `DEFAULT 0`; the constant `Schemas` has both.
5. `list_jump`: a jump to a search result leaves the list's query at the pages
   around that message; a later catch-up asks for those again, `stale` falls with
   more rows at the fresh edge, and the unread count is cleared
   (`message-list.ts:82`, `:114-125`), against
   `packages/uikit/docs/UI设计方案.md:507`.

Met while modelling, reproduced by the models where an `exposed` window, a
condition or an exception of a property names them, and without a run of their own:

- Recalls: a message and its recall list the members on their own (`message.go:289`,
  `message_recall.go:120`), and a message can be recalled as soon as its sender has
  his copy. When c joins after the recall's list and before the message's, the recall
  goes to the others only and c receives the text for good, against
  `message_recall.go:112-113` (in whatever order or concurrently, the inbox of every
  member converges to the placeholder and the event). `recall_restart` with a third
  user c, `Systems = {s1}`, two requests and no restart shows it.
- Replica: tombstones purged between the horizon check and the page, or during a
  rebuild, leave a row that the server no longer has
  (`server/docs/服务器架构方案.md:474`, `server/docs/db/通讯录数据库设计.md:245`).
- Lists: a send that is answered after the conversation was switched puts its
  message into the overlay of the other conversation. A removal (a deletion that is
  announced, or the placeholder of a failed or answered send) shrinks the content
  under a user who has scrolled up a little: he is at the fresh edge without a scroll
  event, nothing decides (`bounded-list.ts:237`), and the list stays behind with
  its pill shown until he scrolls, clicks or another notice comes.
- Session: a logout while a persistent session starts ends in `ready` with an empty
  token; of two overlapping starts the earlier gateway can be installed last
  (`client-session-runtime.ts:260`); attempts to connect stack their wrappers
  (`:198-213`), and a timer may forget a later attempt; a logout while connecting
  leaves the call waiting for its timer; a login submitted twice keeps the gateway
  of the first; a refused connection without a token is not tried again, so a
  login waits out its timer; a connection lost during re-authentication logs the
  user out and erases his stored token (`auth.ts:112`, against
  `packages/uikit/docs/UI设计方案.md:228`); a kick that arrives while no gateway is
  installed is lost.
- Connections: a write that takes more than 10 s leaves the connection registered but
  mute for good (`ws/connection.go:82`); pings time out without effect
  (`packages/sdk/src/transport/connection.ts:342`), so the client stays behind until
  the socket closes for another reason. A signal that is dropped among 64 signals of
  other types leaves the client behind likewise (`online.go:79`); the documents say
  that signals may be lost and synchronisation makes up for it
  (`server/docs/服务器架构方案.md:471`), which takes a later signal or a new session.
- Queue: `Submit` during `Close` sends on a closed channel; the panic ends that
  connection and its stored task waits for the next start. An error of `Recover` is
  only logged (`main.go:81`), and all stored tasks wait for another start.
- Relations: a rejection that is still under way when its requester asks again can
  withdraw the new request, so that accepting it makes a friendship with one side;
  a block between the check and the writes of a request leaves a request of a blocked
  user. A lost write leaves the sides different, which
  `server/docs/db/通讯录数据库设计.md:243` accepts.
- Display cache: an own rename in a persistent session is overwritten by the old
  `displayinfo` row at the next load; an own change on a full queue is reported as
  failed although the server has it; an answer whose local write fails is not
  shown either; a load of several requests shows the old name that an early one was
  told over a newer name that was shown meanwhile (`base.ts:257`, `limits.ts:37`), and
  a row of the local database with it; a remark is lost with its evicted entry; tags of two
  organisations that one batch merges are fetched with one organisation's id.

## Abstractions

- Bodies are reduced to what they are (original, placeholder, event, system);
  search text, send times and reply references are left out.
- There is one group. Targets of a system message are written in any order by
  the model, in list order by the code: more behaviours, not fewer.
- `handleGroupMessageTask` runs one goroutine per shard; the model one per
  target, as if each target had its own shard: more behaviours again.
- Persisting a task and putting it in the channel are one step; a restart in
  between is equivalent to one right after, as the channel is rebuilt from the
  table. The channel is an unordered, unbounded set here, and a bounded queue in
  `Delivery`.
- A read that fails before any write is a request that never started. Errors of
  the mutelist lookup and of GetByMsgID are not modelled.
- The recall's time window, the blocklist check of `sendDM`, roles and the
  existence of users are not modelled: a request that fails them changes
  nothing.
- A restart keeps what SQLite has committed. Loss of the last transactions
  on power failure (WAL with `synchronous=NORMAL`) is not modelled.
- A system msg_id is drawn fresh for each membership change (`attempts[s] = 0`);
  a client reuses a msg_id up to `MaxAttempts` times.
- The retention purge of messages is not modelled: a retry comes within the
  window.
- `LocalReplica`: applying a page and saving its cursor is one step, as SQLite
  calls of one task are; only the process's death separates them. Rows are keys
  and seqs, without their columns. Deletions and writes on the server are bounded
  by `MaxWrites`.
- `ListHost`: an identity is a number and a row is an identity with its seq. Both
  directions of the display mirror each other and are one model. The answers of
  calls of obsolete generations are not kept: `isCurrent` discards them. A batch
  of notices is one notice at a time. Of what moves the edges without a scroll event,
  the model has the removals; resizes of the window and rows whose own height changes
  are left out.
- `Session`: a user is the token he was given. The kit's own storage always works.
  The reconnect delay, the heartbeat and the limit of pending requests are left out.
- `DisplayCache`: one scope (user and group are the same code, org and tag have no
  remarks). Names are numbered by the server; expiry hits all entries at once. A key
  is in `loading` only within the task that flushes, so that set is no variable. The two
  limits are fixed for a behaviour; the code reads the server's with the answer to a
  login.
- `Delivery`: one user with one connection; all tasks write his inbox. A pull is one
  step and finds what is written; `LocalReplica` has its failures. A frame that is
  answered to a request is not on `wire`. Tasks are drawn from `Tasks`, everything
  that goes wrong is bounded by `MaxMishaps`.
- `Relations`: names, remarks and seqs are left out, and a user exists. An error of a
  read or of the caller's own transaction ends the request. Requests are bounded by
  `MaxCalls`, errors and restarts by `MaxLosses`.

## Not modelled

Listed with reasons in `PROJECT.json`. In short:

- to do: retention purges, the block check of `send_message`, the agent;
- of modelled components: the queue's manual and synchronous modes (tests and
  seeding), several connections of one user, remarks and favourites; `destroy`, registration, heartbeats and the snapshot's
  threshold state in the session; contact and search lists and promotion in the
  lists (the same component with other sources); `get_tags`' own
  synchronisation in the replica; a created group's first entry in the cache;
- without interleavings of their own: password hashing, id generation, shard
  routing, configuration, uploads, plugins, frames and generated code; the
  command-line client is sequential; the rest of the web application (views,
  translations, layout) renders what the SDK holds.
