---------------------------- MODULE DisplayCache ----------------------------
(***************************************************************************)
(* Names and remarks shown for ids: DisplayInfoCache of the SDK            *)
(* (packages/sdk/src/state/cache.ts), the get_*_infos and refresh*Infos of *)
(* its two data gateways, the displayinfo table, and the write-through of  *)
(* the client's own changes (internal/client-cache-updates.ts).            *)
(*                                                                         *)
(* The scopes user and group are this code twice; org and tag are the same *)
(* without remarks and without own changes.  One scope is modelled.        *)
(*                                                                         *)
(* An action is one task of the event loop.  A SQLite call completes in    *)
(* the task that makes it, so what spans tasks are the merge window's      *)
(* timer and the requests, which one connection serves and answers in      *)
(* order; a key is in the set loading only inside the task that flushes.   *)
(*                                                                         *)
(* Names are numbered as the server gives them, 0 is the empty name.       *)
(* Neither an answer nor a row holds a remark (the protocol's UserInfo and *)
(* GroupInfo have none): the cache has those made in this session; a       *)
(* user's remark is his own number.                                        *)
(***************************************************************************)
EXTENDS Naturals, Sequences, FiniteSets, SequencesExt

CONSTANTS
  Storages,       \* the storage to explore: "instant", "persistent"
  Users,          \* who signs in; numbers from 1
  Ids,            \* the ids whose infos are shown
  Subjects,       \* those whose infos change
  Reads,          \* the sequences of ids that one call asks for
  Sizes,          \* capacities of cache and queue, ids of one load and of one request
  MaxWire,        \* bound: requests on their way when the user does something
  MaxEvents       \* bound: logins, changes, times the infos expire, failures

ASSUME DisplayCacheAssumption ==
  /\ Storages \subseteq {"instant", "persistent"}
  /\ Users \subseteq Nat \ {0} /\ Subjects \subseteq Ids /\ Reads \subseteq Seq(Ids)
  /\ Sizes \subseteq [cache : Nat, queue : Nat, batch : Nat \ {0}, request : Nat \ {0}]
  /\ {MaxWire, MaxEvents} \subseteq Nat

VARIABLES
  storage, \* of the sessions
  size,    \* cacheMaxEntries, profileLoadQueueMaxEntries; the client's batch limit,
           \* which splits loads, and the lower of it and the server's, which splits requests
  store,   \* ScopeStore, flush timer and data gateway of the client (see Cleared)
  wire,    \* requests sent, the oldest first; some are served and not yet read
  source,  \* the server's names
  rows,    \* displayinfo of each user's local database
  history, \* for the properties (see NoHistory)
  used     \* events so far

cacheVars == <<storage, size, store, wire, source, rows, history, used>>

Fields == {"name", "remark"}

Absent == [name |-> 0, remark |-> 0, expired |-> TRUE]

\* held: the ids of the cache, oldest first; opened: the gateway's database is
\* open; session: the number of the one that was started, 0 when that has failed;
\* gateway: the same once its gateway is installed.
Cleared(u, session, gateway) ==
  [held |-> <<>>, entry |-> [i \in Ids |-> Absent],
   pending |-> <<>>, forced |-> {}, timer |-> FALSE,
   user |-> u, session |-> session, gateway |-> gateway, opened |-> FALSE]

NoSession == Cleared(0, 0, 0)

\* owed: ids that must show the server's name at rest; lost: ids whose latest
\* load failed; ahead: ids whose name in memory is newer than in the database.
NoHistory == [owed |-> {}, lost |-> {}, ahead |-> {}]

Lose(h, S) == [h EXCEPT !.owed = @ \ S, !.lost = @ \cup S]

-----------------------------------------------------------------------------
(* ScopeStore *)

Holds(st, i) == i \in ToSet(st.held)

\* FifoMap.set: a new id goes last and pushes out the oldest.
Put(st, i, e) ==
  LET ids  == IF Holds(st, i) THEN st.held ELSE Append(st.held, i)
      kept == IF Len(ids) > size.cache THEN Tail(ids) ELSE ids
      now  == [st.entry EXCEPT ![i] = e]
  IN  [st EXCEPT !.held = kept,
                 !.entry = [j \in Ids |-> IF j \in ToSet(kept) THEN now[j] ELSE Absent]]

EnqueueOnce(st, i, force) ==
  IF i \in ToSet(st.pending) THEN st
  ELSE [st EXCEPT !.pending = Append(@, i), !.forced = IF force THEN @ \cup {i} ELSE @]

Enqueue(st, i, force) ==
  [st EXCEPT !.pending = IF i \in ToSet(@) THEN @ ELSE Append(@, i),
             !.forced = IF force THEN @ \cup {i} ELSE @]

Refused(st, i) == i \notin ToSet(st.pending) /\ Len(st.pending) >= size.queue

Lacks(st, i, force) == force \/ ~Holds(st, i) \/ st.entry[i].expired

Schedule(st) == [st EXCEPT !.timer = @ \/ (st.pending # <<>> /\ st.gateway # 0)]

\* One id: a call that has thrown goes no further.
Ask(r, i, force) ==
  IF r.threw \/ ~Lacks(r.st, i, force) THEN r
  ELSE IF Refused(r.st, i) THEN [r EXCEPT !.threw = TRUE]
  ELSE [r EXCEPT !.st = Enqueue(@, i, force)]

\* getUserInfos: queues what is missing, expired or forced.  A call that meets
\* a full queue throws: what it has queued stays, untimed.
Read(st, ids, force) ==
  LET asked[n \in 0..Len(ids)] ==
        IF n = 0 THEN [st |-> st, threw |-> FALSE] ELSE Ask(asked[n - 1], ids[n], force)
      end == asked[Len(ids)]
  IN  [end EXCEPT !.st = IF end.threw THEN @ ELSE Schedule(@)]

\* What a row or an answer says of i; a remark in memory stays.
Show(st, i, info) ==
  Put(st, i, [name |-> info.name, expired |-> info.expired, remark |-> st.entry[i].remark])

\* All the infos that there are, in the order of ids.
ShowAll(st, ids, infos) ==
  LET shown[n \in 0..Len(ids)] ==
        IF n = 0 THEN st
        ELSE IF ids[n] \in DOMAIN infos THEN Show(shown[n - 1], ids[n], infos[ids[n]])
        ELSE shown[n - 1]
  IN  shown[Len(ids)]

WriteBlind(st, i, field, value) ==
  Put(st, i, [[st.entry[i] EXCEPT !.expired = FALSE] EXCEPT ![field] = value])

\* The client's own change: reads what is there, which may queue a load, and
\* writes it back with the change.
WriteThrough(st, i, field, value) ==
  LET r == Read(st, <<i>>, FALSE)
      e == [r.st.entry[i] EXCEPT !.expired = FALSE]
  IN  IF r.threw THEN r.st
      ELSE Put(r.st, i, [e EXCEPT ![field] = value])

-----------------------------------------------------------------------------
(* Requests *)

\* The first ids of those left, as many as one request asks for.
Slice(ids, left) ==
  LET at == {n \in DOMAIN ids : ids[n] \in left} IN
  {ids[n] : n \in {m \in at : Cardinality({k \in at : k <= m}) <= size.request}}

\* The current request of a load of the ids in need, all of them in the batch ids;
\* names: what its requests have been told so far.
Fetch(gateway, ids, need) ==
  [op |-> "fetch", served |-> FALSE, gateway |-> gateway, ids |-> ids, need |-> need,
   asked |-> Slice(ids, need), names |-> [i \in {} |-> 0]]

\* collectSerialBatches: what no request has asked for yet, and what earlier
\* requests were told, which waits for the last.
Left(q) == q.need \ (q.asked \cup DOMAIN q.names)

Waited(q) == DOMAIN q.names \ q.asked

NextFetch(q) == [q EXCEPT !.served = FALSE, !.asked = Slice(q.ids, Left(q))]

\* The value of a new name is drawn when the server takes it.
Change(i, field, value) ==
  [op |-> "change", served |-> FALSE, id |-> i, field |-> field, value |-> value]

SignIn(u, session) == [op |-> "login", served |-> FALSE, user |-> u, session |-> session]

\* The n-th slice of ids, empty behind the last.
Batch(ids, n) ==
  SubSeq(ids, (n - 1) * size.batch + 1,
         IF n * size.batch < Len(ids) THEN n * size.batch ELSE Len(ids))

\* One load for each batch that has an id in need; its first request is sent.
LoadRemote(gateway, ids, need) ==
  LET part(n) == ToSet(Batch(ids, n)) \cap need
      sent[n \in 0..Len(ids)] ==
        IF n = 0 THEN <<>>
        ELSE IF part(n) = {} THEN sent[n - 1]
        ELSE Append(sent[n - 1], Fetch(gateway, Batch(ids, n), part(n)))
  IN  sent[Len(ids)]

\* The rows that get_user_infos finds: none in memory or when it cannot read.
LoadLocal(readable) ==
  LET found == IF storage = "instant" \/ ~readable THEN {}
               ELSE {i \in Ids : rows[store.user][i].name # 0}
  IN  [i \in found |-> rows[store.user][i]]

DrainPending(st) == [st EXCEPT !.pending = <<>>, !.timer = FALSE]

Drain(st) == [st EXCEPT !.pending = <<>>, !.forced = {}, !.timer = FALSE]

\* flushScope: one drain, forced as a whole when one of its ids is.  Rows that are
\* found are shown; ids whose row is missing or expired are asked for, or all when forced.
Flush(readable) ==
  LET infos == LoadLocal(readable)
      need  == {i \in ToSet(store.pending) :
                  store.forced # {} \/ i \notin DOMAIN infos \/ infos[i].expired}
  IN  [st |-> ShowAll(Drain(store), store.pending, infos),
       sent |-> LoadRemote(store.gateway, store.pending, need)]

-----------------------------------------------------------------------------
(* Steps of the client *)

Logins == {n \in DOMAIN wire : wire[n].op = "login"}

Happens == used < MaxEvents /\ used' = used + 1

CacheInit ==
  /\ storage \in Storages /\ size \in Sizes
  /\ store = NoSession /\ wire = <<>>
  /\ source = [i \in Ids |-> 1]
  /\ rows = [u \in Users |-> [i \in Ids |-> [name |-> 0, expired |-> TRUE]]]
  /\ history = NoHistory
  /\ used = 0

GetInfos(ids, force) ==
  /\ store.user # 0 /\ Len(wire) < MaxWire
  /\ LET r == Read(store, ids, force) IN
     /\ store' = r.st
     /\ history' = IF force /\ ~r.threw /\ store.gateway # 0
                   THEN [history EXCEPT !.owed = @ \cup ToSet(ids)]
                   ELSE history
  /\ UNCHANGED <<storage, size, wire, source, rows, used>>

\* Without a gateway, whose init has failed, the queue stays.
FlushNothing ==
  /\ store.timer /\ store.gateway = 0
  /\ store' = [store EXCEPT !.timer = FALSE]
  /\ UNCHANGED <<storage, size, wire, source, rows, history, used>>

FlushTimer ==
  /\ store.timer /\ store.gateway # 0
  /\ \E readable \in {store.opened, FALSE} :
       /\ LET r == Flush(readable) IN store' = r.st /\ wire' = wire \o r.sent
       /\ IF readable \/ storage = "instant" \/ ~store.opened THEN UNCHANGED used
          ELSE Happens
  /\ UNCHANGED <<storage, size, source, rows, history>>

\* updateUserInfo, updateGroupInfo, updateRemark and the like; not by a user
\* who waits for another login (see LoginOverSession in Session).
ChangeInfo(i, field) ==
  /\ store.gateway # 0 /\ Logins = {} /\ Len(wire) < MaxWire
  /\ Happens
  /\ \E value \in IF field = "name" THEN {0} ELSE {0, store.user} :
       wire' = Append(wire, Change(i, field, value))
  /\ UNCHANGED <<storage, size, store, source, rows, history>>

-----------------------------------------------------------------------------
(* Sessions *)

\* A persistent session is started by a client that has none; the web kit can
\* submit a login twice.  The first one is user 1, by symmetry.
Login(u) ==
  /\ used > 0 \/ u = 1
  /\ Logins = {} /\ Len(wire) < MaxWire /\ (store.session = 0 \/ storage = "instant")
  /\ Happens
  /\ wire' = Append(wire, SignIn(u, used'))
  /\ UNCHANGED <<storage, size, store, source, rows, history>>

StartSessionUncleared(u, session) ==
  [store EXCEPT !.user = u, !.session = session, !.opened = FALSE,
                !.gateway = IF storage = "instant" THEN session ELSE 0,
                !.timer = FALSE]

\* startSession drops the old gateway and clears the cache.
StartSession(u, session) ==
  Cleared(u, session, IF storage = "instant" THEN session ELSE 0)

InstallGateway ==
  /\ storage = "persistent" /\ store.session # 0 /\ store.gateway = 0
  /\ store' = [store EXCEPT !.gateway = store.session]
  /\ UNCHANGED <<storage, size, wire, source, rows, history, used>>

OpenDatabase ==
  /\ storage = "persistent" /\ store.gateway # 0 /\ ~store.opened
  /\ store' = [store EXCEPT !.opened = TRUE]
  /\ UNCHANGED <<storage, size, wire, source, rows, history, used>>

\* The gateway cannot be made, or its init throws: it is dropped; the cache, its
\* queue and its timer stay, and the user is signed in without a session.
StartFails ==
  /\ storage = "persistent" /\ store.session # 0 /\ ~store.opened
  /\ Happens
  /\ store' = [store EXCEPT !.session = 0, !.gateway = 0]
  /\ history' = NoHistory
  /\ UNCHANGED <<storage, size, wire, source, rows>>

\* The socket is closed, which rejects every request.
Logout ==
  /\ store.user # 0
  /\ store' = NoSession /\ wire' = <<>>
  /\ history' = NoHistory
  /\ UNCHANGED <<storage, size, source, rows, used>>

-----------------------------------------------------------------------------
(* The server *)

Rename(i) ==
  /\ source' = [source EXCEPT ![i] = @ + 1]
  /\ history' = [history EXCEPT !.owed = @ \ {i}]

\* The oldest request that is not served yet.
Serve(n) ==
  /\ n \in DOMAIN wire /\ ~wire[n].served
  /\ \A m \in 1..(n - 1) : wire[m].served
  /\ LET q == wire[n] IN
     \/ /\ q.op = "fetch"
        /\ wire' = [wire EXCEPT ![n].served = TRUE,
                                ![n].names = [i \in q.asked \cup DOMAIN @ |->
                                                IF i \in q.asked THEN source[i] ELSE @[i]]]
        /\ UNCHANGED <<source, history>>
     \/ /\ q.op = "change" /\ q.field = "name"
        /\ Rename(q.id)
        /\ wire' = [wire EXCEPT ![n].served = TRUE, ![n].value = source'[q.id]]
     \/ /\ q.op = "login" \/ (q.op = "change" /\ q.field = "remark")
        /\ wire' = [wire EXCEPT ![n].served = TRUE]
        /\ UNCHANGED <<source, history>>
  /\ UNCHANGED <<storage, size, store, rows, used>>

\* Another user, or another device of this one, renames i; before the first
\* login that makes no difference.
ChangedElsewhere(i) ==
  /\ used > 0
  /\ Happens
  /\ Rename(i)
  /\ UNCHANGED <<storage, size, store, wire, rows>>

-----------------------------------------------------------------------------
(* Answers *)

\* The gateway that asked is still the client's.
FromOwn(q) == q.gateway = store.gateway

Told(q) == [i \in q.need |-> [name |-> q.names[i], expired |-> FALSE]]

StoredIfMissing(q) ==
  [rows EXCEPT ![store.user] =
     [i \in Ids |-> IF i \in q.need /\ @[i].name = 0 THEN Told(q)[i] ELSE @[i]]]

\* INSERT OR REPLACE of an answer into the local table.
Stored(q) ==
  [rows EXCEPT ![store.user] =
     [i \in Ids |-> IF i \in q.need THEN Told(q)[i] ELSE @[i]]]

\* Ids whose name has changed since an earlier request of the load was served.
Overtaken(q) == {i \in Waited(q) : q.names[i] # source[i]}

\* refreshUserInfos and updateDisplayInfos: the answers to all requests of a load
\* are stored in the local database, then in the cache, if its gateway is still
\* the client's.
Refresh(q) ==
  \/ ~FromOwn(q) /\ UNCHANGED <<store, rows, history, used>>
  \/ /\ FromOwn(q) /\ (storage = "persistent" => store.opened)
     /\ store' = ShowAll(store, q.ids, Told(q))
     /\ rows' = IF storage = "instant" THEN rows ELSE Stored(q)
     /\ history' = [history EXCEPT !.owed = @ \ Overtaken(q),
                                   !.lost = @ \ q.need, !.ahead = @ \ q.need]
     /\ UNCHANGED used
  \* The local write fails, and the answer is not shown either.
  \/ /\ FromOwn(q) /\ storage = "persistent"
     /\ IF store.opened THEN Happens ELSE UNCHANGED used
     /\ history' = Lose(history, q.need)
     /\ UNCHANGED <<store, rows>>

\* updateUserInfoDisplayCache and the like, when the change is confirmed.
Confirmed(q) ==
  LET alone == \A n \in 2..Len(wire) :
                 wire[n].op # "change" \/ wire[n].id # q.id \/ wire[n].field # "name"
  IN
  /\ store' = WriteThrough(store, q.id, q.field, q.value)
  /\ history' = IF q.field = "remark" \/ Read(store, <<q.id>>, FALSE).threw THEN history
                ELSE IF storage = "persistent" THEN [history EXCEPT !.ahead = @ \cup {q.id}]
                ELSE [history EXCEPT !.owed = IF q.value = source[q.id] /\ alone
                                              THEN @ \cup {q.id} ELSE @]
  /\ UNCHANGED <<rows, used>>

SessionStarts(q) ==
  /\ store' = StartSession(q.user, q.session)
  /\ history' = NoHistory
  /\ UNCHANGED <<rows, used>>

\* Answers come in the order of the requests; the next request of a load, whoever's
\* gateway asks, is sent when the one before is answered.
Answered ==
  /\ wire # <<>> /\ Head(wire).served
  /\ \/ /\ Head(wire).op = "fetch" /\ Left(Head(wire)) # {}
        /\ wire' = Append(Tail(wire), NextFetch(Head(wire)))
        /\ UNCHANGED <<store, rows, history, used>>
     \/ /\ Head(wire).op = "fetch" /\ Left(Head(wire)) = {}
        /\ wire' = Tail(wire) /\ Refresh(Head(wire))
     \/ Head(wire).op = "change" /\ wire' = Tail(wire) /\ Confirmed(Head(wire))
     \/ Head(wire).op = "login" /\ wire' = Tail(wire) /\ SessionStarts(Head(wire))
  /\ UNCHANGED <<storage, size, source>>

\* A request is refused or times out, before or after the server has served it; the
\* rest of its load, answers to earlier requests included, is lost with it.
RequestFails(n) ==
  /\ n \in DOMAIN wire /\ wire[n].op # "login"
  /\ Happens
  /\ wire' = RemoveAt(wire, n)
  /\ history' = IF wire[n].op = "fetch" /\ wire[n].gateway = store.gateway
                THEN Lose(history, wire[n].need) ELSE history
  /\ UNCHANGED <<storage, size, store, source, rows>>

\* The time to live passes while nothing is under way.
TimePasses ==
  /\ wire = <<>> /\ ~store.timer
  /\ Happens
  /\ store' = [store EXCEPT !.entry = [i \in Ids |-> [@[i] EXCEPT !.expired = TRUE]]]
  /\ rows' = [u \in Users |-> [i \in Ids |-> [rows[u][i] EXCEPT !.expired = TRUE]]]
  /\ UNCHANGED <<storage, size, wire, source, history>>

CacheNext ==
  \/ \E ids \in Reads, force \in BOOLEAN : GetInfos(ids, force)
  \/ FlushTimer \/ FlushNothing \/ Answered \/ TimePasses
  \/ InstallGateway \/ OpenDatabase \/ StartFails \/ Logout
  \/ \E i \in Subjects : ChangedElsewhere(i) \/ \E field \in Fields : ChangeInfo(i, field)
  \/ \E u \in Users : Login(u)
  \/ \E n \in DOMAIN wire : Serve(n) \/ RequestFails(n)

CacheSpec == CacheInit /\ [][CacheNext]_cacheVars

-----------------------------------------------------------------------------
(* Properties *)

Row == [name : Nat, expired : BOOLEAN]

Entry == [name : Nat, remark : Users \cup {0}, expired : BOOLEAN]

\* Types; the queue keeps within its bound, a forced id is queued, and a timer
\* runs only for a gateway or behind one whose init has failed.
CacheTypeOK ==
  /\ storage \in Storages /\ size \in Sizes
  /\ store.held \in Seq(Ids) /\ Len(store.held) <= size.cache
  /\ store.entry \in [Ids -> Entry]
  /\ store.pending \in Seq(Ids) /\ Len(store.pending) <= size.queue
  /\ store.forced \subseteq ToSet(store.pending)
  /\ store.timer => store.pending # <<>> /\ (store.session = 0 \/ store.gateway # 0)
  /\ rows \in [Users -> [Ids -> Row]]

\* The remarks shown are those of the user who is signed in, whatever was on its
\* way for another one when he signed in.
SessionsApart == \A i \in Ids : store.entry[i].remark \in {0, store.user}

Idle == wire = <<>> /\ ~store.timer /\ store.gateway # 0

\* At rest, an id shows the server's name if it was read with forceRefresh since
\* the last change, or renamed by this client in memory, and no load of it
\* failed: neither a read it was merged with, a row of the local database nor an
\* answer on its way at the time of the change keeps the old name.  It holds until
\* a load is applied that was told the old name and still had ids to ask for
\* when the name changed: the code shows that old name (see Overtaken).
ForcedIsFresh ==
  Idle => \A i \in history.owed : Holds(store, i) => store.entry[i].name = source[i]

\* At rest no id is shown without its name, unless its load has failed: a remark
\* that is written to an id not in the cache does not stand for its infos.
NoHollow ==
  Idle => \A i \in ToSet(store.held) :
              store.entry[i].name # 0 \/ i \in history.lost \/ i \in ToSet(store.pending)

\* The client's own change of the remark of i is confirmed.
Remarked(i) ==
  /\ wire # <<>> /\ wire' = Tail(wire)
  /\ Head(wire).op = "change" /\ Head(wire).field = "remark" /\ Head(wire).id = i

\* The step shows more than the cache has room for besides what it holds, so that what
\* is held may be pushed out on the way.
Overflows(shown) == Cardinality(ToSet(store.held) \cup shown) > size.cache

Displaces ==
  \/ FlushTimer /\ Overflows(ToSet(store.pending))
  \/ Answered /\ Head(wire).op = "fetch" /\ Overflows(Head(wire).need)

\* The step applies a load that was told the name of i before its last request.
ShowsLate(i) == Answered /\ Head(wire).op = "fetch" /\ i \in Overtaken(Head(wire))

\* In one session the name shown for an id never goes back to an older one,
\* except from the client's own change to the row that the local database has
\* and in a load of several requests whose early answer was overtaken by a change,
\* and its remark changes by nothing but the client's own change of it, unless
\* the step overflows the cache.
InfosMoveForward ==
  [][store'.gateway = store.gateway =>
       \A i \in Ids : Holds(store, i) /\ i \in ToSet(store'.held) =>
         /\ \/ store'.entry[i].name >= store.entry[i].name
            \/ i \in history.ahead \/ ShowsLate(i)
         /\ store'.entry[i].remark = store.entry[i].remark \/ Remarked(i) \/ Displaces]_cacheVars
=============================================================================
