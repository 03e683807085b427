---------------------------- MODULE LocalReplica ----------------------------
(***************************************************************************)
(* The local copy that a client in persistent mode keeps of its user's     *)
(* tables: PersistentDataGateway, the sync loops and the notification      *)
(* queue of BaseDataGateway (packages/sdk/src/datagateway).                *)
(*                                                                         *)
(* A domain is a server table, its local copy and a cursor in the local    *)
(* meta table.  Two actors pull pages of the server's rows into the copy:  *)
(* the background sync of the session's start, which walks the domains in  *)
(* order, and the notification queue, which runs one handler at a time.    *)
(* They share the tables, the cursors and the rebuild flags.               *)
(*                                                                         *)
(* The three kinds of domain are "messages" (no GC horizon, rows inserted  *)
(* without a status), "conversations" (runIncrementalSync, no rebuild) and *)
(* "relation" (contacts, blocklist, mutelist: tombstones are purged, and a *)
(* cursor below the horizon is answered seq_too_old).                      *)
(*                                                                         *)
(* Requests of one connection are served in order and answered in order;   *)
(* a SQLite call completes before the next answer is handled, so applying  *)
(* a page and advancing the cursor is one step, which only the death of    *)
(* the process can cut in two.                                             *)
(***************************************************************************)
EXTENDS Naturals, Sequences, FiniteSets, FiniteSetsExt

CONSTANTS
  Stages,         \* the domains in the order of the background sync
  Kind,           \* the kind of each domain
  Keys,           \* the row keys of every domain
  Chats,          \* the keys of conversations
  Limit,          \* rows of one page
  Schemas,        \* whether messages.status has a default in the local schema
  InitialServer,  \* the server's rows before the client's first session
  MaxWrites,      \* bound: writes on the server
  MaxPurges,      \* bound: tombstone purges
  MaxFaults       \* bound: requests that fail and restarts of the client

Domains == {Stages[i] : i \in DOMAIN Stages}

Relations == {d \in Domains : Kind[d] = "relation"}

ASSUME ReplicaAssumption ==
  /\ Stages \in Seq(Domains)
  /\ Kind \in [Domains -> {"messages", "conversations", "relation"}]
  /\ \A d, e \in Domains : Kind[d] = Kind[e] /\ Kind[d] # "relation" => d = e
  /\ IsFiniteSet(Keys) /\ Chats \subseteq Keys
  /\ Limit \in Nat \ {0}
  /\ Schemas \subseteq BOOLEAN
  /\ MaxWrites \in Nat /\ MaxPurges \in Nat /\ MaxFaults \in Nat

Actors == {"background", "handler"}

VARIABLES
  server,      \* per domain: max_seq, gc_safe_seq, rows
  notices,     \* updated notifications on their way, by domain
  gone,        \* deletion notifications on their way: <<domain, key>>
  wire,        \* the connection's requests, in order, with their answers
  table,       \* per domain: the seq of the local copy of each key, 0 for none
  cursor,      \* per domain: the cursor in the local meta table
  rebuilding,  \* per domain: the gateway's rebuild flag
  runs,        \* per actor: the sync it is running
  chain,       \* syncQueue: the types that have a node, in order
  flags,       \* pendingFlags
  deleted,     \* pendingDeletedConvKeys and pendingDeletedMsgIds
  statusDefault, \* the schema of the local database
  status,      \* per domain: the last success or failed of session:sync
  failed,      \* history: domains whose last sync to start did not complete
  exposed,     \* history: the windows that were hit (see Properties)
  spent        \* bounds used so far

world == <<statusDefault, server, notices, gone>>

queue == <<chain, flags, deleted>>

vars == <<world, wire, table, cursor, rebuilding, runs, queue, status, failed,
          exposed, spent>>

-----------------------------------------------------------------------------
(* The server's rows *)

Row == [seq : Nat, state : {"none", "live", "deleted"}]

NoRow == [seq |-> 0, state |-> "none"]

Box == [max : Nat, safe : Nat, rows : [Keys -> Row]]

\* A row's seq was drawn from max_seq.
Numbered(box) ==
  \A k \in Keys : LET row == box.rows[k]
                  IN  row.seq <= box.max /\ (row.seq = 0 <=> row.state = "none")

ASSUME InitialAssumption ==
  /\ InitialServer \in [Domains -> Box]
  /\ \A d \in Domains : Numbered(InitialServer[d])

\* A write gives the row a fresh seq of its domain.
Written(box, k, state) ==
  [box EXCEPT !.max = @ + 1,
              !.rows = [@ EXCEPT ![k] = [seq |-> box.max + 1, state |-> state]]]

Tombstones(box) == {k \in Keys : box.rows[k].state = "deleted"}

\* purgeUserSeqRows: all tombstones go and gc_safe_seq becomes their greatest seq.
Purged(box) ==
  [box EXCEPT
     !.safe = Max({box.safe} \cup {box.rows[k].seq : k \in Tombstones(box)}),
     !.rows = [k \in Keys |-> IF k \in Tombstones(box) THEN NoRow ELSE box.rows[k]]]

Page == [tooOld : BOOLEAN, rows : SUBSET [key : Keys, row : Row],
         more : BOOLEAN, cursor : Nat]

TooOld == [tooOld |-> TRUE, rows |-> {}, more |-> FALSE, cursor |-> 0]

\* SyncList and respondSyncPage: the first Limit rows above last, tombstones
\* included, with has_more and the greatest seq of the page.
PageAfter(box, last) ==
  LET newer == {k \in Keys : box.rows[k].seq > last}
      chosen == {k \in newer :
                   Cardinality({j \in newer : box.rows[j].seq < box.rows[k].seq}) < Limit}
  IN  [tooOld |-> FALSE,
       rows   |-> {[key |-> k, row |-> box.rows[k]] : k \in chosen},
       more   |-> chosen # newer,
       cursor |-> Max({0} \cup {box.rows[k].seq : k \in chosen})]

\* rejectTooOldSyncSeq
IsTooOld(box, last, rebuild) == ~rebuild /\ last < box.safe

-----------------------------------------------------------------------------
(* The sync loops *)

\* An actor works through todo; between domains no request is out.
Run == [pc : {"idle", "between", "waiting", "ended"}, todo : Seq(Domains),
        rebuild : BOOLEAN]

Idle == [pc |-> "idle", todo |-> <<>>, rebuild |-> FALSE]

Between(todo) == [pc |-> "between", todo |-> todo, rebuild |-> FALSE]

Request == [from : Actors, domain : Domains, last : Nat, rebuild : BOOLEAN,
            state : {"sent", "checked", "answered"}, page : Page]

InDomain(a, d) == runs[a].pc = "waiting" /\ Head(runs[a].todo) = d

\* syncDomainPage asks with rebuild when the loop says so, from zero, or while
\* the domain is flagged; sync_conversations has no such field.  Only a relation
\* has a horizon to be checked before its page is read.
RequestFor(a, d, last, rebuild, flag) ==
  [from |-> a, domain |-> d, last |-> last,
   rebuild |-> Kind[d] # "conversations" /\ (rebuild \/ last = 0 \/ flag),
   state |-> IF Kind[d] = "relation" THEN "sent" ELSE "checked", page |-> TooOld]

\* A deletion is announced by a type of its own, which no domain syncs for.
DeletionOf(d) == IF Kind[d] = "messages" THEN "messages:delete" ELSE "conversations:delete"

Deletions == {"messages:delete", "conversations:delete"}

\* The two are types of their own: no domain is announced by them.
ASSUME NoticeAssumption == Domains \cap Deletions = {}

Notices == Domains \cup Deletions

\* messages:received syncs messages and then conversations; the updated
\* notification of a relation syncs that relation.
Task(n) ==
  LET conversations == {d \in Domains : Kind[d] = "conversations"}
  IN  IF Kind[n] = "messages" /\ conversations # {}
      THEN <<n, CHOOSE d \in conversations : TRUE>>
      ELSE <<n>>

\* Mutant: a notification that comes while a handler runs is forgotten.
EnqueueWhenIdle(n) ==
  IF flags[n] \/ runs["handler"].pc # "idle"
  THEN UNCHANGED <<chain, flags>>
  ELSE flags' = [flags EXCEPT ![n] = TRUE] /\ chain' = Append(chain, n)

\* enqueue: a type that already waits is only marked; otherwise it is marked
\* and gets a node of its own at the end of the chain.
Enqueue(n) ==
  IF flags[n]
  THEN UNCHANGED <<chain, flags>>
  ELSE flags' = [flags EXCEPT ![n] = TRUE] /\ chain' = Append(chain, n)

Init ==
  /\ statusDefault \in Schemas
  /\ server = InitialServer
  /\ notices = {}
  /\ gone = {}
  /\ wire = <<>>
  /\ table = [d \in Domains |-> [k \in Keys |-> 0]]
  /\ cursor = [d \in Domains |-> 0]
  /\ rebuilding = [d \in Domains |-> FALSE]
  /\ runs = [a \in Actors |-> IF a = "background" THEN Between(Stages) ELSE Idle]
  /\ chain = <<>>
  /\ flags = [n \in Notices |-> FALSE]
  /\ deleted = {}
  /\ status = [d \in Domains |-> "undefined"]
  /\ failed = {}
  /\ exposed = {}
  /\ spent = [writes |-> 0, purges |-> 0, faults |-> 0]

-----------------------------------------------------------------------------
(* The server *)

Spend(bound) == spent' = [spent EXCEPT ![bound] = @ + 1]

ServerOnly ==
  UNCHANGED <<statusDefault, wire, table, cursor, rebuilding, runs, queue, status, failed>>

\* addFriend, blockUser, ...: a relation row is written and its user notified.
Put(d, k) ==
  /\ Kind[d] = "relation" /\ spent.writes < MaxWrites
  /\ server' = [server EXCEPT ![d] = Written(@, k, "live")]
  /\ notices' = notices \cup {d}
  /\ Spend("writes")
  /\ UNCHANGED <<gone, exposed>> /\ ServerOnly

\* removeFriend, unblockUser, ...: the row becomes a tombstone.
Remove(d, k) ==
  /\ Kind[d] = "relation" /\ spent.writes < MaxWrites
  /\ server[d].rows[k].state = "live"
  /\ server' = [server EXCEPT ![d] = Written(@, k, "deleted")]
  /\ notices' = notices \cup {d}
  /\ Spend("writes")
  /\ UNCHANGED <<gone, exposed>> /\ ServerOnly

\* Messages and conversations take their seqs from one messages_version.
WriteShared(d, k, state) ==
  server' = [e \in Domains |->
               IF e = d THEN Written(server[e], k, state)
               ELSE IF Kind[e] = "relation" THEN server[e]
               ELSE [server[e] EXCEPT !.max = @ + 1]]

\* A message arrives: its row and its conversation's get the same seq.
Receive(m, c, k, chat) ==
  /\ Kind[m] = "messages" /\ Kind[c] = "conversations" /\ spent.writes < MaxWrites
  /\ server[m].rows[k].state = "none"
  /\ server' = [server EXCEPT ![m] = Written(@, k, "live"), ![c] = Written(@, chat, "live")]
  /\ notices' = notices \cup {m}
  /\ Spend("writes")
  /\ UNCHANGED <<gone, exposed>> /\ ServerOnly

\* DeleteMessage and DeleteConversation: a tombstone, and a notification that
\* names the row and makes nobody sync.
Delete(d, k) ==
  /\ Kind[d] # "relation" /\ spent.writes < MaxWrites
  /\ server[d].rows[k].state = "live"
  /\ WriteShared(d, k, "deleted")
  /\ gone' = gone \cup {<<d, k>>}
  /\ Spend("writes")
  /\ UNCHANGED <<notices, exposed>> /\ ServerOnly

\* Pages of d are read without a look at the horizon: a rebuild is under way, was
\* left behind or will come next, or a request has already been checked.
Unguarded(d) ==
  \/ cursor[d] = 0 \/ rebuilding[d]
  \/ \E i \in DOMAIN wire : wire[i].domain = d /\ (wire[i].rebuild \/ wire[i].state = "checked")

\* The GC ticker: every tombstone of a relation, without a retention period.
Purge(d) ==
  /\ Kind[d] = "relation" /\ spent.purges < MaxPurges
  /\ Tombstones(server[d]) # {}
  /\ server' = [server EXCEPT ![d] = Purged(@)]
  /\ exposed' = IF Unguarded(d) THEN exposed \cup {"unguarded purge"} ELSE exposed
  /\ Spend("purges")
  /\ UNCHANGED <<notices, gone>> /\ ServerOnly

\* The connection's read loop handles one request after the other.
Served(i) == wire[i].state # "answered" /\ \A j \in 1..(i - 1) : wire[j].state = "answered"

\* SyncContacts and its siblings first read gc_safe_seq ...
CheckHorizon ==
  \E i \in DOMAIN wire :
    /\ Served(i) /\ wire[i].state = "sent"
    /\ LET r == wire[i]
       IN  wire' = [wire EXCEPT ![i].state =
                      IF IsTooOld(server[r.domain], r.last, r.rebuild)
                      THEN "answered" ELSE "checked"]
    /\ UNCHANGED <<world, table, cursor, rebuilding, runs, queue, status, failed,
                   exposed, spent>>

\* ... and then, outside of that transaction, the page.
ReadPage ==
  \E i \in DOMAIN wire :
    /\ Served(i) /\ wire[i].state = "checked"
    /\ wire' = [wire EXCEPT ![i].state = "answered",
                            ![i].page = PageAfter(server[wire[i].domain], wire[i].last)]
    /\ UNCHANGED <<world, table, cursor, rebuilding, runs, queue, status, failed,
                   exposed, spent>>

Serve == CheckHorizon \/ ReadPage

-----------------------------------------------------------------------------
(* The client *)

\* fullSyncDomain: the cursor is read and the first page asked for.
Begin(a) ==
  /\ runs[a].pc = "between" /\ runs[a].todo # <<>>
  /\ LET d == Head(runs[a].todo)
         zero == Kind[d] # "conversations" /\ cursor[d] = 0
     IN  /\ wire' = Append(wire, RequestFor(a, d, cursor[d], zero, rebuilding[d]))
         /\ runs' = [runs EXCEPT ![a] = [@ EXCEPT !.pc = "waiting", !.rebuild = zero]]
         /\ failed' = failed \ {d}
  /\ UNCHANGED <<world, table, cursor, rebuilding, queue, status, exposed, spent>>

\* Mutant: tombstones are skipped.
AppliedLive(rows, page) ==
  [k \in Keys |->
     IF \E r \in page.rows : r.key = k /\ r.row.state = "live"
     THEN (CHOOSE r \in page.rows : r.key = k).row.seq
     ELSE rows[k]]

\* applyContactSyncBatch and its siblings: upsert the live rows, delete the rest.
Applied(rows, page) ==
  [k \in Keys |->
     IF \E r \in page.rows : r.key = k
     THEN LET r == CHOOSE r \in page.rows : r.key = k
          IN  IF r.row.state = "live" THEN r.row.seq ELSE 0
     ELSE rows[k]]

\* applyMessageSyncBatch inserts a message without a status: with a schema that
\* gives none, NOT NULL fails and the batch is rolled back.
Rejected(d, page) ==
  Kind[d] = "messages" /\ ~statusDefault /\ \E r \in page.rows : r.row.state = "live"

\* saveCursor.
Saved(old, page) == Max({old, page.cursor})

\* The first answer on the wire is a's, for domain d.
Arrives(a, d) ==
  wire # <<>> /\ Head(wire).state = "answered" /\ Head(wire).from = a /\ Head(wire).domain = d

\* A domain is done: the background reports it at once, a handler at its end.
Completed(a, d) ==
  /\ runs' = [runs EXCEPT ![a] = Between(Tail(@.todo))]
  /\ status' = IF a = "background" THEN [status EXCEPT ![d] = "success"] ELSE status

\* The domain fails: the background sync ends there, a handler gives up its task.
GivesUp(a, d) ==
  /\ runs' = [runs EXCEPT ![a] = [Idle EXCEPT !.pc = IF a = "background" THEN "ended" ELSE "idle"]]
  /\ status' = [status EXCEPT ![IF a = "background" THEN d ELSE Head(chain)] = "failed"]
  /\ failed' = failed \cup {runs[a].todo[i] : i \in DOMAIN runs[a].todo}

\* Mutant: the reset forgets the row of the meta table.
ResetCursorKept(d) == cursor' = cursor

\* Mutant: a reset marks the cursor as unknown.
ResetCursorUnknown(d) == cursor' = [cursor EXCEPT ![d] = 0 - 1]

ResetCursor(d) == cursor' = [cursor EXCEPT ![d] = 0]

\* SEQ_TOO_OLD: the copy and its cursor are cleared and the loop starts again
\* from zero with rebuild.
Reset(a, d) ==
  /\ Arrives(a, d) /\ Head(wire).page.tooOld
  /\ table' = [table EXCEPT ![d] = [k \in Keys |-> 0]]
  /\ ResetCursor(d)
  /\ rebuilding' = [rebuilding EXCEPT ![d] = TRUE]
  /\ wire' = Append(Tail(wire), RequestFor(a, d, 0, TRUE, TRUE))
  /\ runs' = [runs EXCEPT ![a].rebuild = TRUE]
  /\ exposed' = IF \E b \in Actors \ {a} : InDomain(b, d)
                THEN exposed \cup {"reset overlaps"} ELSE exposed
  /\ UNCHANGED <<world, queue, status, failed, spent>>

\* Mutant: has_more is ignored.
LastPage(page) == TRUE

\* The loop ends with the page that has nothing after it.
IsLast(page) == page.rows = {} \/ ~page.more

\* A page is applied, the cursor saved, the rebuild flag maintained, and the
\* next page asked for unless this was the last.
Apply(a, d) ==
  /\ Arrives(a, d) /\ ~Head(wire).page.tooOld /\ ~Rejected(d, Head(wire).page)
  /\ LET r == Head(wire)
         page == r.page
     IN  /\ table' = [table EXCEPT ![d] = Applied(@, page)]
         /\ cursor' = [cursor EXCEPT ![d] = Saved(@, page)]
         /\ rebuilding' = [rebuilding EXCEPT ![d] = r.rebuild /\ page.rows # {} /\ page.more]
         /\ IF IsLast(page)
            THEN Completed(a, d) /\ wire' = Tail(wire)
            ELSE /\ wire' = Append(Tail(wire),
                              RequestFor(a, d, page.cursor, runs[a].rebuild, rebuilding'[d]))
                 /\ UNCHANGED <<runs, status>>
  /\ UNCHANGED <<world, queue, failed, exposed, spent>>

\* The insert of a message row fails.
Reject(a, d) ==
  /\ Arrives(a, d) /\ ~Head(wire).page.tooOld /\ Rejected(d, Head(wire).page)
  /\ GivesUp(a, d)
  /\ wire' = Tail(wire)
  /\ UNCHANGED <<world, table, cursor, rebuilding, queue, exposed, spent>>

\* The request of a fails (a timeout, an error of the server): a late answer
\* finds no pending request.
Fail(a, d) ==
  /\ InDomain(a, d) /\ spent.faults < MaxFaults
  /\ GivesUp(a, d)
  /\ \E i \in DOMAIN wire :
       wire[i].from = a /\ wire' = SubSeq(wire, 1, i - 1) \o SubSeq(wire, i + 1, Len(wire))
  /\ Spend("faults")
  /\ UNCHANGED <<world, table, cursor, rebuilding, queue, exposed>>

\* Every stage is done.
EndBackground ==
  /\ runs["background"] = Between(<<>>)
  /\ runs' = [runs EXCEPT !["background"] = [Idle EXCEPT !.pc = "ended"]]
  /\ UNCHANGED <<world, wire, table, cursor, rebuilding, queue, status, failed, exposed, spent>>

-----------------------------------------------------------------------------
(* The notification queue *)

Untouched == UNCHANGED <<statusDefault, server, wire, table, cursor, rebuilding, runs, status, failed,
                         exposed, spent>>

Deliver(n) ==
  /\ n \in notices
  /\ notices' = notices \ {n}
  /\ Enqueue(n)
  /\ UNCHANGED <<gone, deleted>> /\ Untouched

DeliverDeletion(d, k) ==
  /\ <<d, k>> \in gone
  /\ gone' = gone \ {<<d, k>>}
  /\ deleted' = deleted \cup {<<d, k>>}
  /\ Enqueue(DeletionOf(d))
  /\ UNCHANGED notices /\ Untouched

\* The node at the head runs its handler while its flag is set.
Handle ==
  /\ runs["handler"].pc = "idle" /\ chain # <<>> /\ Head(chain) \notin Deletions
  /\ flags[Head(chain)]
  /\ flags' = [flags EXCEPT ![Head(chain)] = FALSE]
  /\ runs' = [runs EXCEPT !["handler"] = Between(Task(Head(chain)))]
  /\ UNCHANGED <<world, wire, table, cursor, rebuilding, chain, deleted, status, failed,
                 exposed, spent>>

\* deleteLocalConversation and deleteLocalMessage: rows only, no cursor.
HandleDeletions ==
  LET type == Head(chain)
      named == {x \in deleted : DeletionOf(x[1]) = type}
  IN  /\ runs["handler"].pc = "idle" /\ chain # <<>> /\ type \in Deletions
      /\ flags[type]
      /\ flags' = [flags EXCEPT ![type] = FALSE]
      /\ deleted' = deleted \ named
      /\ table' = [d \in Domains |-> [k \in Keys |-> IF <<d, k>> \in named THEN 0 ELSE table[d][k]]]
      /\ exposed' = IF \E x \in named : server[x[1]].rows[x[2]].state = "live"
                    THEN exposed \cup {"late deletion"} ELSE exposed
      /\ UNCHANGED <<world, wire, cursor, rebuilding, runs, chain, status, failed, spent>>

\* The handler succeeded; the node looks at its flag again.
HandlerDone ==
  /\ runs["handler"] = Between(<<>>)
  /\ runs' = [runs EXCEPT !["handler"] = Idle]
  /\ status' = [status EXCEPT ![Head(chain)] = "success"]
  /\ UNCHANGED <<world, wire, table, cursor, rebuilding, queue, failed, exposed, spent>>

\* The flag is clear: the next node follows.
NextNode ==
  /\ runs["handler"].pc = "idle" /\ chain # <<>> /\ ~flags[Head(chain)]
  /\ chain' = Tail(chain)
  /\ UNCHANGED <<world, wire, table, cursor, rebuilding, runs, flags, deleted, status,
                 failed, exposed, spent>>

-----------------------------------------------------------------------------
(* A new gateway on the same database file: clear() and init(), or a new process *)

Fresh ==
  /\ notices' = {} /\ gone' = {} /\ wire' = <<>> /\ chain' = <<>> /\ deleted' = {}
  /\ flags' = [n \in Notices |-> FALSE]
  /\ rebuilding' = [d \in Domains |-> FALSE]
  /\ runs' = [a \in Actors |-> IF a = "background" THEN Between(Stages) ELSE Idle]
  /\ status' = [d \in Domains |-> "undefined"]
  /\ failed' = {}
  /\ spent.faults < MaxFaults /\ Spend("faults")
  /\ UNCHANGED <<statusDefault, server>>

Restart == Fresh /\ UNCHANGED <<table, cursor, exposed>>

\* The process dies between the rows of a page and its cursor, or between the
\* two DELETEs of a reset.
Die(a, d) ==
  /\ Arrives(a, d) /\ ~Rejected(d, Head(wire).page)
  /\ table' = [table EXCEPT ![d] = IF Head(wire).page.tooOld THEN [k \in Keys |-> 0]
                                   ELSE Applied(@, Head(wire).page)]
  /\ exposed' = IF Head(wire).page.tooOld /\ Head(wire).last < cursor[d]
                THEN exposed \cup {"reset overlaps"} ELSE exposed
  /\ Fresh /\ UNCHANGED cursor

\* What runs before the event loop takes the next frame: the continuations of
\* resolved promises.
Continue ==
  \/ \E a \in Actors : Begin(a)
  \/ EndBackground
  \/ Handle \/ HandleDeletions \/ HandlerDone \/ NextNode

Settled ==
  /\ \A a \in Actors : runs[a].pc # "between"
  /\ runs["handler"].pc = "idle" => chain = <<>>

\* An answer is handled.
Answered == \E a \in Actors, d \in Domains : Reset(a, d) \/ Apply(a, d) \/ Reject(a, d)

\* A notification is handled.
Notified ==
  \/ \E d \in Domains : Deliver(d)
  \/ \E d \in Domains, k \in Keys : DeliverDeletion(d, k)

Write ==
  \/ \E d \in Domains, k \in Keys : Put(d, k) \/ Remove(d, k) \/ Delete(d, k)
  \/ \E m, c \in Domains, k \in Keys, chat \in Chats : Receive(m, c, k, chat)
  \/ \E d \in Domains : Purge(d)

Fault ==
  \/ \E a \in Actors, d \in Domains : Fail(a, d) \/ Die(a, d)
  \/ Restart

Next == Continue \/ (Settled /\ (Serve \/ Answered \/ Notified \/ Write \/ Fault))

Spec == Init /\ [][Next]_vars

\* The server answers, notifications arrive and promises are continued; nobody
\* has to write, purge, fail or restart.
FairSpec ==
  /\ Spec
  /\ WF_vars(Continue)
  /\ WF_vars(Settled /\ Serve)
  /\ WF_vars(Settled /\ Answered)
  /\ WF_vars(Settled /\ Notified)

-----------------------------------------------------------------------------
(* Properties *)

TypeOK ==
  /\ server \in [Domains -> Box]
  /\ notices \subseteq Domains
  /\ gone \subseteq Domains \X Keys
  /\ wire \in Seq(Request)
  /\ table \in [Domains -> [Keys -> Nat]]
  /\ cursor \in [Domains -> Nat]
  /\ rebuilding \in [Domains -> BOOLEAN]
  /\ runs \in [Actors -> Run]
  /\ chain \in Seq(Notices)
  /\ flags \in [Notices -> BOOLEAN]
  /\ deleted \subseteq Domains \X Keys
  /\ status \in [Domains -> {"undefined", "success", "failed"}]
  /\ failed \subseteq Domains
  /\ exposed \subseteq {"reset overlaps", "unguarded purge", "late deletion"}

Live(d, k) == server[d].rows[k].state = "live"

\* The cursor never passes a row the copy lacks, because what it covers is not
\* sent again: whatever the order of pages, failures and deaths, unless the cursor
\* is below the horizon and the next sync starts again, or a reset overlapped the
\* other actor's sync, or a deletion was applied after the row had come back.
NoneMissing ==
  exposed \cap {"reset overlaps", "late deletion"} = {} =>
    \A d \in Domains, k \in Keys :
      Live(d, k) /\ server[d].rows[k].seq <= cursor[d] =>
        \/ table[d][k] = server[d].rows[k].seq
        \/ cursor[d] < server[d].safe

\* A local row that the server no longer has is one the client will still hear
\* of: its tombstone is above the cursor, or the cursor is below the horizon and
\* the next sync starts again; unless a purge fell between the check of the
\* horizon and the page, or into a rebuild, which does not ask for the horizon.
NoGhost ==
  exposed \cap {"unguarded purge", "reset overlaps"} = {} =>
    \A d \in Domains, k \in Keys :
      table[d][k] # 0 /\ ~Live(d, k) =>
        \/ server[d].rows[k].state = "deleted" /\ server[d].rows[k].seq > cursor[d]
        \/ cursor[d] < server[d].safe

\* Nothing of relation d is under way, on the wire or in the queue.
Quiet(d) ==
  /\ d \notin notices
  /\ chain = <<>>
  /\ runs["handler"].pc = "idle" /\ runs["background"].pc = "ended"

Same(d) == \A k \in Keys : table[d][k] = IF Live(d, k) THEN server[d].rows[k].seq ELSE 0

\* No wake-up is lost: when the queue is empty and the last sync of a relation did
\* not fail, its copy is the server's table, however the notifications were merged
\* and whichever actor brought the rows.  (Messages and conversations are deleted
\* without a sync: a page read before the deletion may bring the row back until
\* the next sync, which NoGhost allows.)
QuiescentSame ==
  exposed = {} => \A d \in Relations \ failed : Quiet(d) => Same(d)

\* Once the server is quiet the copies catch up and stay caught up.
Converges == <>[](exposed = {} => \A d \in Relations \ failed : Same(d))

\* runBackgroundSync and the documented readiness of the first sync: when the
\* background sync has ended, every domain was reported, with success or failed.
BackgroundSettles ==
  runs["background"].pc = "ended" => \A d \in Domains : status[d] # "undefined"

=============================================================================
