----------------------------- MODULE Messaging -----------------------------
(***************************************************************************)
(* Sending and recalling messages, in direct chats and in one group: the   *)
(* requests, the task queue that fans group messages out, and the inboxes  *)
(* (server/internal/service/message.go, message_recall.go and the member   *)
(* calls of group.go, over dal and taskqueue).                             *)
(*                                                                         *)
(* A request first writes the caller's own inbox.  In a direct chat it     *)
(* then writes the inbox of the peer; in the group it reads the member     *)
(* list and hands a task to the queue, and a worker of the queue writes    *)
(* the inbox of every target.  No transaction spans two of these writes,   *)
(* so each is an action, and requests, workers and a restart interleave    *)
(* between any two of them.                                                *)
(*                                                                         *)
(* Actors are the goroutines that run service code.  An actor's work on    *)
(* one user's inbox follows a cursor at[a][u]:                             *)
(*    insert -> mask -> event -> touch -> done                             *)
(* of which a plain message skips the middle two.                          *)
(***************************************************************************)
EXTENDS Inbox, FiniteSets

CONSTANTS
  Founders,      \* members of the group when the model starts
  Muted,         \* users who have muted every chat of theirs
  Messages,      \* msg_ids that clients send
  Recalls,       \* msg_ids of recall requests, hence of recall events
  Systems,       \* msg_ids the server draws for system messages
  From,          \* From[m]: the user who sends m
  To,            \* To[m]: the peer of a direct message, NoUser in the group
  RecallOf,      \* RecallOf[e]: the message that recall e withdraws
  Requests,      \* goroutines serving a websocket connection
  Workers,       \* goroutines draining the task queue
  MaxAttempts,   \* bound: times a client sends the same msg_id
  MaxEdits,      \* bound: deletions and clear_unread calls
  MaxFaults,     \* bound: database errors
  MaxCrashes     \* bound: restarts of the server process

ASSUME MessagingAssumption ==
  /\ Founders \subseteq Users
  /\ Muted \subseteq Users
  /\ Ids = Messages \cup Recalls \cup Systems
  /\ Messages \cap Recalls = {}
  /\ Messages \cap Systems = {}
  /\ Recalls \cap Systems = {}
  /\ From \in [Messages -> Users]
  /\ To \in [Messages -> Users \cup {NoUser}]
  /\ \A m \in Messages : To[m] # From[m]
  /\ RecallOf \in [Recalls -> Messages]
  /\ Requests \cap Workers = {}
  /\ {MaxAttempts, MaxEdits, MaxFaults, MaxCrashes} \subseteq Nat

Actors == Requests \cup Workers

VARIABLES
  members,     \* group_member rows
  inbox,       \* inbox[u]: rows of u's uid shard
  stored,      \* rows of the task_queue table
  channel,     \* tasks waiting in the queue's channel
  job,         \* job[a]: what actor a is executing
  at,          \* at[a][u]: how far a is with u's inbox
  nextTask,    \* next AUTOINCREMENT id of task_queue
  notified,    \* notified[u]: msg_ids signalled to u's connections so far
  submitted,   \* history: every task ever stored
  acked,       \* history: the msg_ids whose request was answered OK
  attempts, edits, faults, crashes   \* counters the bounds above limit

store == <<members, inbox, stored>>
history == <<submitted, acked>>
counters == <<attempts, edits, faults, crashes>>
vars == <<store, channel, job, at, nextTask, notified, history, counters>>

-----------------------------------------------------------------------------
(* Tasks and jobs *)

JobKinds == {"send", "recall", "system"}

\* A GroupMessageTask or GroupSystemTask.  who is from_uid, NoUser for a
\* system message; event is the recall event of a recall, NoId otherwise.
Task ==
  [id : Nat, kind : JobKinds, who : Users \cup {NoUser}, msg : Ids,
   event : Ids \cup {NoId}, targets : SUBSET Users]

\* What an actor executes: a request in stage own, peer, list, drop or submit,
\* or a task in stage fanout or remove.
Job ==
  [id : Nat, kind : JobKinds \cup {"none"}, who : Users \cup {NoUser},
   msg : Ids \cup {NoId}, event : Ids \cup {NoId}, targets : SUBSET Users,
   stage : {"idle", "own", "peer", "list", "drop", "submit", "fanout", "remove"}]

NoJob == [id |-> 0, kind |-> "none", who |-> NoUser, msg |-> NoId,
          event |-> NoId, targets |-> {}, stage |-> "idle"]

Steps == {"idle", "insert", "mask", "event", "touch", "done"}

Cursor == [pc : Steps, seq : Nat]

Idle == [pc |-> "idle", seq |-> 0]

\* The cursors of an actor about to write the inboxes of the users in S.
Starting(S) ==
  [u \in Users |-> IF u \in S THEN [pc |-> "insert", seq |-> 0] ELSE Idle]

Request(kind, who, msg, event, targets, stage) ==
  [id |-> 0, kind |-> kind, who |-> who, msg |-> msg,
   event |-> event, targets |-> targets, stage |-> stage]

\* The task that a request submits once its targets are known.
TaskOf(j) ==
  [id |-> nextTask, kind |-> j.kind,
   who |-> IF j.kind = "system" THEN NoUser ELSE j.who,
   msg |-> j.msg, event |-> j.event, targets |-> j.targets]

JobOf(t) ==
  [id |-> t.id, kind |-> t.kind, who |-> t.who, msg |-> t.msg,
   event |-> t.event, targets |-> t.targets, stage |-> "fanout"]

\* Mutant: the fan-out does not wait for every goroutine.
SomeWritten(a) == \E u \in job[a].targets : at[a][u].pc = "done"

\* All the inboxes the actor set out to write are written.
AllWritten(a) == \A u \in job[a].targets : at[a][u].pc = "done"

\* The msg_id a job adds to the conversation: that of the recall event for a
\* recall, whose placeholder is an old message.
Newest(j) == IF j.kind = "recall" THEN j.event ELSE j.msg

-----------------------------------------------------------------------------
(* Requests *)

Direct(m) == To[m] # NoUser

Begin(h, id, j, S) ==
  /\ job[h] = NoJob
  /\ attempts[id] < MaxAttempts
  /\ attempts' = [attempts EXCEPT ![id] = attempts[id] + 1]
  /\ job' = [job EXCEPT ![h] = j]
  /\ at' = [at EXCEPT ![h] = Starting(S)]
  /\ UNCHANGED <<inbox, stored, channel, nextTask, notified, history,
                 edits, faults, crashes>>

\* send_message: sendGroupMessage checks the membership.
StartSend(h, m) ==
  /\ Direct(m) \/ From[m] \in members
  /\ Begin(h, m, Request("send", From[m], m, NoId, {From[m]}, "own"), {From[m]})
  /\ UNCHANGED members

\* send_message with a RecallBody: recallViaSend looks only at the caller's
\* own copy, which must be there with its text.  It does not ask whether the
\* caller is still a member.
StartRecall(h, e) ==
  LET m == RecallOf[e]
      u == From[m]
  IN /\ Live(inbox[u], m)
     /\ inbox[u].rows[m].kind = "original"
     /\ Begin(h, e, Request("recall", u, m, e, {u}, "own"), {u})
     /\ UNCHANGED members

\* AddGroupMember: the row is inserted, the list is read afterwards.
AddGroupMember(h, s, u) ==
  /\ u \notin members
  /\ attempts[s] = 0
  /\ members' = members \cup {u}
  /\ Begin(h, s, Request("system", u, s, NoId, {}, "list"), {})

\* RemoveGroupMember reads the list first, the removed member included.
StartRemove(h, s, u) ==
  /\ attempts[s] = 0
  /\ Begin(h, s, Request("system", u, s, NoId, members, "drop"), {})
  /\ UNCHANGED members

RemoveMember(h) ==
  /\ job[h].stage = "drop"
  /\ members' = members \ {job[h].who}
  /\ job' = [job EXCEPT ![h] = IF job[h].who \in members
                               THEN [job[h] EXCEPT !.stage = "submit"]
                               ELSE NoJob]
  /\ UNCHANGED <<inbox, stored, channel, at, nextTask, notified, history, counters>>

\* The request ends with an OK answer, unless it is a recall whose event the
\* caller has deleted in the meantime: recall_event_not_found.
Answer(j) ==
  acked' = IF j.kind = "recall" /\ ~Live(inbox[j.who], j.event)
           THEN acked
           ELSE acked \cup {Newest(j)}

OwnInboxWritten(h) == job[h].stage = "own" /\ AllWritten(h)

\* Mutant: a duplicate found in the own inbox is answered at once.
TurnToPeerIfNew(h) ==
  /\ OwnInboxWritten(h)
  /\ Direct(job[h].msg)
  /\ IF job[h].kind = "send" /\ at[h][job[h].who].seq = 0
     THEN /\ job' = [job EXCEPT ![h] = NoJob]
          /\ at' = [at EXCEPT ![h] = Starting({})]
          /\ Answer(job[h])
     ELSE /\ job' = [job EXCEPT ![h] = [job[h] EXCEPT !.targets = {To[job[h].msg]},
                                                      !.stage = "peer"]]
          /\ at' = [at EXCEPT ![h] = Starting({To[job[h].msg]})]
          /\ UNCHANGED acked
  /\ UNCHANGED <<store, channel, nextTask, notified, submitted, counters>>

\* A direct message or its recall goes on to the inbox of the peer.
TurnToPeer(h) ==
  /\ OwnInboxWritten(h)
  /\ Direct(job[h].msg)
  /\ job' = [job EXCEPT ![h] = [job[h] EXCEPT !.targets = {To[job[h].msg]},
                                              !.stage = "peer"]]
  /\ at' = [at EXCEPT ![h] = Starting({To[job[h].msg]})]
  /\ UNCHANGED <<store, channel, nextTask, notified, history, counters>>

\* Both connections are told and the request is answered.  A recall is
\* signalled under the msg_id of the message it withdraws.
AnswerDirect(h) ==
  LET j == job[h]
  IN /\ j.stage = "peer"
     /\ AllWritten(h)
     /\ notified' = [u \in Users |->
                       IF u \in {j.who, To[j.msg]}
                       THEN notified[u] \cup {j.msg}
                       ELSE notified[u]]
     /\ Answer(j)
     /\ job' = [job EXCEPT ![h] = NoJob]
     /\ at' = [at EXCEPT ![h] = Starting({})]
     /\ UNCHANGED <<store, channel, nextTask, submitted, counters>>

\* ListAllMembers: a message goes to the other members, a system message to all.
ListMembers(h) ==
  LET j == job[h]
  IN /\ \/ j.stage = "list"
        \/ OwnInboxWritten(h) /\ ~Direct(j.msg)
     /\ job' = [job EXCEPT
                  ![h] = [j EXCEPT
                            !.targets = IF j.kind = "system" THEN members
                                                             ELSE members \ {j.who},
                            !.stage = "submit"]]
     /\ at' = [at EXCEPT ![h] = Starting({})]
     /\ UNCHANGED <<store, channel, nextTask, notified, history, counters>>

\* submitTask: the queue stores the task, then dispatches it; the request ends.
Submit(h) ==
  LET t == TaskOf(job[h])
  IN /\ job[h].stage = "submit"
     /\ stored' = stored \cup {t}
     /\ submitted' = submitted \cup {t}
     /\ channel' = channel \cup {t}
     /\ nextTask' = nextTask + 1
     /\ Answer(job[h])
     /\ job' = [job EXCEPT ![h] = NoJob]
     /\ UNCHANGED <<members, inbox, at, notified, counters>>

-----------------------------------------------------------------------------
(* Writing one inbox: sendDM, sendGroupMessage and applyRecallState for a   *)
(* request, applyGroupMessage and handleGroupSystemTask for a worker.       *)

BodyOf(kind) ==
  CASE kind = "send" -> "original"
    [] kind = "recall" -> "placeholder"
    [] kind = "system" -> "system"

\* Mutant: a recall that finds the message does not overwrite its text.
AfterInsertUnmasked(j, u, seq) ==
  IF j.kind = "recall" THEN "event"
  ELSE IF seq = 0 /\ u # j.who THEN "done" ELSE "touch"

\* Mutant: a recall that arrives before its message writes no event.
AfterInsertSilent(j, u, seq) ==
  IF j.kind = "recall"
  THEN IF seq = 0 THEN "mask" ELSE "done"
  ELSE IF seq = 0 /\ u # j.who THEN "done" ELSE "touch"

\* A recall masks the copy it finds.  A message touches the conversation of a
\* receiver only when the row is new, that of its sender in any case, with
\* the 0 of a duplicate too.
AfterInsert(j, u, seq) ==
  IF j.kind = "recall"
  THEN IF seq = 0 THEN "mask" ELSE "event"
  ELSE IF seq = 0 /\ u # j.who THEN "done" ELSE "touch"

MoveTo(a, u, pc, seq) ==
  /\ at' = [at EXCEPT ![a] = [at[a] EXCEPT ![u] = [pc |-> pc, seq |-> seq]]]
  /\ UNCHANGED <<members, stored, channel, job, nextTask, notified,
                 history, counters>>

InsertRow(a, u) ==
  LET seq == InsertedSeq(inbox[u], job[a].msg)
  IN /\ at[a][u].pc = "insert"
     /\ inbox' = [inbox EXCEPT
                    ![u] = Insert(inbox[u], job[a].msg, BodyOf(job[a].kind))]
     /\ MoveTo(a, u, AfterInsert(job[a], u, seq), seq)

MaskRow(a, u) ==
  /\ at[a][u].pc = "mask"
  /\ inbox' = [inbox EXCEPT ![u] = Mask(inbox[u], job[a].msg)]
  /\ MoveTo(a, u, "event", 0)

InsertEvent(a, u) ==
  LET seq == InsertedSeq(inbox[u], job[a].event)
  IN /\ at[a][u].pc = "event"
     /\ inbox' = [inbox EXCEPT ![u] = Insert(inbox[u], job[a].event, "event")]
     /\ MoveTo(a, u, IF seq = 0 THEN "done" ELSE "touch", seq)

\* recipientUnreadMode for the receiver of a message; a system message counts
\* as unread in a muted chat too; senders and recalls keep the count.
UnreadMode(j, u) ==
  IF j.kind = "system" \/ (j.kind = "send" /\ u # j.who /\ u \notin Muted)
  THEN "increment"
  ELSE "keep"

\* The key of the conversation row in u's shard: the other side, or the group.
PeerOf(j, u) ==
  IF j.kind = "system" \/ ~Direct(j.msg) THEN NoUser
  ELSE IF u = j.who THEN To[j.msg] ELSE j.who

TouchConversation(a, u) ==
  LET j == job[a]
  IN /\ at[a][u].pc = "touch"
     /\ inbox' = [inbox EXCEPT
                    ![u] = Upsert(inbox[u], PeerOf(j, u), at[a][u].seq,
                                  Newest(j), UnreadMode(j, u))]
     /\ MoveTo(a, u, "done", at[a][u].seq)

WriteInbox(a, u) ==
  \/ InsertRow(a, u)
  \/ MaskRow(a, u)
  \/ InsertEvent(a, u)
  \/ TouchConversation(a, u)

-----------------------------------------------------------------------------
(* Workers *)

\* Mutant: the row of a task is deleted when a worker takes it.
TakeForGood(w) ==
  \E t \in channel :
    /\ job[w] = NoJob
    /\ channel' = channel \ {t}
    /\ stored' = stored \ {t}
    /\ job' = [job EXCEPT ![w] = JobOf(t)]
    /\ at' = [at EXCEPT ![w] = Starting(t.targets)]
    /\ UNCHANGED <<members, inbox, nextTask, notified, history, counters>>

\* A worker receives a task from the channel.  The order of the channel is
\* not kept: with two workers the first step of a later task may precede
\* that of an earlier one anyway.
Take(w) ==
  \E t \in channel :
    /\ job[w] = NoJob
    /\ channel' = channel \ {t}
    /\ job' = [job EXCEPT ![w] = JobOf(t)]
    /\ at' = [at EXCEPT ![w] = Starting(t.targets)]
    /\ UNCHANGED <<store, nextTask, notified, history, counters>>

\* Every goroutine of the fan-out is done: the connections of the targets and
\* of the sender are told, and the handler returns nil.
Notify(w) ==
  LET j == job[w]
  IN /\ j.stage = "fanout"
     /\ AllWritten(w)
     /\ notified' = [u \in Users |->
                       IF u \in j.targets \cup {j.who}
                       THEN notified[u] \cup {j.msg}
                       ELSE notified[u]]
     /\ job' = [job EXCEPT ![w] = [j EXCEPT !.stage = "remove"]]
     /\ UNCHANGED <<store, channel, at, nextTask, history, counters>>

\* Queue.run deletes the row of a task whose handler returned nil.
RemoveTask(w) ==
  /\ job[w].stage = "remove"
  /\ stored' = {t \in stored : t.id # job[w].id}
  /\ job' = [job EXCEPT ![w] = NoJob]
  /\ at' = [at EXCEPT ![w] = Starting({})]
  /\ UNCHANGED <<members, inbox, channel, nextTask, notified, history, counters>>

WorkerStep(w) ==
  \/ Take(w)
  \/ \E u \in Users : WriteInbox(w, u)
  \/ Notify(w)
  \/ RemoveTask(w)

-----------------------------------------------------------------------------
(* Users editing their own copy: delete_message, delete_conversation and    *)
(* clear_unread.                                                            *)

Edit(u, box) ==
  /\ edits < MaxEdits
  /\ edits' = edits + 1
  /\ inbox' = [inbox EXCEPT ![u] = box]
  /\ UNCHANGED <<members, stored, channel, job, at, nextTask, notified,
                 history, attempts, faults, crashes>>

DeleteMessage(u, i) ==
  /\ Live(inbox[u], i)
  /\ Edit(u, DeleteByMsgID(inbox[u], i))

RemoveConversation(u, k) ==
  /\ inbox[u].conv[k].status = "active"
  /\ Edit(u, DeleteConversation(inbox[u], k))

ReadConversation(u, k) ==
  /\ inbox[u].conv[k].unread > 0
  /\ Edit(u, ClearUnread(inbox[u], k))

-----------------------------------------------------------------------------
(* Faults *)

Fault ==
  /\ faults < MaxFaults
  /\ faults' = faults + 1
  /\ UNCHANGED <<store, channel, nextTask, notified, submitted,
                 attempts, edits, crashes>>

\* A write to a receiver of a message fails, or any update of a conversation
\* row: the error is logged, this inbox counts as done and the caller goes on.
WriteFails(a, u) ==
  /\ \/ at[a][u].pc = "touch"
     \/ at[a][u].pc \in {"insert", "mask", "event"} /\ a \in Workers
     \/ at[a][u].pc = "insert" /\ job[a].kind = "send" /\ u # job[a].who
  /\ Fault
  /\ at' = [at EXCEPT ![a] = [at[a] EXCEPT ![u] = [pc |-> "done", seq |-> 0]]]
  /\ UNCHANGED <<job, acked>>

\* Where a database error of request h is not just logged: the writes of the
\* own inbox and of a recall to the peer, reading or changing the members.
\* The error of submitTask is logged only, and the request answered OK.
CanFail(h) ==
  \/ \E u \in job[h].targets :
       /\ at[h][u].pc \in {"insert", "mask", "event"}
       /\ job[h].kind = "recall" \/ u = job[h].who
  \/ OwnInboxWritten(h) /\ ~Direct(job[h].msg)
  \/ job[h].stage \in {"drop", "submit"}

RequestFails(h) ==
  /\ CanFail(h)
  /\ Fault
  /\ IF job[h].stage = "submit" THEN Answer(job[h]) ELSE UNCHANGED acked
  /\ job' = [job EXCEPT ![h] = NoJob]
  /\ at' = [at EXCEPT ![h] = Starting({})]

\* AddGroupMember and RemoveGroupMember drop the error of ListAllMembers and go
\* on with an empty list.
ListFails(h) ==
  LET j == job[h]
  IN /\ j.kind = "system"
     /\ j.stage \in {"list", "drop"}
     /\ Fault
     /\ job' = [job EXCEPT
                  ![h] = [j EXCEPT !.targets = {},
                                   !.stage = IF j.stage = "list" THEN "submit" ELSE "drop"]]
     /\ UNCHANGED <<at, acked>>

\* The row of an executed task cannot be deleted: the error is logged, and the
\* task is executed again after the next restart.
RemoveFails(w) ==
  /\ job[w].stage = "remove"
  /\ Fault
  /\ job' = [job EXCEPT ![w] = NoJob]
  /\ at' = [at EXCEPT ![w] = Starting({})]
  /\ UNCHANGED acked

\* Mutant: main does not call Recover.
RestartForgetful ==
  /\ crashes < MaxCrashes
  /\ crashes' = crashes + 1
  /\ job' = [a \in Actors |-> NoJob]
  /\ at' = [a \in Actors |-> Starting({})]
  /\ channel' = {}
  /\ UNCHANGED <<store, nextTask, notified, history, attempts, edits, faults>>

\* The process dies and starts again: connections, workers and the channel are
\* gone; Recover dispatches every stored task before requests are served.
Restart ==
  /\ crashes < MaxCrashes
  /\ crashes' = crashes + 1
  /\ job' = [a \in Actors |-> NoJob]
  /\ at' = [a \in Actors |-> Starting({})]
  /\ channel' = stored
  /\ UNCHANGED <<store, nextTask, notified, history, attempts, edits, faults>>

-----------------------------------------------------------------------------

Init ==
  /\ members = Founders
  /\ inbox = [u \in Users |-> EmptyBox]
  /\ stored = {}
  /\ channel = {}
  /\ job = [a \in Actors |-> NoJob]
  /\ at = [a \in Actors |-> Starting({})]
  /\ nextTask = 1
  /\ notified = [u \in Users |-> {}]
  /\ submitted = {}
  /\ acked = {}
  /\ attempts = [i \in Ids |-> 0]
  /\ edits = 0
  /\ faults = 0
  /\ crashes = 0

RequestStep(h) ==
  \/ \E m \in Messages : StartSend(h, m)
  \/ \E e \in Recalls : StartRecall(h, e)
  \/ \E s \in Systems, u \in Users : AddGroupMember(h, s, u) \/ StartRemove(h, s, u)
  \/ RemoveMember(h)
  \/ \E u \in Users : WriteInbox(h, u)
  \/ TurnToPeer(h)
  \/ AnswerDirect(h)
  \/ ListMembers(h)
  \/ Submit(h)

UserStep(u) ==
  \/ \E i \in Ids : DeleteMessage(u, i)
  \/ \E k \in Chats : RemoveConversation(u, k) \/ ReadConversation(u, k)

FaultStep ==
  \/ \E a \in Actors, u \in Users : WriteFails(a, u)
  \/ \E h \in Requests : RequestFails(h) \/ ListFails(h)
  \/ \E w \in Workers : RemoveFails(w)
  \/ Restart

Next ==
  \/ \E h \in Requests : RequestStep(h)
  \/ \E w \in Workers : WorkerStep(w)
  \/ \E u \in Users : UserStep(u)
  \/ FaultStep

Spec == Init /\ [][Next]_vars

\* The runtime schedules the workers; nothing obliges a client to act.
FairSpec == Spec /\ \A w \in Workers : WF_vars(WorkerStep(w))
=============================================================================
