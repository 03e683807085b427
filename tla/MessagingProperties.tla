------------------------ MODULE MessagingProperties ------------------------
(***************************************************************************)
(* What sending and recalling promise, stated over the states and steps of *)
(* Messaging.  "Quiet" properties say what the inboxes converge to once    *)
(* every request has ended and every task has been executed.               *)
(***************************************************************************)
EXTENDS Messaging

\* Every variable holds a value of its type: the rows, tasks, jobs and
\* cursors that message.go, message_recall.go and taskqueue.go handle.
TypeOK ==
  /\ members \subseteq Users
  /\ inbox \in [Users -> Box]
  /\ stored \subseteq Task
  /\ channel \subseteq Task
  /\ job \in [Actors -> Job]
  /\ at \in [Actors -> [Users -> Cursor]]
  /\ nextTask \in Nat
  /\ notified \in [Users -> SUBSET Ids]
  /\ submitted \subseteq Task
  /\ acked \subseteq Ids
  /\ attempts \in [Ids -> Nat]
  /\ edits \in Nat
  /\ faults \in Nat
  /\ crashes \in Nat

Quiet == stored = {} /\ \A a \in Actors : job[a] = NoJob

HasRow(u, i) == inbox[u].rows[i].kind # "none"

Shows(u, i, kind) ==
  inbox[u].rows[i].kind = kind /\ ~inbox[u].rows[i].deleted

\* The message that i is about, and the conversation of u that it belongs to.
About(i) == IF i \in Recalls THEN RecallOf[i] ELSE i

ChatOf(u, i) ==
  LET m == About(i)
  IN IF m \in Systems \/ ~Direct(m) THEN NoUser
     ELSE IF u = From[m] THEN To[m] ELSE From[m]

-----------------------------------------------------------------------------
(* One inbox *)

\* No two messages of an inbox share a seq and none is above
\* messages_version.max_seq, whoever writes: bumpMessageSeq gives a seq out
\* once, so that a device that syncs "seq > last" misses nothing.
SeqsDistinct ==
  \A u \in Users :
    /\ \A i \in Ids : inbox[u].rows[i].seq <= inbox[u].max
    /\ \A i, j \in Ids :
         i # j /\ HasRow(u, i) /\ HasRow(u, j)
         => inbox[u].rows[i].seq # inbox[u].rows[j].seq

\* What message i is to the devices that read the box.
ShownAs(box, i) ==
  IF box.rows[i].kind = "none" THEN "absent"
  ELSE IF box.rows[i].deleted THEN "gone" ELSE box.rows[i].kind

Lifecycle == INSTANCE InboxLifecycle WITH
  cell <- [u \in Users |-> [i \in Ids |-> ShownAs(inbox[u], i)]],
  pos <- [u \in Users |-> [i \in Ids |-> inbox[u].rows[i].seq]],
  top <- [u \in Users |-> inbox[u].max]

\* Requests, retries, workers and replays together keep what InboxLifecycle
\* promises: a recalled text never comes back, a deleted message is never
\* inserted again, and every arrival and deletion takes a fresh seq.
KeepsLifecycle == Lifecycle!Spec

\* A step never moves a conversation row to a smaller seq (the WHERE
\* excluded.seq > conversations.seq of ConversationStore.Upsert), although
\* the upserts of several messages are applied in any order.
ConversationNeverRewinds ==
  [][\A u \in Users, k \in Chats :
       inbox'[u].conv[k].seq >= inbox[u].conv[k].seq]_vars

-----------------------------------------------------------------------------
(* Delivery *)

\* Task t has reached every target: the message has its row, and a recall has
\* also left its event and no readable copy of the text.
Applied(t) ==
  \A u \in t.targets :
    /\ HasRow(u, t.msg)
    /\ t.kind = "recall" => HasRow(u, t.event) /\ ~Shows(u, t.msg, "original")

\* Without database errors, a task whose row the queue has removed has been
\* executed for every target, however often the server restarted in between.
NothingLost == faults = 0 => \A t \in submitted \ stored : Applied(t)

\* Without database errors, a message whose send_message was answered OK is in
\* the peer's inbox, or is owed to the targets by a stored task, or is in the
\* inboxes of all of them; and an acknowledged recall leaves no readable copy
\* behind but the ones a stored task will mask.
AckedIsSafe ==
  faults = 0 => \A i \in acked \ Systems :
    IF Direct(About(i))
    THEN /\ HasRow(To[About(i)], i)
         /\ i \in Recalls => ~Shows(To[About(i)], About(i), "original")
    ELSE \E t \in submitted :
           /\ i = IF t.kind = "recall" THEN t.event ELSE t.msg
           /\ t \in stored \/ Applied(t)

\* Without database errors, a connection is signalled only for a message it
\* can already read: messages:received is sent after the inbox is written, and
\* the client fetches the message at once.
NotifyAfterWrite ==
  faults = 0 => \A u \in Users : \A i \in notified[u] : HasRow(u, i)

-----------------------------------------------------------------------------
(* Recalls *)

Readers(m) == IF Direct(m) THEN {From[m], To[m]} ELSE members

\* The sender sees his message as recalled, or has the event of its recall.
RecalledBySender(m) ==
  \/ Shows(From[m], m, "placeholder")
  \/ \E e \in Recalls : RecallOf[e] = m /\ HasRow(From[m], e)

\* Once everything has run, a message that its sender has recalled is not
\* readable by anybody in the chat, whichever of the send and the recall was
\* executed first for each of them ("send / recall tasks converge whatever
\* their order", message.go:73-75).
RecallConverges ==
  Quiet => \A m \in Messages : RecalledBySender(m) =>
             \A u \in Readers(m) : ~Shows(u, m, "original")

\* A placeholder is never silent: masking keeps the seq, so a device learns of
\* a recall only from the event, which has a greater seq than the placeholder
\* or is still owed by whoever wrote the placeholder.
RecallAnnounced ==
  \A u \in Users, m \in Messages :
    Shows(u, m, "placeholder") =>
      \/ \E e \in Recalls : /\ RecallOf[e] = m
                            /\ HasRow(u, e)
                            /\ inbox[u].rows[e].seq > inbox[u].rows[m].seq
      \/ \E a \in Actors : job[a].msg = m /\ at[a][u].pc = "event"
      \/ \E t \in stored : t.kind = "recall" /\ t.msg = m /\ u \in t.targets

-----------------------------------------------------------------------------
(* Conversations *)

\* Once everything has run, without a restart, the conversation row is at
\* least as new as every message of the chat, and names the message whose seq
\* it has, although inserts and upserts of several messages interleave.
ConversationConverges ==
  Quiet => \A u \in Users, i \in Ids :
    LET row == inbox[u].rows[i]
        conv == inbox[u].conv[ChatOf(u, i)]
    IN row.kind # "none" /\ ~row.deleted =>
         /\ conv.status # "none"
         /\ conv.seq >= row.seq
         /\ conv.status = "active" /\ conv.last = i => conv.seq = row.seq

FromOthers(u, k) ==
  {i \in Messages \cup Systems :
     HasRow(u, i) /\ ChatOf(u, i) = k /\ (i \in Messages => From[i] # u)}

\* The unread count never exceeds the number of messages that others have sent
\* to the chat: a retry, a replay or a deletion never counts a message twice.
UnreadNeverOvercounts ==
  \A u \in Users, k \in Chats :
    inbox[u].conv[k].unread <= Cardinality(FromOthers(u, k))

-----------------------------------------------------------------------------
(* Progress *)

TaskIds == 1..(Cardinality(Ids) * MaxAttempts)

\* The queue is through with task t: its row is gone and it was executed for
\* all its targets, or, after a database error, it is at least not waiting.
Finished(t) ==
  IF faults = 0
  THEN t \notin stored /\ Applied(t)
  ELSE t \notin channel /\ \A w \in Workers : job[w].id # t.id

\* The queue is eventually through with every stored task, as long as the
\* workers run and the restarts stop ("guarantees that a task is eventually
\* executed", taskqueue.go:3).
EveryTaskRuns ==
  \A n \in TaskIds :
    (\E t \in stored : t.id = n)
      ~> (\A t \in submitted : t.id = n => Finished(t))

-----------------------------------------------------------------------------
(* What the documents say and the code does not do *)

\* An un-muted conversation counts every message of others, once everything
\* has run, nothing was edited and nothing failed ("insert 1, update
\* unread_count + 1").
UnreadCounted ==
  Quiet /\ edits = 0 /\ faults = 0 =>
    \A u \in Users \ Muted, k \in Chats :
      inbox[u].conv[k].unread = Cardinality(FromOthers(u, k))

\* A task that was executed, possibly again after a restart, leaves the
\* conversation row of every target at the message or above it.
FanoutConverges ==
  Quiet /\ faults = 0 =>
    \A t \in submitted : \A u \in t.targets :
      LET i == IF t.kind = "recall" THEN t.event ELSE t.msg
      IN inbox[u].conv[NoUser].seq >= inbox[u].rows[i].seq
=============================================================================
