----------------------------- MODULE FanoutProofs -----------------------------
(***************************************************************************)
(* What a sender and a receiver may rely on: a task whose row the queue    *)
(* has removed has reached every target, a connection is signalled only    *)
(* for what it can read, and a request that was answered OK is in its      *)
(* inboxes or owed by a task, for any number of requests, workers, retries *)
(* and restarts.                                                           *)
(*                                                                         *)
(* The proofs follow a message through the program counters.  Reached says *)
(* which rows a cursor has behind it, and as no transaction takes a row    *)
(* away or brings a withdrawn text back, it stays true whatever the other  *)
(* goroutines do; Traced collects it for every job with what relates a job *)
(* to its task and to the messages that it names.                          *)
(*                                                                         *)
(* The second part shows that no task is executed by two workers at once   *)
(* (Exclusive).  The third needs it: a placeholder without its event is    *)
(* owed by the worker that has just masked the row or, after its death, by *)
(* the stored task, which nobody else may remove meanwhile (Announcing).   *)
(*                                                                         *)
(* The fourth part is about what is left in the inboxes.  Conversation     *)
(* rows never go back to a smaller seq, although a cursor carries the seq  *)
(* of the row it inserted to the later upsert, while others take seqs and  *)
(* delete the conversation: neither a cursor nor a conversation row is     *)
(* ever ahead of messages_version.max_seq (ConversationsOK).               *)
(*                                                                         *)
(* Nor do unread counts exceed the messages of others.  A message is       *)
(* inserted and counted in two transactions: the one goroutine that        *)
(* inserted it owes its count, and the count is bounded by the messages    *)
(* that nobody owes any more.                                              *)
(*                                                                         *)
(* The fifth part says what becomes of them without errors and restarts.   *)
(* A row that is newer than its conversation is pushed by a goroutine, so  *)
(* that nothing is left behind when all have ended (Converging); and a     *)
(* recall that its sender can see is pursued by one, then by a task, which *)
(* goes to every member as long as nobody joins (Recalling).               *)
(***************************************************************************)
EXTENDS MessagingProofs, FiniteSetTheorems

\* A box has message m, but no longer, or never had, its text.
Withdrawn(box, m) == Exists(box, m) /\ (Live(box, m) => box.rows[m].kind # "original")

\* The rows that job j has left in the box of a user when its cursor is at pc.
Reached(j, box, pc) ==
  /\ pc \in {"mask", "event", "touch", "done"} => Exists(box, j.msg)
  /\ j.kind = "recall" /\ pc \in {"event", "touch", "done"} => Withdrawn(box, j.msg)
  /\ j.kind = "recall" /\ pc \in {"touch", "done"} => Exists(box, j.event)

\* A job or task names its sender, and a recall the message it withdraws.
Named(j) ==
  /\ j.kind \in {"send", "recall"} => j.who = From[j.msg]
  /\ j.kind = "recall" => RecallOf[j.event] = j.msg

\* A task is about the group, and has a sender only when it has a message.
TaskNamed(t) ==
  /\ Named(t)
  /\ t.kind = "system" => t.who = NoUser
  /\ t.kind # "system" => ~Direct(t.msg)

\* Job j executes task t.
Executes(j, t) ==
  /\ j.id = t.id
  /\ j.kind = t.kind
  /\ j.who = t.who
  /\ j.msg = t.msg
  /\ j.event = t.event
  /\ j.targets = t.targets

\* What the stage of a job says of its targets, when tasks are those submitted.
JobNamed(j, tasks) ==
  /\ Named(j)
  /\ j.stage = "own" => j.targets = {j.who}
  /\ j.stage = "peer" => Direct(j.msg) /\ j.targets = {To[j.msg]}
  /\ j.stage \in {"list", "drop"} => j.kind = "system"
  /\ j.stage = "submit" /\ j.kind # "system" => ~Direct(j.msg)
  /\ j.stage \in {"fanout", "remove"} => \E t \in tasks : Executes(j, t)

\* The own inbox of the sender has been written.
SenderHas(j, boxes) == j.kind \in {"send", "recall"} => Exists(boxes[j.who], j.msg)

\* How far a job with the cursors cur has come in the inboxes.
Progress(j, cur, boxes) ==
  /\ \A u \in Users : Reached(j, boxes[u], cur[u].pc)
  /\ j.stage \in {"peer", "submit", "fanout", "remove"} => SenderHas(j, boxes)
  /\ j.stage = "remove" => \A u \in j.targets : cur[u].pc = "done"

\* Tasks are stored and waiting only when submitted, under an id of their own.
TasksTraced ==
  /\ stored \cup channel \subseteq submitted
  /\ \A t \in submitted : t.id < nextTask /\ TaskNamed(t)
  /\ \A t1, t2 \in submitted : t1.id = t2.id => t1 = t2

\* So is every job.
JobsTraced == \A a \in Actors : JobNamed(job[a], submitted)

\* Task t has reached every target, in a way no later step can undo.
Spread(t, boxes) == \A u \in t.targets : Reached(t, boxes[u], "done")

\* A message or recall that was acknowledged is in the peer's inbox, or is the
\* newest message of a task.
Kept(i, boxes, tasks) ==
  IF Direct(About(i))
  THEN /\ Exists(boxes[To[About(i)]], i)
       /\ i \in Recalls => Withdrawn(boxes[To[About(i)]], About(i))
  ELSE \E t \in tasks : i = Newest(t)

\* Every goroutine has done what its cursors say.
ActorsProgress == \A a \in Actors : Progress(job[a], at[a], inbox)

\* As long as the database has returned no error.
Errorless ==
  /\ ActorsProgress
  /\ \A t \in submitted : SenderHas(t, inbox)
  /\ \A t \in submitted \ stored : Spread(t, inbox)
  /\ \A u \in Users : \A i \in notified[u] : Exists(inbox[u], i)
  /\ \A i \in acked \ Systems : Kept(i, inbox, submitted)

\* The inductive invariant of the first part.
Traced == TasksTraced /\ JobsTraced /\ (faults = 0 => Errorless)

\* From old to new, no inbox loses a row and no withdrawn text comes back.
RowsKept(old, new) ==
  \A u \in Users, i \in Ids :
    /\ Exists(old[u], i) => Exists(new[u], i)
    /\ Withdrawn(old[u], i) => Withdrawn(new[u], i)

-----------------------------------------------------------------------------
(* The transactions of one inbox *)

\* After MessageStore.Insert the inbox has the message, and only a new row has
\* the body that was sent.
LEMMA InsertLeavesRow ==
  ASSUME NEW box \in Box, NEW i \in Ids, NEW kind \in Kinds \ {"none"}
  PROVE  /\ Exists(Insert(box, i, kind), i)
         /\ InsertedSeq(box, i) # 0 /\ kind # "original"
            => Withdrawn(Insert(box, i, kind), i)
<1>1. CASE Exists(box, i)
  BY <1>1 DEF Insert, InsertedSeq
<1>2. CASE ~Exists(box, i)
  <2> DEFINE row == [seq |-> box.max + 1, kind |-> kind, deleted |-> FALSE]
             new == Insert(box, i, kind)
  <2>1. new.rows = [box.rows EXCEPT ![i] = row]
    BY <1>2 DEF Insert, Box
  <2>2. new.rows[i] = row
    BY <2>1 DEF Box
  <2>3. new.rows[i].kind = kind
    BY <2>2
  <2> QED
    BY <2>3 DEF Exists, Withdrawn
<1> QED
  BY <1>1, <1>2

\* After UpdateByMsgID the text of a message that the inbox has is not readable.
LEMMA MaskWithdraws ==
  ASSUME NEW box \in Box, NEW i \in Ids, Exists(box, i)
  PROVE  Exists(Mask(box, i), i) /\ Withdrawn(Mask(box, i), i)
<1>1. CASE Live(box, i)
  <2>1. Mask(box, i).rows = [box.rows EXCEPT ![i] = [box.rows[i] EXCEPT !.kind = "placeholder"]]
    BY <1>1 DEF Mask, Box
  <2>2. Mask(box, i).rows[i].kind = "placeholder"
    BY <2>1 DEF Box, Row
  <2> QED
    BY <2>2 DEF Exists, Withdrawn
<1>2. CASE ~Live(box, i)
  BY <1>2 DEF Mask, Withdrawn
<1> QED
  BY <1>1, <1>2

\* What a visible change leaves of the rows that were there.
LEMMA VisibleKeepsRows ==
  ASSUME NEW old \in Box, NEW new, Visible(old, new), NEW i \in Ids
  PROVE  /\ Exists(old, i) => Exists(new, i)
         /\ Withdrawn(old, i) => Withdrawn(new, i)
<1>0. old.rows \in [Ids -> Row]
  BY DEF Box
<1>1. CASE new.rows = old.rows
  BY <1>1 DEF Exists, Withdrawn, Live
<1>2. ASSUME NEW k \in Ids, NEW row \in Row, new.rows = [old.rows EXCEPT ![k] = row],
             \/ ~Exists(old, k) /\ row.kind # "none"
             \/ row.kind = "placeholder"
             \/ row.kind = old.rows[k].kind /\ row.deleted
      PROVE  /\ Exists(old, i) => Exists(new, i)
             /\ Withdrawn(old, i) => Withdrawn(new, i)
  <2>1. new.rows[i] = IF i = k THEN row ELSE old.rows[i]
    BY <1>0, <1>2
  <2> QED
    BY <1>2, <2>1 DEF Exists, Withdrawn, Live
<1> QED
  BY <1>1, <1>2 DEF Visible

\* No step takes a row from an inbox or brings a withdrawn text back.
LEMMA StepKeepsRows ==
  ASSUME WellFormed, KindsOK, [Next]_vars
  PROVE  RowsKept(inbox, inbox') /\ KindsOK'
<1>0. inbox \in [Users -> Box]
  BY DEF WellFormed, TypeOK
<1>1. OneVisibleChange /\ KindsOK'
  BY StepKeeps, TransactionsAreVisible DEF WellFormed
<1>2. ASSUME inbox' = inbox
      PROVE  RowsKept(inbox, inbox')
  BY <1>2 DEF RowsKept
<1>3. ASSUME NEW u \in Users, NEW new \in Box,
             Visible(inbox[u], new), inbox' = [inbox EXCEPT ![u] = new]
      PROVE  RowsKept(inbox, inbox')
  <2>1. \A v \in Users : inbox'[v] = IF v = u THEN new ELSE inbox[v]
    BY <1>0, <1>3
  <2>2. \A i \in Ids : /\ Exists(inbox[u], i) => Exists(new, i)
                       /\ Withdrawn(inbox[u], i) => Withdrawn(new, i)
    BY <1>0, <1>3, VisibleKeepsRows
  <2> QED
    BY <2>1, <2>2 DEF RowsKept
<1> QED
  BY <1>1, <1>2, <1>3 DEF OneVisibleChange

-----------------------------------------------------------------------------
(* What other goroutines do takes nothing back *)

\* What a job or task with a message has left in an inbox stays.
LEMMA ReachedStays ==
  ASSUME NEW j, NEW u \in Users, NEW pc, NEW old, NEW new, RowsKept(old, new),
         j.msg \in Ids, j.kind = "recall" => j.event \in Ids, Reached(j, old[u], pc)
  PROVE  Reached(j, new[u], pc)
BY DEF Reached, RowsKept

\* The ids that a job or task names.
LEMMA NamesOfWork ==
  ASSUME NEW j, TaskOK(j), j.kind \in JobKinds
  PROVE  /\ j.msg \in Ids
         /\ j.kind = "recall" => j.event \in Ids
         /\ j.kind \in {"send", "recall"} => j.who \in Users
BY NamesAreIds DEF TaskOK, JobKinds

\* The sender keeps his copy.
LEMMA SenderStays ==
  ASSUME NEW j, TaskOK(j), NEW old, NEW new, RowsKept(old, new), SenderHas(j, old)
  PROVE  SenderHas(j, new)
BY NamesAreIds DEF SenderHas, RowsKept, TaskOK

\* A job that does not move loses nothing.
LEMMA ProgressStays ==
  ASSUME NEW j \in Job, NEW cur, JobOK(j, cur), NEW old, NEW new, RowsKept(old, new),
         Progress(j, cur, old)
  PROVE  Progress(j, cur, new)
<1>1. CASE j.kind = "none"
  <2>1. \A u \in Users : cur[u].pc = "idle"
    BY <1>1 DEF JobOK, NoJob
  <2>2. j.stage = "idle"
    BY <1>1 DEF JobOK, NoJob
  <2> QED
    BY <2>1, <2>2 DEF Progress, Reached
<1>2. CASE j.kind # "none"
  <2>1. TaskOK(j) /\ j.kind \in JobKinds
    BY <1>2 DEF JobOK, Job
  <2>2. j.msg \in Ids /\ (j.kind = "recall" => j.event \in Ids)
    BY <2>1, NamesOfWork
  <2>3. \A u \in Users : Reached(j, new[u], cur[u].pc)
    BY <2>2, ReachedStays DEF Progress
  <2>4. SenderHas(j, old) => SenderHas(j, new)
    BY <2>1, SenderStays
  <2> QED
    BY <2>3, <2>4 DEF Progress
<1> QED
  BY <1>1, <1>2

\* More tasks do not change what a job is about.
LEMMA JobNamedStays ==
  ASSUME NEW j, NEW old, NEW new, old \subseteq new, JobNamed(j, old)
  PROVE  JobNamed(j, new)
BY DEF JobNamed

\* When one goroutine goes on to a job that is traced, all of them still are.
LEMMA ActorTraced ==
  ASSUME WellFormed, JobsTraced, RowsKept(inbox, inbox'), submitted \subseteq submitted',
         NEW a \in Actors, NEW j, NEW cur,
         job' = [job EXCEPT ![a] = j], at' = [at EXCEPT ![a] = cur],
         JobNamed(j, submitted')
  PROVE  /\ JobsTraced'
         /\ ActorsProgress /\ Progress(j, cur, inbox') => ActorsProgress'
<1>1. /\ job \in [Actors -> Job]
      /\ at \in [Actors -> [Users -> Cursor]]
      /\ \A b \in Actors : JobOK(job[b], at[b])
  BY DEF WellFormed, TypeOK, JobsOK
<1>2. \A b \in Actors : /\ job'[b] = IF b = a THEN j ELSE job[b]
                        /\ at'[b] = IF b = a THEN cur ELSE at[b]
  BY <1>1
<1>3. \A b \in Actors : JobNamed(job[b], submitted')
  BY JobNamedStays DEF JobsTraced
<1>4. JobsTraced'
  BY <1>2, <1>3 DEF JobsTraced
<1>5. ASSUME ActorsProgress, Progress(j, cur, inbox')
      PROVE  ActorsProgress'
  <2>1. \A b \in Actors : Progress(job[b], at[b], inbox')
    BY <1>1, <1>5, ProgressStays DEF ActorsProgress
  <2> QED
    BY <1>2, <1>5, <2>1 DEF ActorsProgress
<1> QED
  BY <1>4, <1>5

\* A goroutine without a job is traced, and so is a job none of whose cursors
\* has started.
LEMMA FreshProgress ==
  ASSUME NEW j, NEW S, NEW boxes, j.stage # "remove",
         j.stage \in {"peer", "submit", "fanout"} => SenderHas(j, boxes)
  PROVE  Progress(j, Starting(S), boxes)
BY StartingType DEF Progress, Reached

\* An actor without a job stands for nothing.
LEMMA NoJobTraced ==
  ASSUME NEW tasks, NEW boxes
  PROVE  JobNamed(NoJob, tasks) /\ \A S : Progress(NoJob, Starting(S), boxes)
BY FreshProgress DEF NoJob, JobNamed, Named

-----------------------------------------------------------------------------
(* What is common to the steps *)

\* A step that only removes rows of task_queue, takes tasks from the channel or
\* dispatches stored ones keeps TasksTraced.
LEMMA TasksStayTraced ==
  ASSUME TasksTraced, submitted' = submitted, nextTask' = nextTask,
         stored' \subseteq stored, channel' \subseteq channel \cup stored
  PROVE  TasksTraced'
BY DEF TasksTraced

\* What the tasks and answers of earlier steps stand for stays true.
LEMMA PromisesStay ==
  ASSUME WellFormed, Errorless, RowsKept(inbox, inbox')
  PROVE  /\ \A t \in submitted : SenderHas(t, inbox')
         /\ \A t \in submitted : Spread(t, inbox) => Spread(t, inbox')
         /\ \A u \in Users : \A i \in notified[u] : Exists(inbox'[u], i)
         /\ \A i \in acked \ Systems : \A tasks : submitted \subseteq tasks => Kept(i, inbox', tasks)
<1>0. /\ submitted \subseteq Task
      /\ \A t \in submitted : TaskOK(t)
      /\ notified \in [Users -> SUBSET Ids]
      /\ acked \subseteq Ids
  BY DEF WellFormed, TypeOK, TasksOK
<1>1. ASSUME NEW t \in submitted
      PROVE  /\ SenderHas(t, inbox')
             /\ Spread(t, inbox) => Spread(t, inbox')
  <2>1. /\ TaskOK(t)
        /\ t.kind \in JobKinds
        /\ t.targets \subseteq Users
    BY <1>0 DEF Task
  <2>2. SenderHas(t, inbox')
    BY <2>1, SenderStays DEF Errorless
  <2>3. t.msg \in Ids /\ (t.kind = "recall" => t.event \in Ids)
    BY <2>1, NamesOfWork
  <2>4. \A u \in t.targets : Reached(t, inbox[u], "done") => Reached(t, inbox'[u], "done")
    BY <2>1, <2>3, ReachedStays
  <2> QED
    BY <2>2, <2>4 DEF Spread
<1>2. \A u \in Users : \A i \in notified[u] : Exists(inbox'[u], i)
  BY <1>0 DEF Errorless, RowsKept
<1>3. ASSUME NEW i \in acked \ Systems, NEW tasks, submitted \subseteq tasks
      PROVE  Kept(i, inbox', tasks)
  <2>1. Kept(i, inbox, submitted)
    BY DEF Errorless
  <2>2. i \in Ids /\ About(i) \in Messages /\ About(i) \in Ids
    BY <1>0, MessagingAssumption DEF About
  <2>3. Direct(About(i)) => To[About(i)] \in Users
    BY <2>2, MessagingAssumption DEF Direct
  <2> QED
    BY <1>3, <2>1, <2>2, <2>3 DEF Kept, RowsKept
<1> QED
  BY <1>1, <1>2, <1>3

\* The parts of Errorless after a step that submits no task.
LEMMA ErrorlessStays ==
  ASSUME WellFormed, Errorless, RowsKept(inbox, inbox'), ActorsProgress',
         submitted' = submitted,
         \A t \in stored \ stored' : Spread(t, inbox'),
         \A u \in Users : \A i \in notified'[u] : i \in notified[u] \/ Exists(inbox'[u], i),
         \A i \in acked' \ Systems : i \in acked \/ Kept(i, inbox', submitted)
  PROVE  Errorless'
<1>1. /\ \A t \in submitted : SenderHas(t, inbox')
      /\ \A t \in submitted : Spread(t, inbox) => Spread(t, inbox')
      /\ \A u \in Users : \A i \in notified[u] : Exists(inbox'[u], i)
      /\ \A i \in acked \ Systems : Kept(i, inbox', submitted)
  BY PromisesStay
<1>2. \A t \in submitted \ stored' : Spread(t, inbox')
  BY <1>1 DEF Errorless
<1>3. \A u \in Users : \A i \in notified'[u] : Exists(inbox'[u], i)
  BY <1>1
<1>4. \A i \in acked' \ Systems : Kept(i, inbox', submitted)
  BY <1>1
<1> QED
  BY <1>1, <1>2, <1>3, <1>4 DEF Errorless

\* A step of one goroutine that submits no task and signals nothing.
LEMMA QuietStepTraced ==
  ASSUME WellFormed, Traced, RowsKept(inbox, inbox'),
         submitted' = submitted, nextTask' = nextTask, stored' = stored,
         channel' \subseteq channel, notified' = notified, acked' = acked,
         faults' = faults,
         NEW a \in Actors, NEW j, NEW cur,
         job' = [job EXCEPT ![a] = j], at' = [at EXCEPT ![a] = cur],
         JobNamed(j, submitted),
         Errorless => Progress(j, cur, inbox')
  PROVE  Traced'
<1>1. TasksTraced'
  BY TasksStayTraced DEF Traced
<1>2. JobsTraced' /\ (Errorless => ActorsProgress')
  BY ActorTraced DEF Traced, Errorless
<1>3. Errorless => Errorless'
  BY <1>2, ErrorlessStays
<1> QED
  BY <1>1, <1>2, <1>3 DEF Traced

-----------------------------------------------------------------------------
(* Requests *)

\* What Traced says of one goroutine.
LEMMA ActorFacts ==
  ASSUME WellFormed, Traced, NEW a \in Actors
  PROVE  /\ job[a] \in Job
         /\ at[a] \in [Users -> Cursor]
         /\ JobOK(job[a], at[a])
         /\ job[a].kind # "none" => job[a].kind \in JobKinds /\ TaskOK(job[a])
         /\ JobNamed(job[a], submitted)
         /\ faults = 0 => Errorless /\ Progress(job[a], at[a], inbox)
         /\ job = [job EXCEPT ![a] = job[a]]
         /\ at = [at EXCEPT ![a] = at[a]]
<1>1. /\ job[a] \in Job
      /\ at[a] \in [Users -> Cursor]
      /\ JobOK(job[a], at[a])
      /\ job = [job EXCEPT ![a] = job[a]]
      /\ at = [at EXCEPT ![a] = at[a]]
  BY ActorType DEF WellFormed
<1>2. job[a].kind # "none" => job[a].kind \in JobKinds /\ TaskOK(job[a])
  BY <1>1 DEF JobOK, Job
<1>3. /\ JobNamed(job[a], submitted)
      /\ faults = 0 => Errorless /\ Progress(job[a], at[a], inbox)
  BY DEF Traced, JobsTraced, Errorless, ActorsProgress
<1> QED
  BY <1>1, <1>2, <1>3

\* A request that starts is traced.
LEMMA StartTraced ==
  ASSUME WellFormed, Traced, RowsKept(inbox, inbox'), NEW h \in Requests,
         \/ \E m \in Messages : StartSend(h, m)
         \/ \E e \in Recalls : StartRecall(h, e)
         \/ \E s \in Systems, u \in Users : AddGroupMember(h, s, u) \/ StartRemove(h, s, u)
  PROVE  Traced'
<1>1. h \in Actors
  BY ActorKinds
<1>2. ASSUME NEW id, NEW kind, NEW who, NEW msg, NEW event, NEW targets, NEW stage, NEW S,
             Begin(h, id, Request(kind, who, msg, event, targets, stage), S),
             stage \in {"own", "list", "drop"},
             Named(Request(kind, who, msg, event, targets, stage)),
             stage = "own" => targets = {who},
             stage # "own" => kind = "system"
      PROVE  Traced'
  <2> DEFINE j == Request(kind, who, msg, event, targets, stage)
  <2>1. /\ j.stage = stage
        /\ j.targets = targets
        /\ j.who = who
        /\ j.kind = kind
    BY DEF Request
  <2>2. Named(j)
    BY <1>2
  <2>3. job' = [job EXCEPT ![h] = j] /\ at' = [at EXCEPT ![h] = Starting(S)]
    BY <1>2 DEF Begin
  <2> HIDE DEF j
  <2>4. JobNamed(j, submitted)
    BY <1>2, <2>1, <2>2 DEF JobNamed
  <2>5. Progress(j, Starting(S), inbox')
    BY <1>2, <2>1, FreshProgress
  <2> QED
    BY <1>1, <1>2, <2>3, <2>4, <2>5, QuietStepTraced DEF Begin, history
<1>3. ASSUME NEW m \in Messages, StartSend(h, m)
      PROVE  Traced'
  <2>1. Named(Request("send", From[m], m, NoId, {From[m]}, "own"))
    BY DEF Named, Request
  <2> QED
    BY <1>2, <1>3, <2>1 DEF StartSend
<1>4. ASSUME NEW e \in Recalls, StartRecall(h, e)
      PROVE  Traced'
  <2>1. Named(Request("recall", From[RecallOf[e]], RecallOf[e], e, {From[RecallOf[e]]}, "own"))
    BY DEF Named, Request
  <2> QED
    BY <1>2, <1>4, <2>1 DEF StartRecall
<1>5. ASSUME NEW s \in Systems, NEW u \in Users, AddGroupMember(h, s, u) \/ StartRemove(h, s, u)
      PROVE  Traced'
  <2>1. \A S, stage : Named(Request("system", u, s, NoId, S, stage))
    BY DEF Named, Request
  <2> QED
    BY <1>2, <1>5, <2>1 DEF AddGroupMember, StartRemove
<1> QED
  BY <1>3, <1>4, <1>5

\* A sender whose own inbox is written has his copy.
LEMMA OwnCopyWritten ==
  ASSUME NEW h, NEW boxes, OwnInboxWritten(h), JobNamed(job[h], submitted),
         job[h].kind \in JobKinds, TaskOK(job[h]), Progress(job[h], at[h], boxes)
  PROVE  SenderHas(job[h], boxes)
<1>1. ASSUME job[h].kind \in {"send", "recall"}
      PROVE  Exists(boxes[job[h].who], job[h].msg)
  <2>1. job[h].who \in Users /\ job[h].targets = {job[h].who}
    BY <1>1 DEF TaskOK, JobNamed, OwnInboxWritten
  <2>2. at[h][job[h].who].pc = "done"
    BY <2>1 DEF OwnInboxWritten, AllWritten
  <2> QED
    BY <2>1, <2>2 DEF Progress, Reached
<1> QED
  BY <1>1 DEF SenderHas

\* remove_group_member drops the row, a direct message turns to the peer, and a
\* group message reads the member list: the request stays traced.
LEMMA RequestTraced ==
  ASSUME WellFormed, Traced, RowsKept(inbox, inbox'), NEW h \in Requests,
         RemoveMember(h) \/ TurnToPeer(h) \/ ListMembers(h)
  PROVE  Traced'
<1> DEFINE j == job[h]
<1>0. /\ h \in Actors
      /\ j \in Job
      /\ JobOK(j, at[h])
      /\ j.kind # "none" => j.kind \in JobKinds /\ TaskOK(j)
      /\ JobNamed(j, submitted)
      /\ faults = 0 => Errorless /\ Progress(j, at[h], inbox)
      /\ at = [at EXCEPT ![h] = at[h]]
  BY ActorFacts, ActorKinds
<1>1. ASSUME RemoveMember(h)
      PROVE  Traced'
  <2>1. j.stage = "drop" /\ j.kind = "system"
    BY <1>0, <1>1 DEF RemoveMember, JobNamed
  <2>2. ASSUME NEW k, k \in {NoJob, [j EXCEPT !.stage = "submit"]}
        PROVE  JobNamed(k, submitted) /\ Progress(k, at[h], inbox')
    <3>1. \A u \in Users : at[h][u].pc = "idle"
      BY <1>0, <2>1 DEF JobOK
    <3>2. CASE k = NoJob
      BY <3>1, <3>2 DEF NoJob, JobNamed, Named, Progress, Reached
    <3>3. CASE k = [j EXCEPT !.stage = "submit"]
      <4>1. k.stage = "submit" /\ k.kind = "system"
        BY <1>0, <2>1, <3>3 DEF Job
      <4> QED
        BY <3>1, <4>1 DEF JobNamed, Named, Progress, Reached, SenderHas
    <3> QED
      BY <2>2, <3>2, <3>3
  <2>3. PICK k \in {NoJob, [j EXCEPT !.stage = "submit"]} : job' = [job EXCEPT ![h] = k]
    BY <1>1 DEF RemoveMember
  <2> QED
    BY <1>0, <1>1, <2>2, <2>3, QuietStepTraced DEF RemoveMember, history, counters
<1>2. ASSUME NEW S, NEW stage \in {"peer", "submit"},
             OwnInboxWritten(h) \/ j.kind = "system",
             job' = [job EXCEPT ![h] = [j EXCEPT !.targets = S, !.stage = stage]],
             at' = [at EXCEPT ![h] = Starting(IF stage = "peer" THEN S ELSE {})],
             UNCHANGED <<store, channel, nextTask, notified, history, counters>>,
             j.kind # "none",
             stage = "peer" => Direct(j.msg) /\ S = {To[j.msg]},
             stage = "submit" /\ j.kind # "system" => ~Direct(j.msg)
      PROVE  Traced'
  <2> DEFINE k == [j EXCEPT !.targets = S, !.stage = stage]
             cur == Starting(IF stage = "peer" THEN S ELSE {})
  <2>1. /\ k.id = j.id /\ k.kind = j.kind /\ k.who = j.who /\ k.msg = j.msg
        /\ k.event = j.event /\ k.targets = S /\ k.stage = stage
    BY <1>0 DEF Job
  <2> HIDE DEF k
  <2>2. Named(k)
    BY <1>0, <2>1 DEF JobNamed, Named
  <2>3. JobNamed(k, submitted)
    BY <1>2, <2>1, <2>2 DEF JobNamed
  <2>4. ASSUME Errorless
        PROVE  SenderHas(k, inbox')
    <3>1. Progress(j, at[h], inbox)
      BY <1>0, <2>4 DEF Errorless, ActorsProgress
    <3>2. CASE j.kind = "system"
      BY <2>1, <3>2 DEF SenderHas
    <3>3. CASE OwnInboxWritten(h)
      <4>1. SenderHas(j, inbox)
        BY <1>0, <1>2, <3>1, <3>3, OwnCopyWritten
      <4>2. SenderHas(j, inbox')
        BY <1>0, <1>2, <4>1, SenderStays
      <4> QED
        BY <2>1, <4>2 DEF SenderHas
    <3> QED
      BY <1>2, <3>2, <3>3
  <2>5. Errorless => Progress(k, cur, inbox')
    BY <1>2, <2>1, <2>4, FreshProgress
  <2>6. job' = [job EXCEPT ![h] = k] /\ at' = [at EXCEPT ![h] = cur]
    BY <1>2 DEF k
  <2> HIDE DEF cur
  <2> QED
    BY <1>0, <1>2, <2>3, <2>5, <2>6, QuietStepTraced DEF store, history, counters
<1>3. ASSUME TurnToPeer(h)
      PROVE  Traced'
  <2>1. j.kind # "none"
    BY <1>0, <1>3 DEF TurnToPeer, OwnInboxWritten, JobOK, NoJob
  <2> QED
    BY <1>2, <1>3, <2>1 DEF TurnToPeer
<1>4. ASSUME ListMembers(h)
      PROVE  Traced'
  <2>1. j.kind # "none"
    BY <1>0, <1>4 DEF ListMembers, OwnInboxWritten, JobOK, NoJob
  <2>2. \/ j.kind = "system"
        \/ OwnInboxWritten(h) /\ ~Direct(j.msg)
    BY <1>0, <1>4 DEF ListMembers, JobNamed
  <2> QED
    BY <1>2, <1>4, <2>1, <2>2 DEF ListMembers
<1> QED
  BY <1>1, <1>3, <1>4

\* An answer adds at most the newest message of the job to those acknowledged.
LEMMA AnswerAdds ==
  ASSUME NEW j, Answer(j)
  PROVE  acked' \subseteq acked \cup {Newest(j)}
BY DEF Answer

\* The answer of a direct message or recall is given when the peer's inbox has
\* it, and both connections are signalled for a message that they can read.
LEMMA AnswerTraced ==
  ASSUME WellFormed, Traced, RowsKept(inbox, inbox'), NEW h \in Requests, AnswerDirect(h)
  PROVE  Traced'
<1> DEFINE j == job[h]
           peer == To[j.msg]
<1>0. /\ h \in Actors
      /\ j \in Job
      /\ JobOK(j, at[h])
      /\ j.kind # "none" => j.kind \in JobKinds /\ TaskOK(j)
      /\ JobNamed(j, submitted)
      /\ faults = 0 => Errorless /\ Progress(j, at[h], inbox)
  BY ActorFacts, ActorKinds
<1>1. /\ j.stage = "peer"
      /\ j.kind \in {"send", "recall"}
      /\ TaskOK(j)
      /\ Direct(j.msg)
      /\ j.targets = {peer}
      /\ at[h][peer].pc = "done"
  BY <1>0 DEF AnswerDirect, JobOK, JobNamed, AllWritten, NoJob
<1>2. /\ j.msg \in Messages
      /\ j.msg \in Ids
      /\ j.who \in Users
      /\ peer \in Users
      /\ j.kind = "recall" => j.event \in Recalls /\ RecallOf[j.event] = j.msg
  BY <1>0, <1>1, MessagingAssumption DEF TaskOK, Direct, JobNamed, Named
<1>3. About(Newest(j)) = j.msg /\ (Newest(j) \in Recalls <=> j.kind = "recall")
  BY <1>1, <1>2, MessagingAssumption DEF About, Newest
<1>4. inbox' = inbox /\ submitted' = submitted /\ stored' = stored
  BY DEF AnswerDirect, store
<1>5. TasksTraced'
  BY TasksStayTraced DEF Traced, AnswerDirect, store
<1>6. JobsTraced' /\ (Errorless => ActorsProgress')
  BY <1>0, <1>4, NoJobTraced, ActorTraced DEF Traced, AnswerDirect, Errorless
<1>7. ASSUME faults = 0
      PROVE  Errorless'
  <2>1. Errorless /\ Progress(j, at[h], inbox)
    BY <1>0, <1>7
  <2>2. Reached(j, inbox[peer], "done") /\ Exists(inbox[j.who], j.msg)
    BY <1>1, <1>2, <2>1 DEF Progress, SenderHas
  <2>3. Kept(Newest(j), inbox, submitted)
    BY <1>1, <1>3, <2>2 DEF Kept, Reached, Newest
  <2>4. \A i \in acked' \ Systems : i \in acked \/ Kept(i, inbox, submitted)
    BY <2>3, AnswerAdds DEF AnswerDirect
  <2>5. \A u \in Users : \A i \in notified'[u] : i \in notified[u] \/ Exists(inbox[u], i)
    <3>1. Exists(inbox[peer], j.msg)
      BY <2>2 DEF Reached
    <3> QED
      BY <2>2, <3>1 DEF AnswerDirect
  <2> QED
    BY <1>4, <1>6, <2>1, <2>4, <2>5, ErrorlessStays
<1>8. faults' = faults
  BY DEF AnswerDirect, counters
<1> QED
  BY <1>5, <1>6, <1>7, <1>8 DEF Traced

\* A task is submitted under a fresh id, for a message its sender has.
LEMMA SubmitTraced ==
  ASSUME WellFormed, Traced, RowsKept(inbox, inbox'), NEW h \in Requests, Submit(h)
  PROVE  Traced'
<1> DEFINE j == job[h]
           t == TaskOf(j)
<1>0. /\ h \in Actors
      /\ j \in Job
      /\ JobOK(j, at[h])
      /\ j.kind # "none" => j.kind \in JobKinds /\ TaskOK(j)
      /\ JobNamed(j, submitted)
      /\ faults = 0 => Errorless /\ Progress(j, at[h], inbox)
      /\ at = [at EXCEPT ![h] = at[h]]
  BY ActorFacts, ActorKinds
<1>1. j.stage = "submit" /\ j.kind \in JobKinds /\ TaskOK(j)
  BY <1>0 DEF Submit, JobOK, NoJob
<1>2. /\ t.id = nextTask
      /\ t.kind = j.kind
      /\ t.who = IF j.kind = "system" THEN NoUser ELSE j.who
      /\ t.msg = j.msg
      /\ t.event = j.event
      /\ t.targets = j.targets
  BY DEF TaskOf
<1>3. /\ inbox' = inbox
      /\ submitted' = submitted \cup {t}
      /\ stored' = stored \cup {t}
      /\ channel' = channel \cup {t}
      /\ nextTask' = nextTask + 1
      /\ notified' = notified
      /\ faults' = faults
      /\ at' = at
      /\ job' = [job EXCEPT ![h] = NoJob]
  BY DEF Submit, counters
<1> HIDE DEF t
<1>4. TaskNamed(t)
  BY <1>0, <1>1, <1>2 DEF TaskNamed, JobNamed, Named, JobKinds
<1>5. TasksTraced'
  <2>1. nextTask \in Nat /\ \A s \in submitted : s.id \in Nat
    BY DEF WellFormed, TypeOK, Task
  <2> QED
    BY <1>2, <1>3, <1>4, <2>1 DEF Traced, TasksTraced
<1>6. \A u \in Users : at[h][u].pc = "idle"
  BY <1>0, <1>1 DEF JobOK
<1>7. JobNamed(NoJob, submitted') /\ Progress(NoJob, at[h], inbox')
  BY <1>6, NoJobTraced DEF Progress, Reached, NoJob
<1>8. JobsTraced' /\ (Errorless => ActorsProgress')
  BY <1>0, <1>3, <1>7, ActorTraced DEF Traced, Errorless
<1>9. ASSUME Errorless
      PROVE  Errorless'
  <2>1. /\ \A s \in submitted : SenderHas(s, inbox')
        /\ \A s \in submitted : Spread(s, inbox) => Spread(s, inbox')
        /\ \A u \in Users : \A i \in notified[u] : Exists(inbox'[u], i)
        /\ \A i \in acked \ Systems : Kept(i, inbox', submitted')
    BY <1>3, <1>9, PromisesStay
  <2>2. SenderHas(t, inbox')
    BY <1>0, <1>1, <1>2, <1>3, <1>9 DEF Errorless, ActorsProgress, Progress, SenderHas
  <2>3. \A s \in submitted' \ stored' : Spread(s, inbox')
    BY <1>3, <1>9, <2>1 DEF Errorless
  <2>4. Newest(j) \notin Systems => Kept(Newest(j), inbox', submitted')
    <3>1. j.kind = "system" => Newest(j) \in Systems
      BY <1>1 DEF Newest, TaskOK
    <3>2. j.kind # "system" => About(Newest(j)) = j.msg /\ ~Direct(j.msg)
      BY <1>0, <1>1, MessagingAssumption DEF About, Newest, TaskOK, JobKinds, JobNamed, Named
    <3>3. Newest(j) = Newest(t) /\ t \in submitted'
      BY <1>2, <1>3 DEF Newest
    <3> QED
      BY <3>1, <3>2, <3>3 DEF Kept
  <2>5. \A i \in acked' \ Systems : Kept(i, inbox', submitted')
    BY <2>1, <2>4, AnswerAdds DEF Submit
  <2> QED
    BY <1>3, <1>8, <1>9, <2>1, <2>2, <2>3, <2>5 DEF Errorless
<1> QED
  BY <1>3, <1>5, <1>8, <1>9 DEF Traced

-----------------------------------------------------------------------------
(* Writing one inbox *)

\* A goroutine whose cursor on u's inbox moves to a place it has reached is
\* traced.
LEMMA MoveTraced ==
  ASSUME WellFormed, Traced, RowsKept(inbox, inbox'),
         NEW a \in Actors, NEW u \in Users, NEW pc, NEW seq, MoveTo(a, u, pc, seq),
         at[a][u].pc \in {"insert", "mask", "event", "touch"},
         Reached(job[a], inbox[u], at[a][u].pc) => Reached(job[a], inbox'[u], pc)
  PROVE  Traced'
<1> DEFINE j == job[a]
           cursor == [pc |-> pc, seq |-> seq]
           cur == [at[a] EXCEPT ![u] = cursor]
<1>0. /\ j \in Job
      /\ at[a] \in [Users -> Cursor]
      /\ JobOK(j, at[a])
      /\ JobNamed(j, submitted)
      /\ job = [job EXCEPT ![a] = j]
  BY ActorFacts
<1>1. cursor.pc = pc
  OBVIOUS
<1> HIDE DEF cursor
<1>2. \A v \in Users : cur[v] = IF v = u THEN cursor ELSE at[a][v]
  BY <1>0
<1>3. at' = [at EXCEPT ![a] = cur] /\ job' = [job EXCEPT ![a] = j]
  BY <1>0 DEF MoveTo, cursor
<1>4. ASSUME Errorless
      PROVE  Progress(j, cur, inbox')
  <2>1. Progress(j, at[a], inbox)
    BY <1>4 DEF Errorless, ActorsProgress
  <2>2. Progress(j, at[a], inbox')
    BY <1>0, <2>1, ProgressStays
  <2>3. Reached(j, inbox'[u], pc)
    BY <2>1 DEF Progress
  <2>4. j.stage = "remove" => u \notin j.targets
    BY <2>1 DEF Progress
  <2>5. j.stage = "remove" => \A v \in j.targets : cur[v].pc = "done"
    <3>1. j.targets \subseteq Users
      BY <1>0 DEF Job
    <3> QED
      BY <1>2, <2>2, <2>4, <3>1 DEF Progress
  <2>6. \A v \in Users : Reached(j, inbox'[v], cur[v].pc)
    BY <1>1, <1>2, <2>2, <2>3 DEF Progress
  <2> QED
    BY <2>2, <2>5, <2>6 DEF Progress
<1> HIDE DEF cur
<1> QED
  BY <1>0, <1>3, <1>4, QuietStepTraced DEF MoveTo, history, counters

\* Every write of an inbox brings the cursor to a place it has reached.
LEMMA WriteTraced ==
  ASSUME WellFormed, Traced, RowsKept(inbox, inbox'),
         NEW a \in Actors, NEW u \in Users, WriteInbox(a, u)
  PROVE  Traced'
<1> DEFINE j == job[a]
<1>0. /\ at[a][u].pc \in {"insert", "mask", "event", "touch"}
      /\ at[a][u].pc # "idle"
  BY DEF WriteInbox, InsertRow, MaskRow, InsertEvent, TouchConversation
<1>1. /\ j.kind \in JobKinds
      /\ j.msg \in Ids
      /\ j.kind = "recall" => j.event \in Ids
      /\ inbox[u] \in Box
  BY <1>0, WriterType
<1>2. at[a][u].pc \in {"mask", "event"} => j.kind = "recall"
  BY ActorType DEF WellFormed, JobOK
<1>3. \A new : inbox' = [inbox EXCEPT ![u] = new] => inbox'[u] = new
  BY DEF WellFormed, TypeOK
<1>4. \A i \in Ids : /\ Exists(inbox[u], i) => Exists(inbox'[u], i)
                     /\ Withdrawn(inbox[u], i) => Withdrawn(inbox'[u], i)
  BY DEF RowsKept
<1>5. ASSUME InsertRow(a, u)
      PROVE  Traced'
  <2> DEFINE seq == InsertedSeq(inbox[u], j.msg)
             kind == BodyOf(j.kind)
             pc == AfterInsert(j, u, seq)
  <2>1. inbox'[u] = Insert(inbox[u], j.msg, kind)
    BY <1>3, <1>5 DEF InsertRow
  <2>2. kind \in Kinds \ {"none"} /\ (j.kind = "recall" => kind # "original")
    BY <1>1 DEF BodyOf, JobKinds, Kinds
  <2> HIDE DEF kind
  <2>3. /\ Exists(inbox'[u], j.msg)
        /\ seq # 0 /\ j.kind = "recall" => Withdrawn(inbox'[u], j.msg)
    BY <1>1, <2>1, <2>2, InsertLeavesRow
  <2>4. j.kind = "recall" => pc \in {"mask", "event"} /\ (pc = "event" => seq # 0)
    BY DEF AfterInsert
  <2>5. MoveTo(a, u, pc, seq)
    BY <1>5 DEF InsertRow
  <2> HIDE DEF seq, pc
  <2>6. Reached(j, inbox'[u], pc)
    BY <2>3, <2>4 DEF Reached
  <2> QED
    BY <1>0, <2>5, <2>6, MoveTraced
<1>6. ASSUME MaskRow(a, u)
      PROVE  Traced'
  <2>1. inbox'[u] = Mask(inbox[u], j.msg) /\ at[a][u].pc = "mask"
    BY <1>3, <1>6 DEF MaskRow
  <2>2. Reached(j, inbox[u], "mask") => Reached(j, inbox'[u], "event")
    BY <1>1, <2>1, MaskWithdraws DEF Reached
  <2> QED
    BY <1>0, <1>6, <2>1, <2>2, MoveTraced DEF MaskRow
<1>7. ASSUME InsertEvent(a, u)
      PROVE  Traced'
  <2> DEFINE seq == InsertedSeq(inbox[u], j.event)
             pc == IF seq = 0 THEN "done" ELSE "touch"
  <2>1. inbox'[u] = Insert(inbox[u], j.event, "event") /\ at[a][u].pc = "event"
    BY <1>3, <1>7 DEF InsertEvent
  <2>2. Exists(inbox'[u], j.event)
    BY <1>1, <1>2, <2>1, InsertLeavesRow DEF Kinds
  <2>3. Reached(j, inbox[u], "event") => Reached(j, inbox'[u], pc)
    BY <1>1, <1>4, <2>2 DEF Reached
  <2>4. MoveTo(a, u, pc, seq)
    BY <1>7 DEF InsertEvent
  <2> HIDE DEF seq, pc
  <2> QED
    BY <1>0, <2>1, <2>3, <2>4, MoveTraced
<1>8. ASSUME TouchConversation(a, u)
      PROVE  Traced'
  <2>1. at[a][u].pc = "touch" /\ MoveTo(a, u, "done", at[a][u].seq)
    BY <1>8 DEF TouchConversation
  <2>2. Reached(j, inbox[u], "touch") => Reached(j, inbox'[u], "done")
    BY <1>1, <1>4 DEF Reached
  <2> QED
    BY <1>0, <2>1, <2>2, MoveTraced
<1> QED
  BY <1>5, <1>6, <1>7, <1>8 DEF WriteInbox

-----------------------------------------------------------------------------
(* Workers *)

\* A worker that takes a task executes it.
LEMMA TakeTraced ==
  ASSUME WellFormed, Traced, RowsKept(inbox, inbox'), NEW w \in Workers, Take(w)
  PROVE  Traced'
<1>1. PICK t \in channel :
        /\ channel' = channel \ {t}
        /\ job' = [job EXCEPT ![w] = JobOf(t)]
        /\ at' = [at EXCEPT ![w] = Starting(t.targets)]
        /\ UNCHANGED <<store, nextTask, notified, history, counters>>
  BY DEF Take
<1>2. w \in Actors /\ t \in submitted /\ TaskNamed(t)
  BY ActorKinds DEF Traced, TasksTraced
<1>3. Executes(JobOf(t), t) /\ JobOf(t).stage = "fanout"
  BY DEF Executes, JobOf
<1>4. JobNamed(JobOf(t), submitted)
  BY <1>2, <1>3 DEF JobNamed, TaskNamed, Named, Executes
<1>5. ASSUME Errorless
      PROVE  Progress(JobOf(t), Starting(t.targets), inbox')
  <2>1. SenderHas(t, inbox')
    BY <1>2, <1>5, PromisesStay
  <2>2. SenderHas(JobOf(t), inbox')
    BY <1>3, <2>1 DEF SenderHas, Executes
  <2> QED
    BY <1>3, <2>2, FreshProgress
<1> QED
  BY <1>1, <1>2, <1>4, <1>5, QuietStepTraced DEF store, history, counters

\* The fan-out signals its targets and the sender for a message that they have.
LEMMA NotifyTraced ==
  ASSUME WellFormed, Traced, RowsKept(inbox, inbox'), NEW w \in Workers, Notify(w)
  PROVE  Traced'
<1> DEFINE j == job[w]
           k == [j EXCEPT !.stage = "remove"]
<1>0. /\ w \in Actors
      /\ j \in Job
      /\ JobOK(j, at[w])
      /\ j.kind # "none" => j.kind \in JobKinds /\ TaskOK(j)
      /\ JobNamed(j, submitted)
      /\ faults = 0 => Errorless /\ Progress(j, at[w], inbox)
      /\ at = [at EXCEPT ![w] = at[w]]
  BY ActorFacts, ActorKinds
<1>1. /\ j.stage = "fanout"
      /\ \A u \in j.targets : at[w][u].pc = "done"
      /\ j.kind \in JobKinds
  BY <1>0 DEF Notify, AllWritten, JobOK, NoJob
<1>2. /\ k.id = j.id /\ k.kind = j.kind /\ k.who = j.who /\ k.msg = j.msg
      /\ k.event = j.event /\ k.targets = j.targets /\ k.stage = "remove"
  BY <1>0 DEF Job
<1>3. /\ inbox' = inbox /\ stored' = stored /\ submitted' = submitted
      /\ acked' = acked /\ faults' = faults /\ at' = at /\ channel' = channel
      /\ nextTask' = nextTask
      /\ job' = [job EXCEPT ![w] = k]
  BY DEF Notify, store, history, counters
<1> HIDE DEF k
<1>4. JobNamed(k, submitted)
  BY <1>0, <1>1, <1>2 DEF JobNamed, Named, Executes
<1>5. ASSUME Errorless
      PROVE  Progress(k, at[w], inbox)
  <2>1. Progress(j, at[w], inbox)
    BY <1>0, <1>5 DEF Errorless, ActorsProgress
  <2> QED
    BY <1>1, <1>2, <2>1 DEF Progress, Reached, SenderHas
<1>6. TasksTraced'
  BY <1>3, TasksStayTraced DEF Traced
<1>7. JobsTraced' /\ (Errorless => ActorsProgress')
  BY <1>0, <1>3, <1>4, <1>5, ActorTraced DEF Traced, Errorless
<1>8. ASSUME Errorless
      PROVE  Errorless'
  <2>1. Progress(j, at[w], inbox)
    BY <1>0, <1>8 DEF Errorless, ActorsProgress
  <2>2. \A u \in j.targets : Exists(inbox[u], j.msg)
    <3>1. j.targets \subseteq Users
      BY <1>0 DEF Job
    <3> QED
      BY <1>1, <2>1, <3>1 DEF Progress, Reached
  <2>3. j.who \in Users => Exists(inbox[j.who], j.msg)
    <3>1. j.kind = "system" => j.who = NoUser
      BY <1>0, <1>1 DEF JobNamed, Executes, Traced, TasksTraced, TaskNamed
    <3> QED
      BY <1>1, <2>1, <3>1, InboxAssumption DEF Progress, SenderHas, JobKinds
  <2>4. \A u \in Users : \A i \in notified'[u] : i \in notified[u] \/ Exists(inbox[u], i)
    BY <2>2, <2>3 DEF Notify
  <2> QED
    BY <1>3, <1>7, <1>8, <2>4, ErrorlessStays
<1> QED
  BY <1>3, <1>6, <1>7, <1>8 DEF Traced

\* A task whose row is removed has reached its targets.
LEMMA RemoveTraced ==
  ASSUME WellFormed, Traced, RowsKept(inbox, inbox'), NEW w \in Workers, RemoveTask(w)
  PROVE  Traced'
<1> DEFINE j == job[w]
<1>0. /\ w \in Actors
      /\ j \in Job
      /\ JobNamed(j, submitted)
      /\ faults = 0 => Errorless /\ Progress(j, at[w], inbox)
  BY ActorFacts, ActorKinds
<1>1. /\ j.stage = "remove"
      /\ inbox' = inbox /\ submitted' = submitted /\ channel' = channel
      /\ notified' = notified /\ acked' = acked /\ faults' = faults
      /\ nextTask' = nextTask
      /\ stored' = {t \in stored : t.id # j.id}
      /\ job' = [job EXCEPT ![w] = NoJob] /\ at' = [at EXCEPT ![w] = Starting({})]
  BY DEF RemoveTask, history, counters
<1>2. TasksTraced'
  BY <1>1, TasksStayTraced DEF Traced
<1>3. JobsTraced' /\ (Errorless => ActorsProgress')
  BY <1>0, <1>1, NoJobTraced, ActorTraced DEF Traced, Errorless
<1>4. ASSUME Errorless
      PROVE  Errorless'
  <2>1. Progress(j, at[w], inbox)
    BY <1>0, <1>4 DEF Errorless, ActorsProgress
  <2>2. PICK s \in submitted : Executes(j, s)
    BY <1>0, <1>1 DEF JobNamed
  <2>3. Spread(s, inbox)
    <3>1. s.targets \subseteq Users
      BY <2>2 DEF WellFormed, TypeOK, Task
    <3> QED
      BY <1>1, <2>1, <2>2, <3>1 DEF Spread, Progress, Reached, Executes
  <2>4. \A t \in stored \ stored' : t = s
    BY <1>1, <2>2 DEF Traced, TasksTraced, Executes
  <2> QED
    BY <1>1, <1>3, <1>4, <2>3, <2>4, ErrorlessStays
<1> QED
  BY <1>1, <1>2, <1>3, <1>4 DEF Traced

-----------------------------------------------------------------------------
(* Users, errors and restarts *)

\* A step that leaves the goroutines and tasks alone.
LEMMA EditTraced ==
  ASSUME WellFormed, Traced, RowsKept(inbox, inbox'),
         UNCHANGED <<stored, channel, job, at, nextTask, notified, history, faults>>
  PROVE  Traced'
<1>1. TasksTraced' /\ JobsTraced'
  BY TasksStayTraced DEF Traced, JobsTraced, history
<1>2. ASSUME Errorless
      PROVE  Errorless'
  <2>1. \A a \in Actors : Progress(job[a], at[a], inbox')
    BY <1>2, ProgressStays DEF Errorless, ActorsProgress, WellFormed, TypeOK, JobsOK
  <2>2. ActorsProgress'
    BY <2>1 DEF ActorsProgress
  <2> QED
    BY <1>2, <2>2, ErrorlessStays DEF history
<1> QED
  BY <1>1, <1>2 DEF Traced

\* An error ends what Errorless promises, and leaves the tasks and jobs what
\* they are.
LEMMA FaultTraced ==
  ASSUME WellFormed, Traced, RowsKept(inbox, inbox'), FaultStep, ~Restart
  PROVE  Traced'
<1>1. Fault
  BY DEF FaultStep, WriteFails, RequestFails, ListFails, RemoveFails
<1>2. TasksTraced' /\ faults' # 0
  BY <1>1, TasksStayTraced DEF Traced, Fault, store, WellFormed, TypeOK
<1>3. submitted' = submitted
  BY <1>1 DEF Fault
<1>4. ASSUME NEW a \in Actors, NEW j, job' = [job EXCEPT ![a] = j], JobNamed(j, submitted)
      PROVE  JobsTraced'
  <2>1. \A b \in Actors : job'[b] = IF b = a THEN j ELSE job[b]
    BY <1>4 DEF WellFormed, TypeOK
  <2> QED
    BY <1>3, <1>4, <2>1 DEF Traced, JobsTraced
<1>5. JobNamed(NoJob, submitted)
  BY NoJobTraced
<1>6. ASSUME NEW h \in Requests, ListFails(h)
      PROVE  JobsTraced'
  <2> DEFINE stage == IF job[h].stage = "list" THEN "submit" ELSE "drop"
             k == [job[h] EXCEPT !.targets = {}, !.stage = stage]
  <2>1. job[h] \in Job /\ JobNamed(job[h], submitted) /\ h \in Actors
    BY ActorFacts, ActorKinds
  <2>2. k.kind = "system" /\ k.stage \in {"submit", "drop"}
    BY <1>6, <2>1 DEF ListFails, Job
  <2>3. job' = [job EXCEPT ![h] = k]
    BY <1>6 DEF ListFails
  <2> HIDE DEF k
  <2>4. JobNamed(k, submitted)
    BY <2>2 DEF JobNamed, Named
  <2> QED
    BY <1>4, <2>1, <2>3, <2>4
<1>7. JobsTraced'
  <2>1. CASE job' = job
    BY <1>3, <2>1 DEF Traced, JobsTraced
  <2>2. CASE \E a \in Actors : job' = [job EXCEPT ![a] = NoJob]
    BY <1>4, <1>5, <2>2
  <2>3. CASE \E h \in Requests : ListFails(h)
    BY <1>6, <2>3
  <2> QED
    BY <2>1, <2>2, <2>3, ActorKinds DEF FaultStep, WriteFails, RequestFails, RemoveFails
<1> QED
  BY <1>2, <1>7 DEF Traced

\* After a restart no goroutine has a job, and every stored task waits.
LEMMA RestartTraced ==
  ASSUME WellFormed, Traced, RowsKept(inbox, inbox'), Restart
  PROVE  Traced'
<1>1. /\ inbox' = inbox /\ stored' = stored /\ submitted' = submitted
      /\ notified' = notified /\ acked' = acked /\ faults' = faults
      /\ nextTask' = nextTask /\ channel' = stored
      /\ \A a \in Actors : job'[a] = NoJob /\ at'[a] = Starting({})
  BY DEF Restart, store, history
<1>2. TasksTraced'
  BY <1>1, TasksStayTraced DEF Traced
<1>3. JobsTraced' /\ ActorsProgress'
  BY <1>1, NoJobTraced DEF JobsTraced, ActorsProgress
<1>4. Errorless => Errorless'
  BY <1>1, <1>3, ErrorlessStays
<1> QED
  BY <1>1, <1>2, <1>3, <1>4 DEF Traced

-----------------------------------------------------------------------------
(* The inductive invariant and what follows from it *)

\* Every step keeps Traced.
LEMMA StepTraced ==
  ASSUME WellFormed, KindsOK, Traced, [Next]_vars
  PROVE  Traced' /\ KindsOK'
<1>0. RowsKept(inbox, inbox') /\ KindsOK'
  BY StepKeepsRows
<1>1. CASE UNCHANGED vars
  BY <1>0, <1>1, EditTraced DEF vars, store, counters
<1>2. ASSUME NEW h \in Requests, RequestStep(h)
      PROVE  Traced'
  BY <1>0, <1>2, StartTraced, RequestTraced, AnswerTraced, SubmitTraced, WriteTraced,
     ActorKinds DEF RequestStep
<1>3. ASSUME NEW w \in Workers, WorkerStep(w)
      PROVE  Traced'
  BY <1>0, <1>3, TakeTraced, NotifyTraced, RemoveTraced, WriteTraced, ActorKinds
     DEF WorkerStep
<1>4. ASSUME NEW u \in Users, UserStep(u)
      PROVE  Traced'
  BY <1>0, <1>4, EditTraced
     DEF UserStep, DeleteMessage, RemoveConversation, ReadConversation, Edit
<1>5. CASE FaultStep
  BY <1>0, <1>5, FaultTraced, RestartTraced
<1> QED
  BY <1>0, <1>1, <1>2, <1>3, <1>4, <1>5 DEF Next

\* In the initial state there is nothing to trace.
LEMMA InitTraced == Init => Traced
<1> SUFFICES ASSUME Init PROVE Traced
  OBVIOUS
<1>1. TasksTraced
  BY DEF Init, TasksTraced
<1>2. JobsTraced /\ ActorsProgress
  BY NoJobTraced DEF Init, JobsTraced, ActorsProgress
<1> QED
  BY <1>1, <1>2 DEF Traced, Errorless, Init

\* Traced holds in every reachable state.
THEOREM AlwaysTraced == Spec => []Traced
<1>1. WellFormed /\ KindsOK /\ Traced /\ [Next]_vars => Traced' /\ KindsOK'
  BY StepTraced
<1> QED
  BY <1>1, InitTraced, InitIsLifecycleInit, AlwaysWellFormed, PTL DEF Spec

\* A task that has spread is applied.
LEMMA SpreadIsApplied ==
  ASSUME NEW t, Spread(t, inbox)
  PROVE  Applied(t)
BY DEF Spread, Reached, Applied, HasRow, Shows, Exists, Withdrawn, Live

\* NothingLost: without database errors, a task whose row the queue has removed
\* has been executed for every target, however often the server restarted.
THEOREM NothingEverLost == Spec => []NothingLost
<1>1. Traced => NothingLost
  BY SpreadIsApplied DEF Traced, Errorless, NothingLost
<1> QED
  BY <1>1, AlwaysTraced, PTL

\* NotifyAfterWrite: without database errors, a connection is signalled only for
\* a message that its user can already read.
THEOREM NotifiedAfterWrite == Spec => []NotifyAfterWrite
<1>1. Traced => NotifyAfterWrite
  BY DEF Traced, Errorless, NotifyAfterWrite, HasRow, Exists
<1> QED
  BY <1>1, AlwaysTraced, PTL

\* AckedIsSafe: without database errors, what was answered OK is in the peer's
\* inbox, or owed by a stored task, or with all the targets of a task.
THEOREM AcknowledgedIsSafe == Spec => []AckedIsSafe
<1>1. ASSUME Traced, faults = 0, NEW i \in acked \ Systems
      PROVE  IF Direct(About(i))
             THEN /\ HasRow(To[About(i)], i)
                  /\ i \in Recalls => ~Shows(To[About(i)], About(i), "original")
             ELSE \E t \in submitted :
                    /\ i = IF t.kind = "recall" THEN t.event ELSE t.msg
                    /\ t \in stored \/ Applied(t)
  <2>1. Kept(i, inbox, submitted)
    BY <1>1 DEF Traced, Errorless
  <2>2. \A t \in submitted : t \in stored \/ Applied(t)
    BY <1>1, SpreadIsApplied DEF Traced, Errorless
  <2> QED
    BY <2>1, <2>2 DEF Kept, Newest, HasRow, Shows, Exists, Withdrawn, Live
<1>2. Traced => AckedIsSafe
  BY <1>1 DEF AckedIsSafe
<1> QED
  BY <1>2, AlwaysTraced, PTL

-----------------------------------------------------------------------------
(* Tasks are executed by one worker at a time *)

\* Job j is the execution of a task.
Executing(j) == j.stage \in {"fanout", "remove"}

\* A task that a worker executes is stored and waits in no channel, no two
\* workers have the same task, and a goroutine writes only its targets.
Exclusive ==
  /\ channel \subseteq stored
  /\ \A a \in Actors : Executing(job[a]) => \E t \in stored \ channel : Executes(job[a], t)
  /\ \A a, b \in Actors :
       a # b /\ Executing(job[a]) /\ Executing(job[b]) => job[a].id # job[b].id
  /\ \A a \in Actors, u \in Users : at[a][u].pc # "idle" => u \in job[a].targets

\* Every message that u sees recalled is announced to him by an event, or by a
\* goroutine that is about to write one, or by a stored task.
AnnouncedTo(u, m) ==
  \/ \E e \in Recalls : RecallOf[e] = m /\ Exists(inbox[u], e)
  \/ \E a \in Actors : job[a].msg = m /\ at[a][u].pc = "event"
  \/ \E t \in stored : t.kind = "recall" /\ t.msg = m /\ u \in t.targets

\* An event is always younger than the message it recalls.
Follows(box) ==
  \A e \in Recalls :
    Exists(box, e) =>
      /\ Exists(box, RecallOf[e])
      /\ Live(box, RecallOf[e]) => box.rows[e].seq > box.rows[RecallOf[e]].seq

\* A restart forgets the requests, which write the inbox of the sender and, in
\* a direct chat, that of the peer, but no task.
Survives(u, m) == crashes = 0 \/ (~Direct(m) /\ u # From[m])

\* The inductive invariant of the third part: Follows gives the event its place
\* above the message, and AnnouncedTo says who still has to write it.
Announcing ==
  /\ Exclusive
  /\ faults = 0 =>
       /\ \A u \in Users : Follows(inbox[u])
       /\ \A u \in Users, m \in Messages :
            Shows(u, m, "placeholder") /\ Survives(u, m) => AnnouncedTo(u, m)

\* Only goroutine a changes its job and cursors, to j and cur.
Turns(a, j, cur) ==
  /\ job'[a] = j /\ at'[a] = cur
  /\ \A b \in Actors \ {a} : job'[b] = job[b] /\ at'[b] = at[b]

\* An EXCEPT on job and at is a turn of one goroutine.
LEMMA ActorTurns ==
  ASSUME WellFormed, NEW a \in Actors, NEW j, NEW cur,
         job' = [job EXCEPT ![a] = j], at' = [at EXCEPT ![a] = cur] \/ (at' = at /\ cur = at[a])
  PROVE  Turns(a, j, cur)
BY DEF WellFormed, TypeOK, Turns

\* What must hold of one goroutine's step for Exclusive to stay.
LEMMA ExclusiveStays ==
  ASSUME Exclusive, NEW a \in Actors, NEW j, NEW cur, Turns(a, j, cur),
         channel' \subseteq stored',
         \A b \in Actors \ {a} : \A t \in stored \ channel :
           Executing(job[b]) /\ Executes(job[b], t) => t \in stored' \ channel',
         Executing(j) => /\ \E t \in stored' \ channel' : Executes(j, t)
                         /\ \A b \in Actors \ {a} : Executing(job[b]) => job[b].id # j.id,
         \A u \in Users : cur[u].pc # "idle" => u \in j.targets
  PROVE  Exclusive'
<1>1. \A b \in Actors : /\ job'[b] = IF b = a THEN j ELSE job[b]
                        /\ at'[b] = IF b = a THEN cur ELSE at[b]
  BY DEF Turns
<1>2. \A b \in Actors : Executing(job'[b]) => \E t \in stored' \ channel' : Executes(job'[b], t)
  BY <1>1 DEF Exclusive
<1>3. \A b, c \in Actors :
        b # c /\ Executing(job'[b]) /\ Executing(job'[c]) => job'[b].id # job'[c].id
  BY <1>1 DEF Exclusive
<1>4. \A b \in Actors, u \in Users : at'[b][u].pc # "idle" => u \in job'[b].targets
  BY <1>1 DEF Exclusive
<1> QED
  BY <1>2, <1>3, <1>4 DEF Exclusive

\* A goroutine that goes on to a job that is not a task's.
LEMMA ExclusiveRequest ==
  ASSUME Exclusive, NEW a \in Actors, NEW j, NEW cur, Turns(a, j, cur),
         stored' = stored, channel' = channel, ~Executing(j),
         \A u \in Users : cur[u].pc # "idle" => u \in j.targets
  PROVE  Exclusive'
BY ExclusiveStays DEF Exclusive

\* The cursors that a goroutine starts with are those of its targets.
LEMMA StartingTargets ==
  ASSUME NEW S
  PROVE  \A u \in Users : Starting(S)[u].pc # "idle" => u \in S
BY DEF Starting, Idle

\* Every step of a request that writes no inbox keeps Exclusive.
LEMMA RequestExclusive ==
  ASSUME WellFormed, Traced, Exclusive, NEW h \in Requests, RequestStep(h),
         ~ \E u \in Users : WriteInbox(h, u)
  PROVE  Exclusive'
<1> DEFINE j == job[h]
<1>0. /\ h \in Actors
      /\ j \in Job
      /\ JobOK(j, at[h])
      /\ at = [at EXCEPT ![h] = at[h]]
  BY ActorFacts, ActorKinds
<1>1. ASSUME NEW id, NEW kind, NEW who, NEW msg, NEW event, NEW targets, NEW stage, NEW S,
             Begin(h, id, Request(kind, who, msg, event, targets, stage), S),
             stage \in {"own", "list", "drop"}, S \subseteq targets
      PROVE  Exclusive'
  <2> DEFINE k == Request(kind, who, msg, event, targets, stage)
  <2>1. k.stage = stage /\ k.targets = targets
    BY DEF Request
  <2>2. Turns(h, k, Starting(S)) /\ stored' = stored /\ channel' = channel
    BY <1>0, <1>1, ActorTurns DEF Begin
  <2> HIDE DEF k
  <2>3. ~Executing(k) /\ \A u \in Users : Starting(S)[u].pc # "idle" => u \in k.targets
    BY <1>1, <2>1, StartingTargets DEF Executing
  <2> QED
    BY <1>0, <2>2, <2>3, ExclusiveRequest
<1>2. ASSUME NEW k, NEW S, S \subseteq k.targets, ~Executing(k),
             job' = [job EXCEPT ![h] = k], at' = [at EXCEPT ![h] = Starting(S)],
             stored' = stored, channel' = channel
      PROVE  Exclusive'
  <2>1. Turns(h, k, Starting(S))
    BY <1>0, <1>2, ActorTurns
  <2>2. \A u \in Users : Starting(S)[u].pc # "idle" => u \in k.targets
    BY <1>2, StartingTargets
  <2> QED
    BY <1>0, <1>2, <2>1, <2>2, ExclusiveRequest
<1>3. ASSUME \/ \E m \in Messages : StartSend(h, m)
             \/ \E e \in Recalls : StartRecall(h, e)
             \/ \E s \in Systems, u \in Users : AddGroupMember(h, s, u) \/ StartRemove(h, s, u)
      PROVE  Exclusive'
  <2>1. CASE \E m \in Messages : StartSend(h, m)
    BY <1>1, <2>1 DEF StartSend
  <2>2. CASE \E e \in Recalls : StartRecall(h, e)
    BY <1>1, <2>2 DEF StartRecall
  <2>3. CASE \E s \in Systems, u \in Users : AddGroupMember(h, s, u) \/ StartRemove(h, s, u)
    BY <1>1, <2>3 DEF AddGroupMember, StartRemove
  <2> QED
    BY <1>3, <2>1, <2>2, <2>3
<1>4. ASSUME RemoveMember(h)
      PROVE  Exclusive'
  <2>1. PICK k : job' = [job EXCEPT ![h] = k] /\ k \in {NoJob, [j EXCEPT !.stage = "submit"]}
    BY <1>4 DEF RemoveMember
  <2>2. ~Executing(k)
    BY <1>0, <2>1 DEF Executing, NoJob, Job
  <2>3. \A u \in Users : at[h][u].pc = "idle"
    BY <1>0, <1>4 DEF RemoveMember, JobOK
  <2>4. Turns(h, k, at[h])
    BY <1>0, <1>4, <2>1, ActorTurns DEF RemoveMember
  <2> QED
    BY <1>0, <1>4, <2>1, <2>2, <2>3, <2>4, ExclusiveRequest DEF RemoveMember
<1>5. ASSUME TurnToPeer(h)
      PROVE  Exclusive'
  <2> DEFINE k == [j EXCEPT !.targets = {To[j.msg]}, !.stage = "peer"]
  <2>1. k.targets = {To[j.msg]} /\ ~Executing(k)
    BY <1>0 DEF Job, Executing
  <2>2. job' = [job EXCEPT ![h] = k] /\ at' = [at EXCEPT ![h] = Starting({To[j.msg]})]
    BY <1>5 DEF TurnToPeer
  <2> HIDE DEF k
  <2> QED
    BY <1>2, <1>5, <2>1, <2>2 DEF TurnToPeer, store
<1>6. ASSUME AnswerDirect(h)
      PROVE  Exclusive'
  BY <1>2, <1>6 DEF AnswerDirect, store, NoJob, Executing
<1>7. ASSUME ListMembers(h)
      PROVE  Exclusive'
  <2>1. PICK S : job' = [job EXCEPT ![h] = [j EXCEPT !.targets = S, !.stage = "submit"]]
    BY <1>7 DEF ListMembers
  <2>2. ~Executing([j EXCEPT !.targets = S, !.stage = "submit"])
    BY <1>0 DEF Job, Executing
  <2> QED
    BY <1>2, <1>7, <2>1, <2>2 DEF ListMembers, store
<1>8. ASSUME Submit(h)
      PROVE  Exclusive'
  <2> DEFINE t == TaskOf(j)
  <2>1. t.id = nextTask
    BY DEF TaskOf
  <2>2. /\ job' = [job EXCEPT ![h] = NoJob]
        /\ at' = at
        /\ stored' = stored \cup {t}
        /\ channel' = channel \cup {t}
    BY <1>8 DEF Submit
  <2> HIDE DEF t
  <2>3. t \notin stored
    BY <2>1 DEF Traced, TasksTraced, WellFormed, TypeOK
  <2>4. \A u \in Users : at[h][u].pc = "idle"
    BY <1>0, <1>8 DEF Submit, JobOK
  <2>5. ~Executing(NoJob)
    BY DEF Executing, NoJob
  <2>6. channel' \subseteq stored' /\ stored \ channel \subseteq stored' \ channel'
    BY <2>2, <2>3 DEF Exclusive
  <2>7. Turns(h, NoJob, at[h])
    BY <1>0, <2>2, ActorTurns
  <2> QED
    BY <1>0, <2>4, <2>5, <2>6, <2>7, ExclusiveStays
<1> QED
  BY <1>3, <1>4, <1>5, <1>6, <1>7, <1>8 DEF RequestStep

\* A write of an inbox goes on with a target it has started.
LEMMA WriteExclusive ==
  ASSUME WellFormed, Exclusive, NEW a \in Actors, NEW u \in Users, WriteInbox(a, u)
  PROVE  Exclusive'
<1>1. PICK pc, seq : MoveTo(a, u, pc, seq)
  BY DEF WriteInbox, InsertRow, MaskRow, InsertEvent, TouchConversation
<1>2. at[a][u].pc # "idle"
  BY DEF WriteInbox, InsertRow, MaskRow, InsertEvent, TouchConversation
<1>3. \A b \in Actors, v \in Users : (b # a \/ v # u) => at'[b][v] = at[b][v]
  <2>1. \A b \in Actors, v \in Users :
          at'[b][v] = IF b = a /\ v = u THEN [pc |-> pc, seq |-> seq] ELSE at[b][v]
    BY <1>1, MoveToCursors DEF WellFormed
  <2> QED
    BY <2>1, Zenon
<1>4. job' = job /\ stored' = stored /\ channel' = channel
  BY <1>1 DEF MoveTo
<1> QED
  BY <1>2, <1>3, <1>4 DEF Exclusive

\* A worker takes a task that no other has, and removes only its own.
LEMMA WorkerExclusive ==
  ASSUME WellFormed, Traced, Exclusive, NEW w \in Workers, Take(w) \/ Notify(w) \/ RemoveTask(w)
  PROVE  Exclusive'
<1> DEFINE j == job[w]
<1>0. /\ w \in Actors
      /\ j \in Job
      /\ at = [at EXCEPT ![w] = at[w]]
  BY ActorFacts, ActorKinds
<1>1. ASSUME Take(w)
      PROVE  Exclusive'
  <2>1. PICK t \in channel :
          /\ channel' = channel \ {t}
          /\ job' = [job EXCEPT ![w] = JobOf(t)]
          /\ at' = [at EXCEPT ![w] = Starting(t.targets)]
          /\ stored' = stored
    BY <1>1 DEF Take, store
  <2>2. Executes(JobOf(t), t) /\ JobOf(t).targets = t.targets /\ JobOf(t).id = t.id
    BY DEF Executes, JobOf
  <2>3. t \in stored' \ channel' /\ channel' \subseteq stored'
    BY <2>1 DEF Exclusive
  <2>4. ASSUME NEW b \in Actors \ {w}, Executing(job[b])
        PROVE  job[b].id # t.id
    <3>1. PICK s \in stored \ channel : Executes(job[b], s)
      BY <2>4 DEF Exclusive
    <3>2. s # t /\ s \in submitted /\ t \in submitted
      BY <2>1, <3>1 DEF Traced, TasksTraced
    <3> QED
      BY <3>1, <3>2 DEF Traced, TasksTraced, Executes
  <2>5. \A s \in stored \ channel : s \in stored' \ channel'
    BY <2>1
  <2>6. Turns(w, JobOf(t), Starting(t.targets))
    BY <1>0, <2>1, ActorTurns
  <2>7. \A u \in Users : Starting(t.targets)[u].pc # "idle" => u \in JobOf(t).targets
    BY <2>2, StartingTargets
  <2> QED
    BY <1>0, <2>2, <2>3, <2>4, <2>5, <2>6, <2>7, ExclusiveStays
<1>2. ASSUME Notify(w)
      PROVE  Exclusive'
  <2> DEFINE k == [j EXCEPT !.stage = "remove"]
  <2>1. /\ k.id = j.id /\ k.targets = j.targets
        /\ \A t : Executes(j, t) => Executes(k, t)
    BY <1>0 DEF Job, Executes
  <2>2. /\ Turns(w, k, at[w])
        /\ stored' = stored /\ channel' = channel
        /\ Executing(j)
    BY <1>0, <1>2, ActorTurns DEF Notify, store, Executing
  <2> HIDE DEF k
  <2> QED
    BY <1>0, <2>1, <2>2, ExclusiveStays DEF Exclusive
<1>3. ASSUME RemoveTask(w)
      PROVE  Exclusive'
  <2>1. /\ job' = [job EXCEPT ![w] = NoJob] /\ at' = [at EXCEPT ![w] = Starting({})]
        /\ stored' = {t \in stored : t.id # j.id} /\ channel' = channel
        /\ Executing(j) /\ ~Executing(NoJob)
    BY <1>3 DEF RemoveTask, Executing, NoJob
  <2>2. channel' \subseteq stored'
    <3>1. PICK s \in stored \ channel : Executes(j, s)
      BY <1>0, <2>1 DEF Exclusive
    <3>2. \A t \in channel : t.id # j.id
      BY <3>1 DEF Traced, TasksTraced, Executes
    <3> QED
      BY <2>1, <3>2 DEF Exclusive
  <2>3. \A b \in Actors \ {w} : \A t \in stored \ channel :
          Executing(job[b]) /\ Executes(job[b], t) => t \in stored' \ channel'
    BY <1>0, <2>1 DEF Exclusive, Executes
  <2>4. \A u \in Users : Starting({})[u].pc = "idle"
    BY StartingType
  <2>5. Turns(w, NoJob, Starting({}))
    BY <1>0, <2>1, ActorTurns
  <2> QED
    BY <1>0, <2>1, <2>2, <2>3, <2>4, <2>5, ExclusiveStays
<1> QED
  BY <1>1, <1>2, <1>3

\* Errors and restarts give no task to two workers.
LEMMA FaultExclusive ==
  ASSUME WellFormed, Exclusive, FaultStep
  PROVE  Exclusive'
<1>1. ASSUME NEW a \in Actors, NEW u \in Users, WriteFails(a, u)
      PROVE  Exclusive'
  <2>1. \A b \in Actors, v \in Users : (b # a \/ v # u) => at'[b][v] = at[b][v]
    BY <1>1 DEF WriteFails, WellFormed, TypeOK
  <2>2. at[a][u].pc # "idle"
    BY <1>1 DEF WriteFails
  <2> QED
    BY <1>1, <2>1, <2>2 DEF WriteFails, Fault, store, Exclusive
<1>2. ASSUME NEW a \in Actors, job' = [job EXCEPT ![a] = NoJob],
             at' = [at EXCEPT ![a] = Starting({})], Fault
      PROVE  Exclusive'
  <2>1. ~Executing(NoJob) /\ \A u \in Users : Starting({})[u].pc = "idle"
    BY StartingType DEF Executing, NoJob
  <2>2. Turns(a, NoJob, Starting({}))
    BY <1>2, ActorTurns
  <2> QED
    BY <1>2, <2>1, <2>2, ExclusiveRequest DEF Fault, store
<1>3. ASSUME NEW h \in Requests, ListFails(h)
      PROVE  Exclusive'
  <2>1. PICK stage \in {"submit", "drop"} :
          job' = [job EXCEPT ![h] = [job[h] EXCEPT !.targets = {}, !.stage = stage]]
    BY <1>3 DEF ListFails
  <2>2. /\ h \in Actors
        /\ job[h] \in Job
        /\ JobOK(job[h], at[h])
        /\ at = [at EXCEPT ![h] = at[h]]
    BY ActorType, ActorKinds DEF WellFormed
  <2>3. ~Executing([job[h] EXCEPT !.targets = {}, !.stage = stage])
    BY <2>2 DEF Executing, Job
  <2>4. \A u \in Users : at[h][u].pc = "idle"
    BY <1>3, <2>2 DEF ListFails, JobOK
  <2>5. Turns(h, [job[h] EXCEPT !.targets = {}, !.stage = stage], at[h])
    BY <1>3, <2>1, <2>2, ActorTurns DEF ListFails
  <2> QED
    BY <1>3, <2>2, <2>3, <2>4, <2>5, ExclusiveRequest DEF ListFails, Fault, store
<1>4. ASSUME Restart
      PROVE  Exclusive'
  BY <1>4, StartingType DEF Restart, store, Exclusive, Executing, NoJob
<1> QED
  BY <1>1, <1>2, <1>3, <1>4, ActorKinds DEF FaultStep, RequestFails, RemoveFails

\* Every step keeps Exclusive.
LEMMA StepExclusive ==
  ASSUME WellFormed, Traced, Exclusive, [Next]_vars
  PROVE  Exclusive'
<1>1. CASE UNCHANGED vars
  BY <1>1 DEF vars, store, Exclusive
<1>2. CASE \E a \in Actors, u \in Users : WriteInbox(a, u)
  BY <1>2, WriteExclusive
<1>3. CASE \E h \in Requests : RequestStep(h) /\ ~ \E u \in Users : WriteInbox(h, u)
  BY <1>3, RequestExclusive
<1>4. CASE \E w \in Workers : Take(w) \/ Notify(w) \/ RemoveTask(w)
  BY <1>4, WorkerExclusive
<1>5. CASE \E u \in Users : UserStep(u)
  BY <1>5 DEF UserStep, DeleteMessage, RemoveConversation, ReadConversation, Edit, Exclusive
<1>6. CASE FaultStep
  BY <1>6, FaultExclusive
<1> QED
  BY <1>1, <1>2, <1>3, <1>4, <1>5, <1>6, ActorKinds DEF Next, WorkerStep

\* Exclusive holds in every reachable state: whatever is submitted, retried or
\* replayed, no task is executed by two workers at once.
THEOREM TasksExclusive == Spec => []Exclusive
<1>1. Init => Exclusive
  BY StartingType DEF Init, Exclusive, Executing, NoJob
<1>2. WellFormed /\ Traced /\ Exclusive /\ [Next]_vars => Exclusive'
  BY StepExclusive
<1> QED
  BY <1>1, <1>2, AlwaysWellFormed, AlwaysTraced, PTL DEF Spec

-----------------------------------------------------------------------------
(* Recalls are announced *)

\* A visible change keeps events younger than what they recall, if an event
\* arrives only where its message is.
LEMMA VisibleKeepsFollows ==
  ASSUME NEW old \in Box, NEW new, Visible(old, new), WellNumbered(old), Follows(old),
         \A e \in Recalls : Exists(new, e) /\ ~Exists(old, e) => Exists(old, RecallOf[e])
  PROVE  Follows(new)
<1>0. /\ old.rows \in [Ids -> Row]
      /\ old.max \in Nat
      /\ \A i \in Ids : old.rows[i].seq \in Nat /\ old.rows[i].seq <= old.max
  BY DEF Box, Row, WellNumbered
<1>1. CASE new.rows = old.rows
  BY <1>1 DEF Follows, Exists, Live
<1>2. ASSUME NEW k \in Ids, NEW row \in Row, new.rows = [old.rows EXCEPT ![k] = row],
             \/ ~Exists(old, k) /\ row.seq = old.max + 1
             \/ Live(old, k) /\ row.seq = old.rows[k].seq /\ row.kind = "placeholder"
             \/ Live(old, k) /\ row.seq = old.max + 1 /\ row.kind = old.rows[k].kind /\ row.deleted
      PROVE  Follows(new)
  <2>1. \A i \in Ids : new.rows[i] = IF i = k THEN row ELSE old.rows[i]
    BY <1>0, <1>2
  <2>2. ASSUME NEW e \in Recalls, Exists(new, e)
        PROVE  /\ Exists(new, RecallOf[e])
               /\ Live(new, RecallOf[e]) => new.rows[e].seq > new.rows[RecallOf[e]].seq
    <3> DEFINE m == RecallOf[e]
    <3>1. e \in Ids /\ m \in Ids /\ e # m
      BY MessagingAssumption
    <3>2. Exists(old, m)
      <4>1. CASE Exists(old, e)
        BY <4>1 DEF Follows
      <4>2. CASE ~Exists(old, e)
        BY <2>2, <4>2
      <4> QED
        BY <4>1, <4>2
    <3> HIDE DEF m
    <3>3. CASE e = k
      <4>1. new.rows[m] = old.rows[m] /\ new.rows[e] = row
        BY <2>1, <3>1, <3>3
      <4>2. Exists(old, e) => (Live(old, m) => old.rows[e].seq > old.rows[m].seq)
        BY DEF Follows, m
      <4>3. Exists(new, m) /\ (Live(new, m) => Live(old, m))
        BY <3>2, <4>1 DEF Exists, Live
      <4>4. Live(old, m) => row.seq > old.rows[m].seq
        BY <1>0, <1>2, <3>1, <3>3, <4>2 DEF Live
      <4> QED
        BY <4>1, <4>3, <4>4 DEF m
    <3>4. CASE m = k
      <4>1. new.rows[m] = row /\ new.rows[e] = old.rows[e]
        BY <2>1, <3>1, <3>4
      <4>2. Exists(old, e)
        BY <2>2, <4>1 DEF Exists
      <4>3. Live(old, m) => old.rows[e].seq > old.rows[m].seq
        BY <4>2 DEF Follows, m
      <4>4. Exists(new, m)
        BY <1>2, <3>2, <3>4, <4>1 DEF Exists, Live
      <4>5. Live(new, m) => old.rows[e].seq > row.seq
        BY <1>2, <3>2, <3>4, <4>1, <4>3 DEF Live
      <4> QED
        BY <4>1, <4>4, <4>5 DEF m
    <3>5. CASE e # k /\ m # k
      <4>1. new.rows[m] = old.rows[m] /\ new.rows[e] = old.rows[e]
        BY <2>1, <3>1, <3>5
      <4> QED
        BY <2>2, <3>2, <4>1 DEF Follows, Exists, Live, m
    <3> QED
      BY <3>3, <3>4, <3>5
  <2> QED
    BY <2>2 DEF Follows
<1> QED
  BY <1>1, <1>2 DEF Visible

\* Only InsertEvent adds an event, to an inbox that has what it recalls.
LEMMA EventHasWriter ==
  ASSUME WellFormed, Traced, faults = 0, NEW a \in Actors, NEW u \in Users, WriteInbox(a, u),
         NEW e \in Recalls, Exists(inbox'[u], e), ~Exists(inbox[u], e)
  PROVE  at[a][u].pc = "event" /\ job[a].event = e /\ Exists(inbox[u], RecallOf[e])
<1> DEFINE j == job[a]
<1>0. /\ inbox[u] \in Box
      /\ inbox[u].rows \in [Ids -> Row]
      /\ \A new : inbox' = [inbox EXCEPT ![u] = new] => inbox'[u] = new
      /\ e \in Ids
  BY NamesAreIds DEF WellFormed, TypeOK, Box
<1>1. at[a][u].pc # "idle"
  BY DEF WriteInbox, InsertRow, MaskRow, InsertEvent, TouchConversation
<1>2. /\ j.kind \in JobKinds /\ TaskOK(j) /\ j.msg \in Ids
      /\ JobNamed(j, submitted)
      /\ Reached(j, inbox[u], at[a][u].pc)
  BY <1>1, WriterType, ActorFacts DEF Progress
<1>3. ASSUME NEW i \in Ids, NEW kind, inbox'[u] = Insert(inbox[u], i, kind)
      PROVE  i = e
  <2>1. ASSUME i # e
        PROVE  inbox'[u].rows[e] = inbox[u].rows[e]
    <3>1. \/ inbox'[u].rows = inbox[u].rows
          \/ \E row : inbox'[u].rows = [inbox[u].rows EXCEPT ![i] = row]
      BY <1>0, <1>3 DEF Insert, Box
    <3> QED
      BY <1>0, <2>1, <3>1
  <2> QED
    BY <2>1 DEF Exists
<1>4. CASE InsertRow(a, u)
  <2>1. inbox'[u] = Insert(inbox[u], j.msg, BodyOf(j.kind))
    BY <1>0, <1>4 DEF InsertRow
  <2>2. j.msg \notin Recalls
    BY <1>2, MessagingAssumption DEF TaskOK, JobKinds
  <2> QED
    BY <1>2, <1>3, <2>1, <2>2
<1>5. CASE MaskRow(a, u)
  <2>1. inbox'[u] = Mask(inbox[u], j.msg)
    BY <1>0, <1>5 DEF MaskRow
  <2>2. j.msg # e
    BY <1>2, MessagingAssumption DEF TaskOK, JobKinds
  <2>3. \/ inbox'[u].rows = inbox[u].rows
        \/ \E row : inbox'[u].rows = [inbox[u].rows EXCEPT ![j.msg] = row]
    BY <1>0, <2>1 DEF Mask, Box
  <2>4. inbox'[u].rows[e] = inbox[u].rows[e]
    BY <1>0, <2>2, <2>3
  <2> QED
    BY <2>4 DEF Exists
<1>6. CASE InsertEvent(a, u)
  <2>1. inbox'[u] = Insert(inbox[u], j.event, "event") /\ at[a][u].pc = "event"
    BY <1>0, <1>6 DEF InsertEvent
  <2>2. j.kind = "recall" /\ j.event \in Ids
    BY <1>2, <2>1, ActorType, NamesAreIds DEF WellFormed, JobOK, TaskOK
  <2>3. j.event = e /\ RecallOf[j.event] = j.msg
    BY <1>2, <1>3, <2>1, <2>2 DEF JobNamed, Named
  <2> QED
    BY <1>2, <2>1, <2>3 DEF Reached
<1>7. CASE TouchConversation(a, u)
  <2> DEFINE new == Upsert(inbox[u], PeerOf(j, u), at[a][u].seq, Newest(j), UnreadMode(j, u))
  <2>1. inbox' = [inbox EXCEPT ![u] = new]
    BY <1>7 DEF TouchConversation
  <2>2. new.rows = inbox[u].rows
    BY <1>0 DEF Upsert, SetConversation, Box
  <2> HIDE DEF new
  <2>3. inbox'[u] = new
    BY <1>0, <2>1
  <2> QED
    BY <2>2, <2>3 DEF Exists
<1> QED
  BY <1>4, <1>5, <1>6, <1>7 DEF WriteInbox

\* A step that writes no inbox adds no row to one and masks none.
LEMMA OthersAddNothing ==
  ASSUME WellFormed, [Next]_vars, ~ \E a \in Actors, u \in Users : WriteInbox(a, u),
         NEW u \in Users, NEW i \in Ids
  PROVE  /\ Exists(inbox'[u], i) => Exists(inbox[u], i)
         /\ Shows(u, i, "placeholder")' => Shows(u, i, "placeholder")
<1>0. inbox \in [Users -> Box]
  BY DEF WellFormed, TypeOK
<1>1. ASSUME inbox' = inbox
      PROVE  /\ Exists(inbox'[u], i) => Exists(inbox[u], i)
             /\ Shows(u, i, "placeholder")' => Shows(u, i, "placeholder")
  BY <1>1 DEF Shows
<1>2. ASSUME NEW v \in Users, UserStep(v)
      PROVE  /\ Exists(inbox'[u], i) => Exists(inbox[u], i)
             /\ Shows(u, i, "placeholder")' => Shows(u, i, "placeholder")
  <2>1. PICK new : /\ inbox' = [inbox EXCEPT ![v] = new]
                   /\ \/ \E k \in Ids : new = DeleteByMsgID(inbox[v], k)
                      \/ \E k \in Chats : new = ClearUnread(inbox[v], k)
                      \/ \E k \in Chats : new = DeleteConversation(inbox[v], k)
    BY <1>2 DEF UserStep, DeleteMessage, RemoveConversation, ReadConversation, Edit
  <2>2. inbox'[u] = IF u = v THEN new ELSE inbox[u]
    BY <1>0, <2>1
  <2>3. inbox[v] \in Box /\ inbox[v].rows \in [Ids -> Row]
    BY <1>0 DEF Box
  <2>4. \/ new.rows = inbox[v].rows
        \/ \E k \in Ids : /\ Live(inbox[v], k)
                          /\ new.rows = [inbox[v].rows EXCEPT
                               ![k] = [inbox[v].rows[k] EXCEPT !.seq = inbox[v].max + 1,
                                                               !.deleted = TRUE]]
    <3>1. ASSUME NEW k \in Ids, new = DeleteByMsgID(inbox[v], k)
          PROVE  \/ new.rows = inbox[v].rows
                 \/ /\ Live(inbox[v], k)
                    /\ new.rows = [inbox[v].rows EXCEPT
                         ![k] = [inbox[v].rows[k] EXCEPT !.seq = inbox[v].max + 1,
                                                         !.deleted = TRUE]]
      BY <2>3, <3>1 DEF DeleteByMsgID, Box
    <3> QED
      BY <2>1, <2>3, <3>1, ConversationsKeepRows
  <2>5. new.rows[i] = inbox[v].rows[i] \/ (Live(inbox[v], i) /\ new.rows[i].deleted)
    BY <2>3, <2>4 DEF Row
  <2> QED
    BY <2>2, <2>5 DEF Exists, Shows, Live
<1>3. CASE \E v \in Users : UserStep(v)
  BY <1>2, <1>3
<1>4. CASE UNCHANGED vars
  BY <1>1, <1>4 DEF vars, store
<1>5. CASE FaultStep
  <2>1. inbox' = inbox
    BY <1>5 DEF FaultStep, WriteFails, RequestFails, ListFails, RemoveFails, Fault, Restart, store
  <2> QED
    BY <1>1, <2>1
<1>6. CASE \E h \in Requests : RequestStep(h)
  <2>1. inbox' = inbox
    BY <1>6, ActorKinds, ZenonT(60)
       DEF RequestStep, StartSend, StartRecall, AddGroupMember, StartRemove, Begin,
           RemoveMember, TurnToPeer, AnswerDirect, ListMembers, Submit, store
  <2> QED
    BY <1>1, <2>1
<1>7. CASE \E w \in Workers : WorkerStep(w)
  <2>1. inbox' = inbox
    BY <1>7, ActorKinds DEF WorkerStep, Take, Notify, RemoveTask, store
  <2> QED
    BY <1>1, <2>1
<1> QED
  BY <1>3, <1>4, <1>5, <1>6, <1>7 DEF Next

\* Every step keeps events younger than what they recall.
LEMMA FollowsStays ==
  ASSUME WellFormed, KindsOK, SeqsDistinct, Traced, faults = 0, [Next]_vars,
         \A u \in Users : Follows(inbox[u])
  PROVE  \A u \in Users : Follows(inbox'[u])
<1>0. /\ inbox \in [Users -> Box]
      /\ \A u \in Users : WellNumbered(inbox[u])
  BY SeqsDistinctIsWellNumbered DEF WellFormed, TypeOK
<1>1. OneVisibleChange
  BY StepKeeps, TransactionsAreVisible DEF WellFormed
<1>2. ASSUME NEW u \in Users, NEW e \in Recalls, Exists(inbox'[u], e), ~Exists(inbox[u], e)
      PROVE  Exists(inbox[u], RecallOf[e])
  <2>1. e \in Ids
    BY NamesAreIds
  <2>2. PICK a \in Actors, v \in Users : WriteInbox(a, v)
    BY <1>2, <2>1, OthersAddNothing
  <2>3. v = u
    <3>1. \E new : inbox' = [inbox EXCEPT ![v] = new]
      BY <2>2 DEF WriteInbox, InsertRow, MaskRow, InsertEvent, TouchConversation
    <3> QED
      BY <1>0, <1>2, <3>1
  <2> QED
    BY <1>2, <2>2, <2>3, EventHasWriter
<1>3. ASSUME NEW v \in Users, NEW new \in Box,
             Visible(inbox[v], new), inbox' = [inbox EXCEPT ![v] = new]
      PROVE  \A u \in Users : Follows(inbox'[u])
  <2>1. \A u \in Users : inbox'[u] = IF u = v THEN new ELSE inbox[u]
    BY <1>0, <1>3
  <2>2. \A e \in Recalls : Exists(new, e) /\ ~Exists(inbox[v], e) => Exists(inbox[v], RecallOf[e])
    BY <1>2, <2>1
  <2>3. Follows(new)
    BY <1>0, <1>3, <2>2, VisibleKeepsFollows
  <2> QED
    BY <2>1, <2>3
<1> QED
  BY <1>1, <1>3 DEF OneVisibleChange

\* Whoever puts a placeholder in an inbox is about to write its event.
LEMMA PlaceholderHasWriter ==
  ASSUME WellFormed, NEW a \in Actors, NEW u \in Users, WriteInbox(a, u),
         NEW v \in Users, NEW m \in Messages,
         ~Shows(v, m, "placeholder"), Shows(v, m, "placeholder")'
  PROVE  job'[a].msg = m /\ at'[a][v].pc = "event"
<1> DEFINE j == job[a]
<1>0. /\ inbox \in [Users -> Box]
      /\ inbox[u] \in Box
      /\ inbox[u].rows \in [Ids -> Row]
      /\ m \in Ids
  BY NamesAreIds DEF WellFormed, TypeOK, Box
<1>1. at[a][u].pc # "idle"
  BY DEF WriteInbox, InsertRow, MaskRow, InsertEvent, TouchConversation
<1>2. j.kind \in JobKinds /\ TaskOK(j) /\ j.msg \in Ids
  BY <1>1, WriterType
<1>3. \E new : inbox' = [inbox EXCEPT ![u] = new]
  BY DEF WriteInbox, InsertRow, MaskRow, InsertEvent, TouchConversation
<1>4. v = u
  BY <1>0, <1>3 DEF Shows
<1>5. \A new : inbox' = [inbox EXCEPT ![u] = new] => inbox'[u] = new
  BY <1>0
<1>6. inbox'[u].rows[m] # inbox[u].rows[m]
  BY <1>4 DEF Shows
<1>7. \A pc, seq : MoveTo(a, u, pc, seq) => job' = job /\ at'[a][u].pc = pc
  BY DEF MoveTo, WellFormed, TypeOK
<1>8. CASE InsertRow(a, u)
  <2> DEFINE seq == InsertedSeq(inbox[u], j.msg)
             kind == BodyOf(j.kind)
             row == [seq |-> inbox[u].max + 1, kind |-> kind, deleted |-> FALSE]
  <2>1. inbox'[u] = Insert(inbox[u], j.msg, kind)
    BY <1>5, <1>8 DEF InsertRow
  <2>2. ~Exists(inbox[u], j.msg) /\ inbox'[u].rows = [inbox[u].rows EXCEPT ![j.msg] = row]
    BY <1>0, <1>6, <2>1 DEF Insert, Box
  <2>3. j.msg = m /\ inbox'[u].rows[m] = row
    BY <1>0, <1>2, <1>6, <2>2
  <2>4. kind = "placeholder"
    BY <1>4, <2>3 DEF Shows
  <2>5. j.kind = "recall"
    BY <1>2, <2>4 DEF BodyOf, JobKinds
  <2>6. seq # 0
    BY <1>0, <2>2 DEF InsertedSeq, Box
  <2>7. MoveTo(a, u, "event", seq)
    BY <1>8, <2>5, <2>6 DEF InsertRow, AfterInsert
  <2> QED
    BY <1>4, <1>7, <2>3, <2>7
<1>9. CASE MaskRow(a, u)
  <2>1. inbox'[u] = Mask(inbox[u], j.msg) /\ MoveTo(a, u, "event", 0)
    BY <1>5, <1>9 DEF MaskRow
  <2>2. j.msg = m
    <3>1. \/ inbox'[u].rows = inbox[u].rows
          \/ \E row : inbox'[u].rows = [inbox[u].rows EXCEPT ![j.msg] = row]
      BY <1>0, <2>1 DEF Mask, Box
    <3> QED
      BY <1>0, <1>6, <3>1
  <2> QED
    BY <1>4, <1>7, <2>1, <2>2
<1>10. CASE InsertEvent(a, u)
  <2>1. inbox'[u] = Insert(inbox[u], j.event, "event") /\ at[a][u].pc = "event"
    BY <1>5, <1>10 DEF InsertEvent
  <2>2. j.event # m
    BY <1>2, <2>1, ActorType, MessagingAssumption DEF WellFormed, JobOK, TaskOK
  <2>3. \/ inbox'[u].rows = inbox[u].rows
        \/ \E row : inbox'[u].rows = [inbox[u].rows EXCEPT ![j.event] = row]
    BY <1>0, <2>1 DEF Insert, Box
  <2> QED
    BY <1>0, <1>6, <2>2, <2>3
<1>11. CASE TouchConversation(a, u)
  <2>1. inbox'[u].rows = inbox[u].rows
    BY <1>0, <1>5, <1>11 DEF TouchConversation, Upsert, SetConversation, Box
  <2> QED
    BY <1>6, <2>1
<1> QED
  BY <1>8, <1>9, <1>10, <1>11 DEF WriteInbox

\* A goroutine in the middle of an inbox only goes on by writing it, unless the
\* process restarts or the database fails.
LEMMA BusyCursorStays ==
  ASSUME WellFormed, Traced, Exclusive, [Next]_vars, ~FaultStep, faults = 0,
         NEW a \in Actors, NEW u \in Users, at[a][u].pc \notin {"idle", "done"},
         ~WriteInbox(a, u)
  PROVE  job'[a] = job[a] /\ at'[a][u] = at[a][u]
<1>0. /\ JobOK(job[a], at[a])
      /\ JobNamed(job[a], submitted)
      /\ Progress(job[a], at[a], inbox)
      /\ job[a] \in Job
      /\ u \in job[a].targets
      /\ job \in [Actors -> Job]
      /\ at \in [Actors -> [Users -> Cursor]]
  BY ActorFacts DEF Exclusive, WellFormed, TypeOK
<1>1. job[a] # NoJob /\ ~AllWritten(a) /\ job[a].stage \notin {"drop", "submit", "list", "remove"}
  BY <1>0 DEF JobOK, NoJob, AllWritten, Progress
<1>2. ASSUME job' = job, at' = at
      PROVE  job'[a] = job[a] /\ at'[a][u] = at[a][u]
  BY <1>2
<1>3. ASSUME NEW b \in Actors, b # a, NEW j, NEW cur,
             job' = [job EXCEPT ![b] = j], at' = at \/ at' = [at EXCEPT ![b] = cur]
      PROVE  job'[a] = job[a] /\ at'[a][u] = at[a][u]
  BY <1>0, <1>3
<1>4. ASSUME NEW b \in Actors, NEW v \in Users, WriteInbox(b, v)
      PROVE  job'[a] = job[a] /\ at'[a][u] = at[a][u]
  <2>1. PICK pc, seq : MoveTo(b, v, pc, seq)
    BY <1>4 DEF WriteInbox, InsertRow, MaskRow, InsertEvent, TouchConversation
  <2>2. \A c \in Actors, w \in Users :
          at'[c][w] = IF c = b /\ w = v THEN [pc |-> pc, seq |-> seq] ELSE at[c][w]
    BY <2>1, MoveToCursors DEF WellFormed
  <2>3. b # a \/ v # u
    BY <1>4
  <2>4. at'[a][u] = at[a][u]
    BY <2>2, <2>3, Zenon
  <2> QED
    BY <2>1, <2>4 DEF MoveTo
<1>5. ASSUME NEW h \in Requests, RequestStep(h)
      PROVE  job'[a] = job[a] /\ at'[a][u] = at[a][u]
  <2>0. h \in Actors
    BY ActorKinds
  <2>1. CASE \E v \in Users : WriteInbox(h, v)
    BY <1>4, <2>0, <2>1
  <2>2. CASE ~ \E v \in Users : WriteInbox(h, v)
    <3>1. h # a
      BY <1>1, <1>5, <2>2
         DEF RequestStep, StartSend, StartRecall, AddGroupMember, StartRemove, Begin,
             RemoveMember, TurnToPeer, AnswerDirect, ListMembers, Submit, OwnInboxWritten
    <3>2. /\ \E j : job' = [job EXCEPT ![h] = j]
          /\ at' = at \/ \E cur : at' = [at EXCEPT ![h] = cur]
      BY <1>5, <2>2
         DEF RequestStep, StartSend, StartRecall, AddGroupMember, StartRemove, Begin,
             RemoveMember, TurnToPeer, AnswerDirect, ListMembers, Submit
    <3> QED
      BY <1>3, <2>0, <3>1, <3>2
  <2> QED
    BY <2>1, <2>2
<1>6. ASSUME NEW w \in Workers, WorkerStep(w)
      PROVE  job'[a] = job[a] /\ at'[a][u] = at[a][u]
  <2>0. w \in Actors
    BY ActorKinds
  <2>1. CASE \E v \in Users : WriteInbox(w, v)
    BY <1>4, <2>0, <2>1
  <2>2. CASE ~ \E v \in Users : WriteInbox(w, v)
    <3>1. w # a
      BY <1>1, <1>6, <2>2 DEF WorkerStep, Take, Notify, RemoveTask
    <3>2. /\ \E j : job' = [job EXCEPT ![w] = j]
          /\ at' = at \/ \E cur : at' = [at EXCEPT ![w] = cur]
      BY <1>6, <2>2 DEF WorkerStep, Take, Notify, RemoveTask
    <3> QED
      BY <1>3, <2>0, <3>1, <3>2
  <2> QED
    BY <2>1, <2>2
<1>7. CASE \E v \in Users : UserStep(v)
  BY <1>2, <1>7 DEF UserStep, DeleteMessage, RemoveConversation, ReadConversation, Edit
<1>8. CASE UNCHANGED vars
  BY <1>2, <1>8 DEF vars
<1> QED
  BY <1>5, <1>6, <1>7, <1>8 DEF Next

\* A goroutine that is about to write an event is still, or has written it,
\* unless the process restarts or the database fails.
LEMMA EventCursorStays ==
  ASSUME WellFormed, Traced, Exclusive, [Next]_vars, ~FaultStep, faults = 0,
         NEW a \in Actors, NEW u \in Users, at[a][u].pc = "event", ~InsertEvent(a, u)
  PROVE  job'[a].msg = job[a].msg /\ at'[a][u].pc = "event"
<1>1. ~WriteInbox(a, u)
  BY DEF WriteInbox, InsertRow, MaskRow, TouchConversation
<1> QED
  BY <1>1, BusyCursorStays

\* A restart leaves the event of a group message to a stored task.
LEMMA RestartLeavesTask ==
  ASSUME WellFormed, Traced, Exclusive, NEW a \in Actors, NEW u \in Users,
         at[a][u].pc = "event", ~Direct(job[a].msg), u # From[job[a].msg]
  PROVE  \E t \in stored : t.kind = "recall" /\ t.msg = job[a].msg /\ u \in t.targets
<1>1. /\ job[a] \in Job
      /\ JobOK(job[a], at[a])
      /\ JobNamed(job[a], submitted)
      /\ u \in job[a].targets
  BY ActorFacts DEF Exclusive
<1>2. job[a].kind = "recall"
  BY <1>1 DEF JobOK
<1>3. Executing(job[a])
  BY <1>1, <1>2 DEF Executing, Job, JobOK, JobNamed, Named
<1> QED
  BY <1>1, <1>2, <1>3 DEF Exclusive, Executes

\* No step forgets a task that was submitted, and only faults are counted as
\* errors and restarts.
LEMMA StepCounts ==
  ASSUME [Next]_vars
  PROVE  /\ submitted \subseteq submitted'
         /\ ~FaultStep => faults' = faults /\ crashes' = crashes
         /\ FaultStep => \/ Restart /\ faults' = faults /\ crashes' = crashes + 1
                         \/ faults' = faults + 1 /\ crashes' = crashes
<1>1. CASE FaultStep
  BY <1>1 DEF FaultStep, WriteFails, RequestFails, ListFails, RemoveFails, Fault, Restart,
              history
<1>2. ASSUME NEW a \in Actors, NEW u \in Users, WriteInbox(a, u)
      PROVE  submitted' = submitted /\ faults' = faults /\ crashes' = crashes
  <2>1. PICK pc, seq : MoveTo(a, u, pc, seq)
    BY <1>2 DEF WriteInbox, InsertRow, MaskRow, InsertEvent, TouchConversation
  <2> QED
    BY <2>1 DEF MoveTo, history, counters
<1>3. ASSUME NEW h \in Requests, RequestStep(h), ~ \E u \in Users : WriteInbox(h, u)
      PROVE  submitted \subseteq submitted' /\ faults' = faults /\ crashes' = crashes
  <2>1. CASE \/ \E m \in Messages : StartSend(h, m)
             \/ \E e \in Recalls : StartRecall(h, e)
             \/ \E s \in Systems, u \in Users : AddGroupMember(h, s, u) \/ StartRemove(h, s, u)
    BY <2>1 DEF StartSend, StartRecall, AddGroupMember, StartRemove, Begin, history
  <2>2. CASE RemoveMember(h) \/ TurnToPeer(h) \/ AnswerDirect(h) \/ ListMembers(h) \/ Submit(h)
    BY <2>2 DEF RemoveMember, TurnToPeer, AnswerDirect, ListMembers, Submit, history, counters
  <2> QED
    BY <1>3, <2>1, <2>2 DEF RequestStep
<1>4. ASSUME NEW w \in Workers, Take(w) \/ Notify(w) \/ RemoveTask(w)
      PROVE  submitted' = submitted /\ faults' = faults /\ crashes' = crashes
  BY <1>4 DEF Take, Notify, RemoveTask, history, counters
<1>5. ASSUME NEW u \in Users, UserStep(u)
      PROVE  submitted' = submitted /\ faults' = faults /\ crashes' = crashes
  BY <1>5 DEF UserStep, DeleteMessage, RemoveConversation, ReadConversation, Edit, history
<1>6. CASE ~FaultStep
  <2>1. CASE UNCHANGED vars
    BY <1>6, <2>1 DEF vars, history, counters
  <2>2. CASE \E a \in Actors, u \in Users : WriteInbox(a, u)
    BY <1>2, <1>6, <2>2
  <2>3. CASE \E h \in Requests : RequestStep(h) /\ ~ \E u \in Users : WriteInbox(h, u)
    BY <1>3, <1>6, <2>3
  <2>4. CASE \E w \in Workers : Take(w) \/ Notify(w) \/ RemoveTask(w)
    BY <1>4, <1>6, <2>4
  <2>5. CASE \E u \in Users : UserStep(u)
    BY <1>5, <1>6, <2>5
  <2> QED
    BY <1>6, <2>1, <2>2, <2>3, <2>4, <2>5, ActorKinds DEF Next, WorkerStep
<1> QED
  BY <1>1, <1>6

\* A message that is announced stays so.
LEMMA AnnouncementStays ==
  ASSUME WellFormed, KindsOK, Traced, Exclusive, [Next]_vars, faults' = 0,
         NEW u \in Users, NEW m \in Messages, AnnouncedTo(u, m), Survives(u, m)'
  PROVE  AnnouncedTo(u, m)'
<1>0. Traced' /\ RowsKept(inbox, inbox')
  BY StepTraced, StepKeepsRows
<1>1. faults = 0 /\ (FaultStep => Restart)
  <2>1. faults \in Nat
    BY DEF WellFormed, TypeOK
  <2> QED
    BY <2>1, StepCounts
<1>2. ASSUME NEW e \in Recalls, RecallOf[e] = m, Exists(inbox[u], e)
      PROVE  AnnouncedTo(u, m)'
  BY <1>0, <1>2, NamesAreIds DEF RowsKept, AnnouncedTo
<1>3. ASSUME NEW t \in stored, t.kind = "recall", t.msg = m, u \in t.targets
      PROVE  AnnouncedTo(u, m)'
  <2>1. t \in submitted' /\ TaskNamed(t) /\ TaskOK(t)
    <3>1. t \in submitted /\ TaskNamed(t) /\ TaskOK(t)
      BY DEF Traced, TasksTraced, WellFormed, TasksOK
    <3>2. submitted \subseteq submitted'
      BY StepCounts
    <3> QED
      BY <3>1, <3>2
  <2>2. CASE t \in stored'
    BY <1>3, <2>2 DEF AnnouncedTo
  <2>3. CASE t \notin stored'
    <3>1. Spread(t, inbox')
      BY <1>0, <2>1, <2>3 DEF Traced, Errorless
    <3>2. /\ Exists(inbox'[u], t.event)
          /\ t.event \in Recalls
          /\ RecallOf[t.event] = m
      BY <1>3, <2>1, <3>1 DEF Spread, Reached, TaskOK, TaskNamed, Named
    <3> QED
      BY <3>2 DEF AnnouncedTo
  <2> QED
    BY <2>2, <2>3
<1>4. ASSUME NEW a \in Actors, job[a].msg = m, at[a][u].pc = "event"
      PROVE  AnnouncedTo(u, m)'
  <2>1. CASE FaultStep
    <3>1. Restart /\ crashes' = crashes + 1 /\ stored' = stored
      BY <1>1, <2>1 DEF Restart, store
    <3>2. crashes' # 0
      BY <3>1 DEF WellFormed, TypeOK
    <3>3. ~Direct(m) /\ u # From[m]
      BY <3>2 DEF Survives
    <3>4. PICK t \in stored : t.kind = "recall" /\ t.msg = m /\ u \in t.targets
      BY <1>4, <3>3, RestartLeavesTask
    <3> QED
      BY <1>3, <3>4
  <2>2. CASE ~FaultStep /\ ~InsertEvent(a, u)
    BY <1>1, <1>4, <2>2, EventCursorStays DEF AnnouncedTo
  <2>3. CASE InsertEvent(a, u)
    <3> DEFINE e == job[a].event
    <3>1. /\ JobOK(job[a], at[a])
          /\ JobNamed(job[a], submitted)
      BY ActorFacts
    <3>2. /\ e \in Recalls
          /\ RecallOf[e] = m
          /\ e \in Ids
      BY <1>4, <3>1, NamesAreIds DEF JobOK, TaskOK, JobNamed, Named
    <3>3. inbox'[u] = Insert(inbox[u], e, "event") /\ inbox[u] \in Box
      BY <2>3 DEF InsertEvent, WellFormed, TypeOK
    <3>4. Exists(inbox'[u], e)
      BY <3>2, <3>3, InsertLeavesRow DEF Kinds
    <3> QED
      BY <3>2, <3>4 DEF AnnouncedTo
  <2> QED
    BY <2>1, <2>2, <2>3
<1> QED
  BY <1>2, <1>3, <1>4 DEF AnnouncedTo

\* Every step keeps Announcing.
LEMMA StepAnnouncing ==
  ASSUME WellFormed, KindsOK, SeqsDistinct, Traced, Announcing, [Next]_vars
  PROVE  Announcing'
<1>1. Exclusive'
  BY StepExclusive DEF Announcing
<1>2. ASSUME faults' = 0
      PROVE  /\ \A u \in Users : Follows(inbox'[u])
             /\ \A u \in Users, m \in Messages :
                  (Shows(u, m, "placeholder") /\ Survives(u, m))' => AnnouncedTo(u, m)'
  <2>1. faults = 0 /\ (Restart \/ ~FaultStep)
    BY <1>2, StepCounts DEF WellFormed, TypeOK
  <2>2. \A u \in Users : Follows(inbox'[u])
    BY <2>1, FollowsStays DEF Announcing
  <2>3. ASSUME NEW u \in Users, NEW m \in Messages,
               Shows(u, m, "placeholder")', Survives(u, m)'
        PROVE  AnnouncedTo(u, m)'
    <3>1. CASE Shows(u, m, "placeholder")
      <4>1. Survives(u, m)
        BY <2>1, <2>3, StepCounts DEF Survives, WellFormed, TypeOK
      <4>2. AnnouncedTo(u, m)
        BY <2>1, <3>1, <4>1 DEF Announcing
      <4> QED
        BY <1>2, <2>3, <4>2, AnnouncementStays DEF Announcing
    <3>2. CASE ~Shows(u, m, "placeholder")
      <4>1. m \in Ids
        BY NamesAreIds
      <4>2. PICK a \in Actors, v \in Users : WriteInbox(a, v)
        BY <2>3, <3>2, <4>1, OthersAddNothing
      <4>3. job'[a].msg = m /\ at'[a][u].pc = "event"
        BY <2>3, <3>2, <4>2, PlaceholderHasWriter
      <4> QED
        BY <4>3 DEF AnnouncedTo
    <3> QED
      BY <3>1, <3>2
  <2> QED
    BY <2>2, <2>3
<1> QED
  BY <1>1, <1>2 DEF Announcing

\* Announcing holds in every reachable state.
THEOREM AlwaysAnnouncing == Spec => []Announcing
<1>1. Init => Announcing
  <2> SUFFICES ASSUME Init PROVE Announcing
    OBVIOUS
  <2>1. \A u \in Users, i \in Ids : inbox[u].rows[i].kind = "none"
    BY DEF Init, EmptyBox, NoRow
  <2>2. Exclusive
    BY StartingType DEF Init, Exclusive, Executing, NoJob
  <2> QED
    BY <2>1, <2>2, NamesAreIds DEF Announcing, Follows, Exists, Shows
<1>2. WellFormed /\ KindsOK /\ SeqsDistinct /\ Traced /\ Announcing /\ [Next]_vars
      => Announcing' /\ KindsOK'
  BY StepAnnouncing, StepTraced
<1> QED
  BY <1>1, <1>2, InitIsLifecycleInit, AlwaysWellFormed, SeqsAlwaysDistinct, AlwaysTraced,
     PTL DEF Spec

\* An event that is there is newer than the placeholder it announces.
LEMMA AnnouncedByNewer ==
  ASSUME NEW u \in Users, NEW m \in Messages, Shows(u, m, "placeholder"),
         AnnouncedTo(u, m), Follows(inbox[u])
  PROVE  \/ \E e \in Recalls : /\ RecallOf[e] = m
                               /\ HasRow(u, e)
                               /\ inbox[u].rows[e].seq > inbox[u].rows[m].seq
         \/ \E a \in Actors : job[a].msg = m /\ at[a][u].pc = "event"
         \/ \E t \in stored : t.kind = "recall" /\ t.msg = m /\ u \in t.targets
BY DEF AnnouncedTo, Follows, Shows, HasRow, Exists, Live

\* RecallAnnounced: without database errors and restarts, whoever sees a message
\* recalled has its event at a greater seq, or will get it.
THEOREM RecallsAnnounced == Spec => [](faults = 0 /\ crashes = 0 => RecallAnnounced)
<1>1. Announcing => (faults = 0 /\ crashes = 0 => RecallAnnounced)
  BY AnnouncedByNewer DEF Announcing, RecallAnnounced, Survives
<1> QED
  BY <1>1, AlwaysAnnouncing, PTL

\* For the receivers of a group message this takes restarts as well: the event
\* that a worker still had to write is written again when the task is replayed.
AnnouncedToReceivers ==
  \A u \in Users, m \in Messages :
    Shows(u, m, "placeholder") /\ ~Direct(m) /\ u # From[m] =>
      \/ \E e \in Recalls : /\ RecallOf[e] = m
                            /\ HasRow(u, e)
                            /\ inbox[u].rows[e].seq > inbox[u].rows[m].seq
      \/ \E t \in stored : t.kind = "recall" /\ t.msg = m /\ u \in t.targets

\* AnnouncedToReceivers holds as long as the database returns no error, however
\* often the process restarts.
THEOREM RecallsReachReceivers == Spec => [](faults = 0 => AnnouncedToReceivers)
<1>1. ASSUME WellFormed, Traced, Announcing, faults = 0,
             NEW u \in Users, NEW m \in Messages,
             Shows(u, m, "placeholder"), ~Direct(m), u # From[m]
      PROVE  \/ \E e \in Recalls : /\ RecallOf[e] = m
                                   /\ HasRow(u, e)
                                   /\ inbox[u].rows[e].seq > inbox[u].rows[m].seq
             \/ \E t \in stored : t.kind = "recall" /\ t.msg = m /\ u \in t.targets
  <2>1. AnnouncedTo(u, m) /\ Follows(inbox[u]) /\ Exclusive
    BY <1>1 DEF Announcing, Survives
  <2>2. \A a \in Actors : job[a].msg = m /\ at[a][u].pc = "event"
          => \E t \in stored : t.kind = "recall" /\ t.msg = m /\ u \in t.targets
    BY <1>1, <2>1, RestartLeavesTask
  <2> QED
    BY <1>1, <2>1, <2>2, AnnouncedByNewer
<1>2. WellFormed /\ Traced /\ Announcing => (faults = 0 => AnnouncedToReceivers)
  BY <1>1 DEF AnnouncedToReceivers
<1> QED
  BY <1>2, AlwaysWellFormed, AlwaysTraced, AlwaysAnnouncing, PTL

-----------------------------------------------------------------------------
(* Conversation rows: their seqs and their unread counts *)

\* No conversation row is ahead of the last seq, and a missing one has seq 0.
ConvBounded(box) ==
  \A k \in Chats : /\ box.conv[k].seq <= box.max
                   /\ box.conv[k].status = "none" => box.conv[k].seq = 0

\* The change from old to new takes no seq back.
Advances(old, new) ==
  /\ ConvBounded(new)
  /\ new.max >= old.max
  /\ \A k \in Chats : new.conv[k].seq >= old.conv[k].seq

CursorsBounded == \A a \in Actors, u \in Users : at[a][u].seq <= inbox[u].max

ConversationsOK ==
  /\ \A u \in Users : ConvBounded(inbox[u])
  /\ CursorsBounded

-----------------------------------------------------------------------------
(* The transactions of one inbox *)

\* What Box says of the fields that seqs are compared in.
LEMMA BoxFields ==
  ASSUME NEW box \in Box
  PROVE  /\ box.max \in Nat
         /\ box.rows \in [Ids -> Row]
         /\ box.conv \in [Chats -> Conversation]
         /\ \A k \in Chats : box.conv[k].seq \in Nat
BY DEF Box, Conversation

\* A box that changes nothing advances.
LEMMA SameAdvances ==
  ASSUME NEW box \in Box, ConvBounded(box)
  PROVE  Advances(box, box)
BY BoxFields DEF Advances

\* The message transactions leave the conversation rows alone and never lower
\* the last seq.
LEMMA RowsAdvance ==
  ASSUME NEW box \in Box, NEW new, ConvBounded(box),
         new.conv = box.conv, new.max \in {box.max, box.max + 1}
  PROVE  Advances(box, new)
BY BoxFields DEF Advances, ConvBounded

\* MessageStore.Insert advances, and the seq it reports is not ahead.
LEMMA InsertAdvances ==
  ASSUME NEW box \in Box, ConvBounded(box), NEW id \in Ids, NEW kind \in Kinds
  PROVE  /\ Advances(box, Insert(box, id, kind))
         /\ InsertedSeq(box, id) <= Insert(box, id, kind).max
<1>1. /\ Insert(box, id, kind).conv = box.conv
      /\ Insert(box, id, kind).max = IF Exists(box, id) THEN box.max ELSE box.max + 1
  BY DEF Insert, Box
<1>2. Advances(box, Insert(box, id, kind))
  BY <1>1, RowsAdvance
<1>3. InsertedSeq(box, id) <= Insert(box, id, kind).max
  BY <1>1, BoxFields DEF InsertedSeq
<1> QED
  BY <1>2, <1>3

\* So do UpdateByMsgID and DeleteByMsgID.
LEMMA MaskDeleteAdvance ==
  ASSUME NEW box \in Box, ConvBounded(box), NEW id \in Ids
  PROVE  Advances(box, Mask(box, id)) /\ Advances(box, DeleteByMsgID(box, id))
<1>1. /\ Mask(box, id).conv = box.conv
      /\ Mask(box, id).max = box.max
  BY DEF Mask, Box
<1>2. /\ DeleteByMsgID(box, id).conv = box.conv
      /\ DeleteByMsgID(box, id).max \in {box.max, box.max + 1}
  BY DEF DeleteByMsgID, Box
<1> QED
  BY <1>1, <1>2, RowsAdvance

\* Replacing one conversation row by one that is neither behind the old row nor
\* ahead of the last seq advances.
LEMMA SetConversationAdvances ==
  ASSUME NEW box \in Box, ConvBounded(box), NEW new, NEW k \in Chats, NEW row,
         new.conv = [box.conv EXCEPT ![k] = row], new.max \in {box.max, box.max + 1},
         row.seq >= box.conv[k].seq, row.seq <= new.max, row.status # "none",
         row.seq \in Nat
  PROVE  Advances(box, new)
<1>1. \A j \in Chats : new.conv[j] = IF j = k THEN row ELSE box.conv[j]
  BY BoxFields
<1>2. box.max \in Nat /\ new.max \in Nat /\ new.max >= box.max
  BY BoxFields
<1>3. ASSUME NEW j \in Chats
      PROVE  /\ new.conv[j].seq <= new.max
             /\ new.conv[j].status = "none" => new.conv[j].seq = 0
             /\ new.conv[j].seq >= box.conv[j].seq
  <2>1. CASE j = k
    BY <1>1, <2>1
  <2>2. CASE j # k
    BY <1>1, <1>2, <2>2, BoxFields DEF ConvBounded
  <2> QED
    BY <2>1, <2>2
<1> QED
  BY <1>2, <1>3 DEF Advances, ConvBounded

\* ConversationStore.Upsert advances when the seq it writes is not ahead.
LEMMA UpsertAdvances ==
  ASSUME NEW box \in Box, ConvBounded(box), NEW k \in Chats, NEW seq \in Nat,
         NEW id \in Ids, NEW mode \in UnreadModes, seq <= box.max
  PROVE  Advances(box, Upsert(box, k, seq, id, mode))
<1>1. CASE box.conv[k].status = "none" \/ seq > box.conv[k].seq
  <2> DEFINE row == [status |-> "active", seq |-> seq, last |-> id,
                     unread |-> box.conv[k].unread + Bump(mode)]
             new == Upsert(box, k, seq, id, mode)
  <2>1. new.conv = [box.conv EXCEPT ![k] = row] /\ new.max = box.max
    BY <1>1 DEF Upsert, SetConversation, Box
  <2>2. row.seq >= box.conv[k].seq
    BY <1>1, BoxFields DEF ConvBounded
  <2>3. row.seq = seq /\ row.status # "none"
    OBVIOUS
  <2> HIDE DEF row, new
  <2>4. Advances(box, new)
    BY <2>1, <2>2, <2>3, SetConversationAdvances
  <2> QED
    BY <2>4 DEF new
<1>2. CASE ~(box.conv[k].status = "none" \/ seq > box.conv[k].seq)
  BY <1>2, SameAdvances DEF Upsert
<1> QED
  BY <1>1, <1>2

\* ConversationStore.ClearUnread and Delete advance.
LEMMA EditConversationAdvances ==
  ASSUME NEW box \in Box, ConvBounded(box), NEW k \in Chats
  PROVE  /\ Advances(box, ClearUnread(box, k))
         /\ Advances(box, DeleteConversation(box, k))
<1>0. /\ box.conv[k] \in Conversation
      /\ box.max \in Nat
      /\ box.conv[k].seq \in Nat
      /\ box.conv[k].seq <= box.max
  BY BoxFields DEF ConvBounded
<1>1. CASE box.conv[k].status = "active"
  <2> DEFINE read == [box.conv[k] EXCEPT !.unread = 0]
             gone == [box.conv[k] EXCEPT !.status = "deleted", !.seq = box.max + 1,
                                         !.unread = 0]
             cleared == ClearUnread(box, k)
             deleted == DeleteConversation(box, k)
  <2>1. /\ cleared.conv = [box.conv EXCEPT ![k] = read]
        /\ cleared.max = box.max
        /\ deleted.conv = [box.conv EXCEPT ![k] = gone]
        /\ deleted.max = box.max + 1
    BY <1>1 DEF ClearUnread, DeleteConversation, SetConversation, Box
  <2>2. /\ read.seq = box.conv[k].seq
        /\ read.status = "active"
        /\ gone.seq = box.max + 1
        /\ gone.status = "deleted"
    BY <1>0, <1>1 DEF Conversation
  <2> HIDE DEF read, gone, cleared, deleted
  <2>3. Advances(box, cleared) /\ Advances(box, deleted)
    BY <1>0, <2>1, <2>2, SetConversationAdvances
  <2> QED
    BY <2>3 DEF cleared, deleted
<1>2. CASE box.conv[k].status # "active"
  BY <1>2, SameAdvances DEF ClearUnread, DeleteConversation
<1> QED
  BY <1>1, <1>2

-----------------------------------------------------------------------------
(* The steps of Messaging *)

\* No inbox takes a seq back.
AllAdvance == \A u \in Users : Advances(inbox[u], inbox'[u])

\* Every cursor is kept or carries no seq any more.
CursorsReset ==
  \A a \in Actors, u \in Users : at'[a][u] = at[a][u] \/ at'[a][u].seq = 0

\* A step that changes no inbox and gives no cursor a seq keeps ConversationsOK.
LEMMA ResetKeeps ==
  ASSUME TypeOK, ConversationsOK, inbox' = inbox, CursorsReset
  PROVE  AllAdvance /\ ConversationsOK'
<1>1. \A u \in Users : inbox[u] \in Box /\ inbox[u].max \in Nat
  BY BoxFields DEF TypeOK
<1>2. AllAdvance
  BY <1>1, SameAdvances DEF AllAdvance, ConversationsOK
<1>3. CursorsBounded'
  BY <1>1 DEF CursorsReset, CursorsBounded, ConversationsOK
<1> QED
  BY <1>2, <1>3 DEF ConversationsOK, ConvBounded

\* One inbox advances, and the cursor on it, if it moves, is not ahead of it.
LEMMA AdvanceKeeps ==
  ASSUME TypeOK, ConversationsOK, NEW u \in Users, NEW new \in Box,
         inbox' = [inbox EXCEPT ![u] = new], Advances(inbox[u], new),
         \A b \in Actors, v \in Users :
           \/ at'[b][v] = at[b][v]
           \/ v = u /\ at'[b][v].seq <= new.max
  PROVE  AllAdvance /\ ConversationsOK'
<1>1. \A v \in Users : /\ inbox[v] \in Box
                       /\ inbox[v].max \in Nat
                       /\ inbox'[v] = IF v = u THEN new ELSE inbox[v]
  BY BoxFields DEF TypeOK
<1>2. \A v \in Users : Advances(inbox[v], inbox'[v])
  BY <1>1, SameAdvances DEF ConversationsOK
<1>3. \A b \in Actors, v \in Users : at[b][v].seq \in Nat
  BY DEF TypeOK, Cursor
<1>4. \A b \in Actors, v \in Users : at'[b][v].seq <= inbox'[v].max
  <2> SUFFICES ASSUME NEW b \in Actors, NEW v \in Users
               PROVE  at'[b][v].seq <= inbox'[v].max
    OBVIOUS
  <2>1. CASE at'[b][v] = at[b][v]
    <3>1. at[b][v].seq <= inbox[v].max
      BY DEF ConversationsOK, CursorsBounded
    <3>2. inbox'[v].max >= inbox[v].max /\ inbox'[v].max \in Nat
      BY <1>1, <1>2, BoxFields DEF Advances
    <3> QED
      BY <1>1, <1>3, <2>1, <3>1, <3>2
  <2>2. CASE v = u /\ at'[b][v].seq <= new.max
    BY <1>1, <2>2
  <2> QED
    BY <2>1, <2>2
<1>5. (\A v \in Users : ConvBounded(inbox[v]))'
  BY <1>2 DEF Advances, ConvBounded
<1> QED
  BY <1>2, <1>4, <1>5 DEF AllAdvance, ConversationsOK, CursorsBounded

\* A write that advances u's inbox and moves the cursor on it to a seq that is
\* not ahead keeps ConversationsOK.
LEMMA MoveAdvances ==
  ASSUME TypeOK, ConversationsOK, NEW a \in Actors, NEW u \in Users, NEW new \in Box,
         NEW pc, NEW seq \in Nat, inbox' = [inbox EXCEPT ![u] = new],
         Advances(inbox[u], new), MoveTo(a, u, pc, seq), seq <= new.max
  PROVE  AllAdvance /\ ConversationsOK'
<1> DEFINE cursor == [pc |-> pc, seq |-> seq]
<1>1. \A b \in Actors, v \in Users :
        at'[b][v] = IF b = a /\ v = u THEN cursor ELSE at[b][v]
  BY MoveToCursors
<1>2. cursor.seq <= new.max
  OBVIOUS
<1> HIDE DEF cursor
<1>3. \A b \in Actors, v \in Users :
        \/ at'[b][v] = at[b][v]
        \/ v = u /\ at'[b][v].seq <= new.max
  BY <1>1, <1>2
<1> QED
  BY <1>3, AdvanceKeeps, Zenon

\* A write of an inbox takes no seq back, and its cursor is not ahead.
LEMMA WriteAdvances ==
  ASSUME WellFormed, ConversationsOK, NEW a \in Actors, NEW u \in Users, WriteInbox(a, u)
  PROVE  AllAdvance /\ ConversationsOK'
<1>0. /\ TypeOK
      /\ inbox[u] \in Box
      /\ ConvBounded(inbox[u])
      /\ inbox[u].max \in Nat
      /\ at[a][u].seq \in Nat
      /\ at[a][u].seq <= inbox[u].max
  BY BoxFields DEF WellFormed, TypeOK, ConversationsOK, CursorsBounded, Cursor
<1>1. at[a][u].pc # "idle"
  BY DEF WriteInbox, InsertRow, MaskRow, InsertEvent, TouchConversation
<1>2. /\ job[a].kind \in JobKinds
      /\ TaskOK(job[a])
      /\ job[a].msg \in Ids
      /\ job[a].kind = "recall" => job[a].event \in Ids
  BY <1>1, WriterType
<1>3. at[a][u].pc \in {"mask", "event"} => job[a].kind = "recall"
  BY ActorType DEF WellFormed, JobOK
<1>4. ASSUME InsertRow(a, u)
      PROVE  AllAdvance /\ ConversationsOK'
  <2> DEFINE new == Insert(inbox[u], job[a].msg, BodyOf(job[a].kind))
             seq == InsertedSeq(inbox[u], job[a].msg)
  <2>1. BodyOf(job[a].kind) \in Kinds \ {"none"}
    BY <1>2 DEF BodyOf, JobKinds, Kinds
  <2>2. /\ new \in Box
        /\ Advances(inbox[u], new)
        /\ seq \in Nat
        /\ seq <= new.max
    BY <1>0, <1>2, <2>1, InsertType, InsertAdvances, InsertedSeqType
  <2>3. /\ inbox' = [inbox EXCEPT ![u] = new]
        /\ MoveTo(a, u, AfterInsert(job[a], u, seq), seq)
    BY <1>4 DEF InsertRow
  <2> HIDE DEF new, seq
  <2> QED
    BY <1>0, <2>2, <2>3, MoveAdvances
<1>5. ASSUME MaskRow(a, u)
      PROVE  AllAdvance /\ ConversationsOK'
  <2> DEFINE new == Mask(inbox[u], job[a].msg)
  <2>1. new \in Box /\ Advances(inbox[u], new)
    BY <1>0, <1>2, MaskType, MaskDeleteAdvance
  <2>2. /\ inbox' = [inbox EXCEPT ![u] = new]
        /\ MoveTo(a, u, "event", 0)
        /\ 0 <= new.max
    BY <1>5, <2>1, BoxFields DEF MaskRow
  <2> HIDE DEF new
  <2> QED
    BY <1>0, <2>1, <2>2, MoveAdvances
<1>6. ASSUME InsertEvent(a, u)
      PROVE  AllAdvance /\ ConversationsOK'
  <2> DEFINE new == Insert(inbox[u], job[a].event, "event")
             seq == InsertedSeq(inbox[u], job[a].event)
             pc == IF seq = 0 THEN "done" ELSE "touch"
  <2>1. job[a].event \in Ids
    BY <1>2, <1>3, <1>6 DEF InsertEvent
  <2>2. /\ new \in Box
        /\ Advances(inbox[u], new)
        /\ seq \in Nat
        /\ seq <= new.max
    BY <1>0, <2>1, InsertType, InsertAdvances, InsertedSeqType DEF Kinds
  <2>3. inbox' = [inbox EXCEPT ![u] = new] /\ MoveTo(a, u, pc, seq)
    BY <1>6 DEF InsertEvent
  <2> HIDE DEF new, seq, pc
  <2> QED
    BY <1>0, <2>2, <2>3, MoveAdvances
<1>7. ASSUME TouchConversation(a, u)
      PROVE  AllAdvance /\ ConversationsOK'
  <2> DEFINE seq == at[a][u].seq
             new == Upsert(inbox[u], PeerOf(job[a], u), seq, Newest(job[a]),
                           UnreadMode(job[a], u))
  <2>1. PeerOf(job[a], u) \in Chats
    BY <1>2, PeerOfType
  <2>2. Newest(job[a]) \in Ids
    BY <1>2 DEF Newest
  <2>3. UnreadMode(job[a], u) \in UnreadModes
    BY DEF UnreadMode, UnreadModes
  <2>4. new \in Box /\ Advances(inbox[u], new)
    BY <1>0, <2>1, <2>2, <2>3, UpsertType, UpsertAdvances
  <2>5. inbox' = [inbox EXCEPT ![u] = new] /\ MoveTo(a, u, "done", seq)
    BY <1>7 DEF TouchConversation
  <2>6. seq \in Nat /\ seq <= new.max
    <3>1. new.max \in Nat /\ new.max >= inbox[u].max
      BY <2>4, BoxFields DEF Advances
    <3> QED
      BY <1>0, <3>1
  <2> HIDE DEF new, seq
  <2> QED
    BY <1>0, <2>4, <2>5, <2>6, MoveAdvances
<1> QED
  BY <1>4, <1>5, <1>6, <1>7 DEF WriteInbox

\* Deletions and clear_unread take no seq back.
LEMMA EditAdvances ==
  ASSUME WellFormed, ConversationsOK, NEW u \in Users, UserStep(u)
  PROVE  AllAdvance /\ ConversationsOK'
<1>0. TypeOK /\ inbox[u] \in Box /\ ConvBounded(inbox[u])
  BY DEF WellFormed, TypeOK, ConversationsOK
<1>1. ASSUME NEW new \in Box, Edit(u, new), Advances(inbox[u], new)
      PROVE  AllAdvance /\ ConversationsOK'
  BY <1>0, <1>1, AdvanceKeeps DEF Edit
<1>2. ASSUME NEW i \in Ids, DeleteMessage(u, i)
      PROVE  AllAdvance /\ ConversationsOK'
  BY <1>0, <1>1, <1>2, DeleteByMsgIDType, MaskDeleteAdvance DEF DeleteMessage
<1>3. ASSUME NEW k \in Chats, RemoveConversation(u, k) \/ ReadConversation(u, k)
      PROVE  AllAdvance /\ ConversationsOK'
  BY <1>0, <1>1, <1>3, ClearUnreadType, DeleteConversationType, EditConversationAdvances
     DEF RemoveConversation, ReadConversation
<1> QED
  BY <1>2, <1>3 DEF UserStep

\* The cursors that a job starts with, or leaves behind, carry no seq.
LEMMA StartingSeq ==
  ASSUME NEW S
  PROVE  \A u \in Users : Starting(S)[u].seq = 0
BY DEF Starting, Idle

\* Every step but the writes and edits leaves the inboxes alone and gives no
\* cursor a seq.
LEMMA OtherStepsReset ==
  ASSUME WellFormed,
         \/ \E h \in Requests : /\ RequestStep(h)
                                /\ ~ \E u \in Users : WriteInbox(h, u)
         \/ \E w \in Workers : Take(w) \/ Notify(w) \/ RemoveTask(w)
         \/ FaultStep
  PROVE  inbox' = inbox /\ CursorsReset
<1>0. at \in [Actors -> [Users -> Cursor]]
  BY DEF WellFormed, TypeOK
<1>1. ASSUME NEW a \in Actors, NEW S, at' = [at EXCEPT ![a] = Starting(S)]
      PROVE  CursorsReset
  BY <1>0, <1>1, StartingSeq DEF CursorsReset
<1>2. ASSUME at' = at
      PROVE  CursorsReset
  BY <1>2 DEF CursorsReset
<1>3. ASSUME NEW h \in Requests, RequestStep(h), ~ \E u \in Users : WriteInbox(h, u)
      PROVE  inbox' = inbox /\ CursorsReset
  <2>1. h \in Actors
    BY ActorKinds
  <2>2. CASE \/ \E m \in Messages : StartSend(h, m)
             \/ \E e \in Recalls : StartRecall(h, e)
             \/ \E s \in Systems, u \in Users :
                  AddGroupMember(h, s, u) \/ StartRemove(h, s, u)
    BY <1>1, <2>1, <2>2 DEF StartSend, StartRecall, AddGroupMember, StartRemove, Begin
  <2>3. CASE TurnToPeer(h) \/ AnswerDirect(h) \/ ListMembers(h)
    BY <1>1, <2>1, <2>3 DEF TurnToPeer, AnswerDirect, ListMembers, store
  <2>4. CASE RemoveMember(h) \/ Submit(h)
    BY <1>2, <2>4 DEF RemoveMember, Submit
  <2> QED
    BY <1>3, <2>2, <2>3, <2>4 DEF RequestStep
<1>4. ASSUME NEW w \in Workers, Take(w) \/ Notify(w) \/ RemoveTask(w)
      PROVE  inbox' = inbox /\ CursorsReset
  <2>1. w \in Actors
    BY ActorKinds
  <2> QED
    BY <1>1, <1>2, <1>4, <2>1 DEF Take, Notify, RemoveTask, store
<1>5. ASSUME FaultStep
      PROVE  inbox' = inbox /\ CursorsReset
  <2>1. inbox' = inbox
    BY <1>5 DEF FaultStep, WriteFails, RequestFails, ListFails, RemoveFails, Fault,
                Restart, store
  <2>2. ASSUME NEW a \in Actors, NEW u \in Users, WriteFails(a, u)
        PROVE  CursorsReset
    BY <1>0, <2>2 DEF WriteFails, CursorsReset
  <2>3. ASSUME NEW h \in Requests, RequestFails(h) \/ ListFails(h)
        PROVE  CursorsReset
    BY <1>1, <1>2, <2>3, ActorKinds DEF RequestFails, ListFails
  <2>4. ASSUME NEW w \in Workers, RemoveFails(w)
        PROVE  CursorsReset
    BY <1>1, <2>4, ActorKinds DEF RemoveFails
  <2>5. ASSUME Restart
        PROVE  CursorsReset
    BY <2>5, StartingSeq DEF Restart, CursorsReset
  <2> QED
    BY <1>5, <2>1, <2>2, <2>3, <2>4, <2>5 DEF FaultStep
<1> QED
  BY <1>3, <1>4, <1>5

\* No step takes a seq back.
LEMMA StepAdvances ==
  ASSUME WellFormed, ConversationsOK, [Next]_vars
  PROVE  AllAdvance /\ ConversationsOK'
<1>0. TypeOK
  BY DEF WellFormed
<1>1. CASE UNCHANGED vars
  BY <1>0, <1>1, ResetKeeps DEF vars, store, CursorsReset
<1>2. CASE \E a \in Actors, u \in Users : WriteInbox(a, u)
  BY <1>2, WriteAdvances
<1>3. CASE \E u \in Users : UserStep(u)
  BY <1>3, EditAdvances
<1>4. CASE \/ \E h \in Requests : /\ RequestStep(h)
                                  /\ ~ \E u \in Users : WriteInbox(h, u)
           \/ \E w \in Workers : Take(w) \/ Notify(w) \/ RemoveTask(w)
           \/ FaultStep
  BY <1>0, <1>4, OtherStepsReset, ResetKeeps
<1> QED
  BY <1>1, <1>2, <1>3, <1>4, ActorKinds DEF Next, WorkerStep

\* ConversationsOK holds in every reachable state: no conversation row and no
\* seq on its way to one is ahead of messages_version.max_seq.
THEOREM ConversationsBounded == Spec => []ConversationsOK
<1>1. Init => ConversationsOK
  BY StartingSeq DEF Init, ConversationsOK, ConvBounded, CursorsBounded, EmptyBox,
                     NoConversation
<1>2. WellFormed /\ ConversationsOK /\ [Next]_vars => ConversationsOK'
  BY StepAdvances
<1> QED
  BY <1>1, <1>2, AlwaysWellFormed, PTL DEF Spec

\* ConversationNeverRewinds: whatever the order of inserts, upserts, deletions,
\* retries and replays, no step moves a conversation row to a smaller seq.
THEOREM ConversationsNeverRewind == Spec => ConversationNeverRewinds
<1>1. WellFormed /\ ConversationsOK /\ [Next]_vars
      => [\A u \in Users, k \in Chats :
            inbox'[u].conv[k].seq >= inbox[u].conv[k].seq]_vars
  BY StepAdvances DEF AllAdvance, Advances
<1> QED
  BY <1>1, AlwaysWellFormed, ConversationsBounded, PTL DEF Spec, ConversationNeverRewinds
-----------------------------------------------------------------------------
(* Unread counts *)

\* Goroutine a has inserted message i in the inbox of u and is about to count it.
Owes(a, u, i) ==
  /\ at[a][u].pc = "touch"
  /\ job[a].msg = i
  /\ UnreadMode(job[a], u) = "increment"

\* The messages of others that nobody is about to count any more.
Settled(u, k) == {i \in FromOthers(u, k) : \A a \in Actors : ~Owes(a, u, i)}

\* The change from old to new adds no row but that of m.
OnlyAdds(old, new, m) == \A i \in Ids : Exists(new, i) => Exists(old, i) \/ i = m

\* It counts one message at most, and only in the conversations C.
CountsOne(old, new, C) ==
  \A k \in Chats :
    \/ new.conv[k].unread = old.conv[k].unread
    \/ k \in C /\ new.conv[k].unread = old.conv[k].unread + 1

\* A message is counted by the one goroutine that inserted it, which has not
\* counted it yet: the unread count is at most the number of the settled ones.
CountsOK ==
  /\ \A u \in Users, k \in Chats :
       /\ IsFiniteSet(FromOthers(u, k))
       /\ inbox[u].conv[k].unread <= Cardinality(Settled(u, k))
  /\ \A a \in Actors, u \in Users, i \in Ids :
       Owes(a, u, i) => i \in FromOthers(u, ChatOf(u, i))
  /\ \A a, b \in Actors, u \in Users, i \in Ids :
       Owes(a, u, i) /\ Owes(b, u, i) => a = b

\* What a step may do to rows, debts and counts: it inserts one message at most,
\* only goroutine a may owe a count from then on, for a row that is new, and the
\* count of a chat rises by one at most, for a message that a owed to it.
LEMMA CountsStay ==
  ASSUME TypeOK, TypeOK', CountsOK, NEW a, NEW m,
         \A u \in Users, i \in Ids : HasRow(u, i) => HasRow(u, i)',
         \A u \in Users, i \in Ids : HasRow(u, i)' => HasRow(u, i) \/ i = m,
         \A b \in Actors, u \in Users, i \in Ids : Owes(b, u, i)' =>
           \/ Owes(b, u, i)
           \/ b = a /\ ~HasRow(u, i) /\ i \in FromOthers(u, ChatOf(u, i))',
         \A u \in Users, k \in Chats :
           \/ inbox'[u].conv[k].unread <= inbox[u].conv[k].unread
           \/ /\ inbox'[u].conv[k].unread <= inbox[u].conv[k].unread + 1
              /\ a \in Actors
              /\ \E i \in Ids : Owes(a, u, i) /\ ~Owes(a, u, i)' /\ ChatOf(u, i) = k
  PROVE  CountsOK'
<1>0. /\ Messages \subseteq Ids /\ Systems \subseteq Ids
      /\ \A u \in Users, k \in Chats : /\ inbox[u].conv[k].unread \in Nat
                                       /\ inbox'[u].conv[k].unread \in Nat
  BY NamesAreIds DEF TypeOK, Box, Conversation
<1>1. ASSUME NEW u \in Users, NEW k \in Chats
      PROVE  /\ IsFiniteSet(FromOthers(u, k))'
             /\ FromOthers(u, k) \subseteq FromOthers(u, k)'
  <2>1. FromOthers(u, k)' \subseteq FromOthers(u, k) \cup {m}
    BY <1>0 DEF FromOthers
  <2>2. FromOthers(u, k) \subseteq FromOthers(u, k)'
    BY <1>0 DEF FromOthers
  <2>3. IsFiniteSet(FromOthers(u, k) \cup {m})
    BY FS_AddElement DEF CountsOK
  <2> QED
    BY <2>1, <2>2, <2>3, FS_Subset
<1>2. ASSUME NEW b \in Actors, NEW u \in Users, NEW i \in Ids, Owes(b, u, i)
      PROVE  i \in FromOthers(u, ChatOf(u, i)) /\ HasRow(u, i)
  BY <1>2 DEF CountsOK, FromOthers
<1>3. ASSUME NEW b \in Actors, NEW u \in Users, NEW i \in Ids, Owes(b, u, i)'
      PROVE  i \in FromOthers(u, ChatOf(u, i))'
  BY <1>0, <1>2, <1>3 DEF FromOthers
<1>4. ASSUME NEW b \in Actors, NEW c \in Actors, NEW u \in Users, NEW i \in Ids,
             Owes(b, u, i)', Owes(c, u, i)'
      PROVE  b = c
  BY <1>2, <1>4 DEF CountsOK
<1>5. ASSUME NEW u \in Users, NEW k \in Chats
      PROVE  inbox'[u].conv[k].unread <= Cardinality(Settled(u, k))'
  <2>1. Settled(u, k) \subseteq Settled(u, k)'
    <3>1. \A i \in FromOthers(u, k) : i \in Ids /\ HasRow(u, i)
      BY <1>0 DEF FromOthers
    <3> QED
      BY <1>1, <3>1 DEF Settled
  <2>2. IsFiniteSet(Settled(u, k)')
    BY <1>1, FS_Subset DEF Settled
  <2>3. /\ IsFiniteSet(Settled(u, k))
        /\ Cardinality(Settled(u, k)) \in Nat
        /\ Cardinality(Settled(u, k)') \in Nat
        /\ Cardinality(Settled(u, k)) <= Cardinality(Settled(u, k)')
    BY <2>1, <2>2, FS_Subset, FS_CardinalityType
  <2>4. inbox[u].conv[k].unread <= Cardinality(Settled(u, k))
    BY DEF CountsOK
  <2>5. CASE inbox'[u].conv[k].unread <= inbox[u].conv[k].unread
    BY <1>0, <2>3, <2>4, <2>5
  <2>6. ASSUME inbox'[u].conv[k].unread <= inbox[u].conv[k].unread + 1, a \in Actors,
               NEW i \in Ids, Owes(a, u, i), ~Owes(a, u, i)', ChatOf(u, i) = k
        PROVE  inbox'[u].conv[k].unread <= Cardinality(Settled(u, k)')
    <3>1. i \notin Settled(u, k)
      BY <2>6 DEF Settled
    <3>2. i \in Settled(u, k)'
      <4>1. i \in FromOthers(u, k) /\ HasRow(u, i)
        BY <1>2, <2>6
      <4>2. i \in FromOthers(u, k)'
        BY <1>1, <4>1
      <4>3. \A b \in Actors : ~Owes(b, u, i)'
        BY <2>6, <4>1 DEF CountsOK
      <4> QED
        BY <4>2, <4>3 DEF Settled
    <3>3. Settled(u, k) \cup {i} \subseteq Settled(u, k)'
      BY <2>1, <3>2
    <3>4. Cardinality(Settled(u, k) \cup {i}) = Cardinality(Settled(u, k)) + 1
      BY <2>3, <3>1, FS_AddElement
    <3>5. Cardinality(Settled(u, k) \cup {i}) <= Cardinality(Settled(u, k)')
      BY <2>2, <3>3, FS_Subset
    <3> QED
      BY <1>0, <2>3, <2>4, <2>6, <3>4, <3>5
  <2> QED
    BY <2>5, <2>6
<1> QED
  BY <1>1, <1>3, <1>4, <1>5 DEF CountsOK

\* Only a message of somebody else, or a system message, is owed, and to the
\* conversation that it belongs to.
LEMMA OwedByReceivers ==
  ASSUME WellFormed, Traced, NEW a \in Actors, NEW u \in Users, at[a][u].pc # "idle",
         UnreadMode(job[a], u) = "increment"
  PROVE  /\ job[a].msg \in Messages \cup Systems
         /\ job[a].msg \in Messages => From[job[a].msg] # u
         /\ job[a].kind # "recall"
         /\ u # job[a].who
         /\ PeerOf(job[a], u) = ChatOf(u, job[a].msg)
<1>1. /\ JobOK(job[a], at[a])
      /\ job[a].kind # "none" => job[a].kind \in JobKinds /\ TaskOK(job[a])
      /\ JobNamed(job[a], submitted)
      /\ job[a] \in Job
  BY ActorFacts
<1>2. job[a].stage \notin {"idle", "list", "drop", "submit"} /\ job[a].kind # "none"
  BY <1>1 DEF JobOK, NoJob
<1>3. CASE job[a].kind = "system"
  <2>1. job[a].stage \in {"fanout", "remove"}
    BY <1>1, <1>2, <1>3 DEF JobOK, Job
  <2>2. job[a].who = NoUser
    BY <1>1, <1>3, <2>1 DEF JobNamed, Executes, Traced, TasksTraced, TaskNamed
  <2>3. job[a].msg \in Systems /\ job[a].msg \notin Messages \cup Recalls
    BY <1>1, <1>3, MessagingAssumption DEF TaskOK, JobKinds
  <2> QED
    BY <1>3, <2>2, <2>3, InboxAssumption DEF PeerOf, ChatOf, About
<1>4. CASE job[a].kind # "system"
  <2>1. job[a].kind = "send" /\ u # job[a].who
    BY <1>4 DEF UnreadMode
  <2>2. /\ job[a].msg \in Messages
        /\ job[a].msg \notin Systems \cup Recalls
        /\ job[a].who = From[job[a].msg]
    BY <1>1, <2>1, MessagingAssumption DEF TaskOK, JobNamed, Named
  <2> QED
    BY <2>1, <2>2 DEF PeerOf, ChatOf, About
<1> QED
  BY <1>3, <1>4

\* MessageStore.Insert adds one row and leaves the conversations alone.
LEMMA InsertRows ==
  ASSUME NEW box \in Box, NEW i \in Ids, NEW kind \in Kinds \ {"none"}
  PROVE  /\ OnlyAdds(box, Insert(box, i, kind), i)
         /\ CountsOne(box, Insert(box, i, kind), {})
<1>1. CASE Exists(box, i)
  BY <1>1 DEF Insert, OnlyAdds, CountsOne
<1>2. CASE ~Exists(box, i)
  <2> DEFINE row == [seq |-> box.max + 1, kind |-> kind, deleted |-> FALSE]
             new == Insert(box, i, kind)
  <2>1. new.rows = [box.rows EXCEPT ![i] = row] /\ new.conv = box.conv
    BY <1>2 DEF Insert, Box
  <2>2. \A x \in Ids : x # i => new.rows[x] = box.rows[x]
    BY <2>1 DEF Box
  <2> QED
    BY <2>1, <2>2 DEF Exists, OnlyAdds, CountsOne
<1> QED
  BY <1>1, <1>2

\* MessageStore.UpdateByMsgID adds no row and leaves the conversations alone.
LEMMA MaskRows ==
  ASSUME NEW box \in Box, NEW i \in Ids
  PROVE  OnlyAdds(box, Mask(box, i), i) /\ CountsOne(box, Mask(box, i), {})
<1>1. CASE Live(box, i)
  <2> DEFINE row == [box.rows[i] EXCEPT !.kind = "placeholder"]
             new == Mask(box, i)
  <2>1. new.rows = [box.rows EXCEPT ![i] = row] /\ new.conv = box.conv
    BY <1>1 DEF Mask, Box
  <2>2. \A x \in Ids : x # i => new.rows[x] = box.rows[x]
    BY <2>1 DEF Box
  <2> QED
    BY <2>1, <2>2 DEF Exists, OnlyAdds, CountsOne
<1>2. CASE ~Live(box, i)
  BY <1>2 DEF Mask, OnlyAdds, CountsOne
<1> QED
  BY <1>1, <1>2

\* ConversationStore.Upsert adds no row and counts one message at most, in the
\* conversation that it is given.
LEMMA UpsertCounts ==
  ASSUME NEW box \in Box, NEW k \in Chats, NEW seq, NEW i, NEW mode \in UnreadModes
  PROVE  /\ OnlyAdds(box, Upsert(box, k, seq, i, mode), i)
         /\ CountsOne(box, Upsert(box, k, seq, i, mode), {c \in {k} : mode = "increment"})
<1> DEFINE row == [status |-> "active", seq |-> seq, last |-> i,
                   unread |-> box.conv[k].unread + Bump(mode)]
           new == Upsert(box, k, seq, i, mode)
<1>1. CASE box.conv[k].status = "none" \/ seq > box.conv[k].seq
  <2>1. new.rows = box.rows /\ new.conv = [box.conv EXCEPT ![k] = row]
    BY <1>1 DEF Upsert, SetConversation, Box
  <2>2. \A c \in Chats : new.conv[c] = IF c = k THEN row ELSE box.conv[c]
    BY <2>1 DEF Box
  <2>3. row.unread = box.conv[k].unread + Bump(mode) /\ box.conv[k].unread \in Nat
    BY DEF Box, Conversation
  <2>4. mode = "keep" => row.unread = box.conv[k].unread
    BY <2>3 DEF Bump
  <2>5. mode = "increment" => row.unread = box.conv[k].unread + 1
    BY <2>3 DEF Bump
  <2> HIDE DEF row, new
  <2> QED
    BY <2>1, <2>2, <2>4, <2>5 DEF new, UnreadModes, OnlyAdds, CountsOne, Exists
<1>2. CASE ~(box.conv[k].status = "none" \/ seq > box.conv[k].seq)
  BY <1>2 DEF Upsert, OnlyAdds, CountsOne
<1> QED
  BY <1>1, <1>2

\* ClearUnread and Delete only lower the count.
LEMMA EditCounts ==
  ASSUME NEW box \in Box, NEW k \in Chats
  PROVE  \A c \in Chats :
           /\ ClearUnread(box, k).conv[c].unread <= box.conv[c].unread
           /\ DeleteConversation(box, k).conv[c].unread <= box.conv[c].unread
<1>1. /\ box.conv \in [Chats -> Conversation]
      /\ \A c \in Chats : box.conv[c].unread \in Nat /\ box.conv[c] \in Conversation
  BY DEF Box, Conversation
<1>2. CASE box.conv[k].status = "active"
  <2> DEFINE read == [box.conv[k] EXCEPT !.unread = 0]
             gone == [box.conv[k] EXCEPT !.status = "deleted", !.seq = box.max + 1,
                                         !.unread = 0]
  <2>1. /\ ClearUnread(box, k).conv = [box.conv EXCEPT ![k] = read]
        /\ DeleteConversation(box, k).conv = [box.conv EXCEPT ![k] = gone]
    BY <1>2 DEF ClearUnread, DeleteConversation, SetConversation, Box
  <2>2. read.unread = 0 /\ gone.unread = 0
    BY <1>1 DEF Conversation
  <2> HIDE DEF read, gone
  <2> QED
    BY <1>1, <2>1, <2>2
<1>3. CASE box.conv[k].status # "active"
  BY <1>1, <1>3 DEF ClearUnread, DeleteConversation
<1> QED
  BY <1>2, <1>3

\* Message i is new in the inbox of u, and counts as unread there.
Fresh(u, i) == ~HasRow(u, i) /\ i \in FromOthers(u, ChatOf(u, i))'

\* With its cursor at pc, a no longer owes message i to the conversations C.
Pays(a, u, i, pc, C) == \A k \in C : pc # "touch" /\ Owes(a, u, i) /\ ChatOf(u, i) = k

\* A write of one inbox that owes a count only for a row that it inserts, and
\* counts only what it owed.
LEMMA MoveCounts ==
  ASSUME TypeOK, TypeOK', CountsOK, RowsKept(inbox, inbox'), NEW a \in Actors, NEW u \in Users,
         NEW new \in Box, NEW pc, NEW seq, NEW m, NEW C, NEW id \in Ids, id = job[a].msg,
         inbox' = [inbox EXCEPT ![u] = new], MoveTo(a, u, pc, seq),
         OnlyAdds(inbox[u], new, m), CountsOne(inbox[u], new, C),
         Pays(a, u, id, pc, C),
         pc = "touch" /\ UnreadMode(job[a], u) = "increment" => Fresh(u, id)
  PROVE  CountsOK'
<1>1. \A v \in Users : inbox'[v] = IF v = u THEN new ELSE inbox[v]
  BY DEF TypeOK
<1>2. \A v \in Users, i \in Ids : HasRow(v, i) => HasRow(v, i)'
  BY DEF RowsKept, HasRow, Exists
<1>3. \A v \in Users, i \in Ids : HasRow(v, i)' => HasRow(v, i) \/ i = m
  BY <1>1 DEF HasRow, Exists, OnlyAdds
<1>4. job' = job
  BY DEF MoveTo
<1>5. /\ \A b \in Actors, v \in Users : (b # a \/ v # u) => at'[b][v] = at[b][v]
      /\ at'[a][u].pc = pc
  <2> DEFINE cursor == [pc |-> pc, seq |-> seq]
  <2>1. \A b \in Actors, v \in Users :
          at'[b][v] = IF b = a /\ v = u THEN cursor ELSE at[b][v]
    BY MoveToCursors
  <2>2. cursor.pc = pc
    OBVIOUS
  <2> HIDE DEF cursor
  <2> QED
    BY <2>1, <2>2
<1>6. ASSUME NEW b \in Actors, NEW v \in Users, NEW i \in Ids, Owes(b, v, i)'
      PROVE  \/ Owes(b, v, i)
             \/ b = a /\ ~HasRow(v, i) /\ i \in FromOthers(v, ChatOf(v, i))'
  <2>1. CASE b # a \/ v # u
    BY <1>4, <1>5, <1>6, <2>1 DEF Owes
  <2>2. CASE b = a /\ v = u
    BY <1>4, <1>5, <1>6, <2>2 DEF Owes, Fresh
  <2> QED
    BY <2>1, <2>2
<1>7. ASSUME NEW v \in Users, NEW k \in Chats
      PROVE  \/ inbox'[v].conv[k].unread <= inbox[v].conv[k].unread
             \/ /\ inbox'[v].conv[k].unread <= inbox[v].conv[k].unread + 1
                /\ a \in Actors
                /\ \E i \in Ids : Owes(a, v, i) /\ ~Owes(a, v, i)' /\ ChatOf(v, i) = k
  <2>1. inbox[v].conv[k].unread \in Nat
    BY DEF TypeOK, Box, Conversation
  <2>2. CASE inbox'[v].conv[k].unread = inbox[v].conv[k].unread
    BY <2>1, <2>2
  <2>3. CASE inbox'[v].conv[k].unread # inbox[v].conv[k].unread
    <3>1. /\ v = u
          /\ inbox'[v].conv[k].unread = inbox[v].conv[k].unread + 1
          /\ pc # "touch"
          /\ Owes(a, v, id)
          /\ ChatOf(v, id) = k
      BY <1>1, <2>3 DEF CountsOne, Pays
    <3>2. ~Owes(a, v, id)'
      BY <1>5, <3>1 DEF Owes
    <3> QED
      BY <2>1, <3>1, <3>2
  <2> QED
    BY <2>2, <2>3
<1> QED
  BY <1>2, <1>3, <1>6, <1>7, CountsStay

\* A write of an inbox keeps CountsOK: a duplicate is never counted, because its
\* inserter finds the row and leaves the conversation alone.
LEMMA WriteCounts ==
  ASSUME WellFormed, TypeOK', Traced, CountsOK, RowsKept(inbox, inbox'),
         NEW a \in Actors, NEW u \in Users, WriteInbox(a, u)
  PROVE  CountsOK'
<1> DEFINE j == job[a]
           mode == UnreadMode(j, u)
<1>1. at[a][u].pc # "idle"
  BY DEF WriteInbox, InsertRow, MaskRow, InsertEvent, TouchConversation
<1>2. /\ TypeOK
      /\ j.kind \in JobKinds
      /\ TaskOK(j)
      /\ j.msg \in Ids
      /\ j.kind = "recall" => j.event \in Ids
      /\ inbox[u] \in Box
      /\ at[a][u].pc \in {"mask", "event"} => j.kind = "recall"
  BY <1>1, WriterType, ActorType DEF WellFormed, JobOK
<1>3. mode = "increment" => /\ j.msg \in Messages \cup Systems
                            /\ j.msg \in Messages => From[j.msg] # u
                            /\ j.kind # "recall"
                            /\ u # j.who
                            /\ PeerOf(j, u) = ChatOf(u, j.msg)
  BY <1>1, OwedByReceivers
<1>id. PICK id \in Ids : id = j.msg
  BY <1>2
<1>4. \A new : inbox' = [inbox EXCEPT ![u] = new] => inbox'[u] = new
  BY <1>2 DEF TypeOK
<1>5. ASSUME InsertRow(a, u)
      PROVE  CountsOK'
  <2> DEFINE kind == BodyOf(j.kind)
             new == Insert(inbox[u], j.msg, kind)
             seq == InsertedSeq(inbox[u], j.msg)
             pc == AfterInsert(j, u, seq)
  <2>1. kind \in Kinds \ {"none"}
    BY <1>2 DEF BodyOf, JobKinds, Kinds
  <2>2. new \in Box
    BY <1>2, <2>1, InsertType
  <2>3. inbox' = [inbox EXCEPT ![u] = new] /\ MoveTo(a, u, pc, seq)
    BY <1>5 DEF InsertRow
  <2>4. /\ OnlyAdds(inbox[u], new, j.msg)
        /\ CountsOne(inbox[u], new, {})
        /\ Exists(new, j.msg)
    BY <1>2, <2>1, InsertRows, InsertLeavesRow
  <2>5. ASSUME pc = "touch", mode = "increment"
        PROVE  Fresh(u, id)
    <3>1. seq # 0
      BY <1>3, <2>5 DEF AfterInsert
    <3>2. ~HasRow(u, id)
      BY <1>id, <3>1 DEF InsertedSeq, Exists, HasRow
    <3>3. HasRow(u, id)'
      BY <1>id, <1>4, <2>3, <2>4 DEF HasRow, Exists
    <3> QED
      BY <1>id, <1>3, <2>5, <3>2, <3>3 DEF FromOthers, Fresh
  <2>6. Pays(a, u, id, pc, {})
    BY DEF Pays
  <2> HIDE DEF kind, new, seq, pc, mode
  <2> QED
    BY <1>id, <1>2, <2>2, <2>3, <2>4, <2>5, <2>6, MoveCounts DEF mode
<1>6. ASSUME MaskRow(a, u)
      PROVE  CountsOK'
  <2> DEFINE new == Mask(inbox[u], j.msg)
  <2>1. /\ new \in Box
        /\ OnlyAdds(inbox[u], new, j.msg)
        /\ CountsOne(inbox[u], new, {})
    BY <1>2, MaskType, MaskRows
  <2>2. inbox' = [inbox EXCEPT ![u] = new] /\ MoveTo(a, u, "event", 0)
    BY <1>6 DEF MaskRow
  <2>3. Pays(a, u, id, "event", {})
    BY DEF Pays
  <2> HIDE DEF new
  <2> QED
    BY <1>id, <1>2, <2>1, <2>2, <2>3, MoveCounts
<1>7. ASSUME InsertEvent(a, u)
      PROVE  CountsOK'
  <2> DEFINE new == Insert(inbox[u], j.event, "event")
             seq == InsertedSeq(inbox[u], j.event)
             pc == IF seq = 0 THEN "done" ELSE "touch"
  <2>1. j.kind = "recall" /\ j.event \in Ids
    BY <1>2, <1>7 DEF InsertEvent
  <2>2. /\ new \in Box
        /\ OnlyAdds(inbox[u], new, j.event)
        /\ CountsOne(inbox[u], new, {})
    BY <1>2, <2>1, InsertType, InsertRows DEF Kinds
  <2>3. inbox' = [inbox EXCEPT ![u] = new] /\ MoveTo(a, u, pc, seq)
    BY <1>7 DEF InsertEvent
  <2>4. mode # "increment"
    BY <1>3, <2>1
  <2>5. Pays(a, u, id, pc, {})
    BY DEF Pays
  <2> HIDE DEF new, seq, pc, mode
  <2> QED
    BY <1>id, <1>2, <2>2, <2>3, <2>4, <2>5, MoveCounts DEF mode
<1>8. ASSUME TouchConversation(a, u)
      PROVE  CountsOK'
  <2> DEFINE seq == at[a][u].seq
             new == Upsert(inbox[u], PeerOf(j, u), seq, Newest(j), mode)
             C == {k \in {PeerOf(j, u)} : mode = "increment"}
  <2>1. /\ PeerOf(j, u) \in Chats
        /\ Newest(j) \in Ids
        /\ mode \in UnreadModes
        /\ seq \in Nat
    BY <1>2, PeerOfType DEF Newest, UnreadMode, UnreadModes, TypeOK, Cursor
  <2>2. /\ new \in Box
        /\ OnlyAdds(inbox[u], new, Newest(j))
        /\ CountsOne(inbox[u], new, C)
    BY <1>2, <2>1, UpsertType, UpsertCounts, ZenonT(60)
  <2>3. inbox' = [inbox EXCEPT ![u] = new] /\ MoveTo(a, u, "done", seq)
    BY <1>8 DEF TouchConversation
  <2>4. mode = "increment" => Owes(a, u, id)
    BY <1>id, <1>8 DEF TouchConversation, Owes
  <2>5. Pays(a, u, id, "done", C)
    BY <1>id, <1>3, <2>4 DEF Pays
  <2> HIDE DEF new, seq, mode, C
  <2> QED
    BY <1>id, <1>2, <2>2, <2>3, <2>5, MoveCounts
<1> QED
  BY <1>5, <1>6, <1>7, <1>8 DEF WriteInbox

\* Every other step owes no count that was not owed before.
LEMMA OthersOweNothing ==
  ASSUME WellFormed, [Next]_vars, ~ \E a \in Actors, u \in Users : WriteInbox(a, u),
         NEW b \in Actors, NEW v \in Users, NEW i \in Ids, Owes(b, v, i)'
  PROVE  Owes(b, v, i)
<1>0. /\ at \in [Actors -> [Users -> Cursor]]
      /\ job \in [Actors -> Job]
      /\ JobOK(job[b], at[b])
  BY DEF WellFormed, TypeOK, JobsOK
<1>1. ASSUME NEW a \in Actors, NEW j, NEW S, job' = [job EXCEPT ![a] = j] \/ job' = job,
             at' = [at EXCEPT ![a] = Starting(S)]
      PROVE  Owes(b, v, i)
  BY <1>0, <1>1, StartingType DEF Owes
<1>2. ASSUME NEW a \in Actors, NEW j, job' = [job EXCEPT ![a] = j], at' = at,
             \/ \A u \in Users : at[a][u].pc = "idle"
             \/ j.msg = job[a].msg /\ j.kind = job[a].kind /\ j.who = job[a].who
      PROVE  Owes(b, v, i)
  BY <1>0, <1>2 DEF Owes, UnreadMode
<1>3. CASE UNCHANGED <<job, at>>
  BY <1>3 DEF Owes
<1>4. ASSUME NEW h \in Requests, RequestStep(h)
      PROVE  Owes(b, v, i)
  <2>1. h \in Actors /\ JobOK(job[h], at[h])
    BY ActorKinds DEF WellFormed, JobsOK
  <2>2. CASE \/ \E m \in Messages : StartSend(h, m)
             \/ \E e \in Recalls : StartRecall(h, e)
             \/ \E s \in Systems, u \in Users :
                  AddGroupMember(h, s, u) \/ StartRemove(h, s, u)
    BY <1>1, <2>1, <2>2 DEF StartSend, StartRecall, AddGroupMember, StartRemove, Begin
  <2>3. CASE TurnToPeer(h) \/ AnswerDirect(h) \/ ListMembers(h)
    BY <1>1, <2>1, <2>3 DEF TurnToPeer, AnswerDirect, ListMembers
  <2>4. CASE RemoveMember(h) \/ Submit(h)
    BY <1>2, <2>1, <2>4 DEF RemoveMember, Submit, JobOK
  <2> QED
    BY <1>4, <2>1, <2>2, <2>3, <2>4 DEF RequestStep
<1>5. ASSUME NEW w \in Workers, WorkerStep(w)
      PROVE  Owes(b, v, i)
  <2>1. w \in Actors /\ job[w] \in Job
    BY <1>0, ActorKinds
  <2>2. CASE Take(w) \/ RemoveTask(w)
    BY <1>1, <2>1, <2>2 DEF Take, RemoveTask
  <2>3. CASE Notify(w)
    <3> DEFINE j == [job[w] EXCEPT !.stage = "remove"]
    <3>1. j.msg = job[w].msg /\ j.kind = job[w].kind /\ j.who = job[w].who
      BY <2>1 DEF Job
    <3> QED
      BY <1>2, <2>1, <2>3, <3>1 DEF Notify
  <2> QED
    BY <1>5, <2>1, <2>2, <2>3 DEF WorkerStep
<1>6. ASSUME NEW u \in Users, UserStep(u)
      PROVE  Owes(b, v, i)
  BY <1>3, <1>6 DEF UserStep, DeleteMessage, RemoveConversation, ReadConversation, Edit
<1>7. ASSUME FaultStep
      PROVE  Owes(b, v, i)
  <2>1. ASSUME NEW a \in Actors, NEW u \in Users, WriteFails(a, u)
        PROVE  Owes(b, v, i)
    <3>1. job' = job /\ at'[b][v] \in {at[b][v], [pc |-> "done", seq |-> 0]}
      BY <1>0, <2>1 DEF WriteFails
    <3> QED
      BY <3>1 DEF Owes
  <2>2. ASSUME NEW h \in Requests, RequestFails(h)
        PROVE  Owes(b, v, i)
    BY <1>1, <2>2, ActorKinds DEF RequestFails
  <2>3. ASSUME NEW h \in Requests, ListFails(h)
        PROVE  Owes(b, v, i)
    BY <1>2, <2>3, ActorKinds DEF ListFails, WellFormed, JobsOK, JobOK
  <2>4. ASSUME NEW w \in Workers, RemoveFails(w)
        PROVE  Owes(b, v, i)
    BY <1>1, <2>4, ActorKinds DEF RemoveFails
  <2>5. ASSUME Restart
        PROVE  Owes(b, v, i)
    BY <2>5, StartingType DEF Restart, Owes
  <2> QED
    BY <1>7, <2>1, <2>2, <2>3, <2>4, <2>5 DEF FaultStep
<1> QED
  BY <1>3, <1>4, <1>5, <1>6, <1>7 DEF Next, vars

\* Nor does it raise the count of a conversation.
LEMMA OthersCountNothing ==
  ASSUME WellFormed, [Next]_vars, ~ \E a \in Actors, u \in Users : WriteInbox(a, u),
         NEW v \in Users, NEW c \in Chats
  PROVE  inbox'[v].conv[c].unread <= inbox[v].conv[c].unread
<1>0. /\ inbox \in [Users -> Box]
      /\ inbox[v].conv[c].unread \in Nat
  BY DEF WellFormed, TypeOK, Box, Conversation
<1>1. ASSUME NEW u \in Users, UserStep(u)
      PROVE  inbox'[v].conv[c].unread <= inbox[v].conv[c].unread
  <2>1. ASSUME NEW new, Edit(u, new), new.conv[c].unread <= inbox[u].conv[c].unread
        PROVE  inbox'[v].conv[c].unread <= inbox[v].conv[c].unread
    <3>1. inbox'[v] = IF v = u THEN new ELSE inbox[v]
      BY <1>0, <2>1 DEF Edit
    <3> QED
      BY <1>0, <2>1, <3>1
  <2>2. ASSUME NEW i \in Ids, DeleteMessage(u, i)
        PROVE  inbox'[v].conv[c].unread <= inbox[v].conv[c].unread
    <3>1. DeleteByMsgID(inbox[u], i).conv = inbox[u].conv
      BY <1>0 DEF DeleteByMsgID, Box
    <3>2. inbox[u].conv[c].unread \in Nat
      BY <1>0 DEF Box, Conversation
    <3> QED
      BY <2>1, <2>2, <3>1, <3>2 DEF DeleteMessage
  <2>3. ASSUME NEW k \in Chats, RemoveConversation(u, k) \/ ReadConversation(u, k)
        PROVE  inbox'[v].conv[c].unread <= inbox[v].conv[c].unread
    BY <1>0, <2>1, <2>3, EditCounts DEF RemoveConversation, ReadConversation
  <2> QED
    BY <1>1, <2>2, <2>3 DEF UserStep
<1>2. CASE UNCHANGED vars
  BY <1>0, <1>2 DEF vars, store
<1>3. CASE \/ \E h \in Requests : /\ RequestStep(h)
                                  /\ ~ \E u \in Users : WriteInbox(h, u)
           \/ \E w \in Workers : Take(w) \/ Notify(w) \/ RemoveTask(w)
           \/ FaultStep
  BY <1>0, <1>3, OtherStepsReset
<1> QED
  BY <1>1, <1>2, <1>3, ActorKinds DEF Next, WorkerStep

\* CountsOK holds in every reachable state.
THEOREM AlwaysCounted == Spec => []CountsOK
<1>1. Init => CountsOK
  <2> SUFFICES ASSUME Init PROVE CountsOK
    OBVIOUS
  <2>1. \A a \in Actors, u \in Users, i \in Ids : ~Owes(a, u, i)
    BY StartingType DEF Init, Owes
  <2>2. \A u \in Users, k \in Chats : FromOthers(u, k) = {}
    BY NamesAreIds DEF Init, FromOthers, HasRow, EmptyBox, NoRow
  <2>3. \A u \in Users, k \in Chats : inbox[u].conv[k].unread = 0
    BY DEF Init, EmptyBox, NoConversation
  <2>4. \A u \in Users, k \in Chats : Settled(u, k) = {}
    BY <2>2 DEF Settled
  <2> QED
    <3>1. Cardinality({}) = 0 /\ IsFiniteSet({})
      BY FS_EmptySet
    <3>2. ASSUME NEW u \in Users, NEW k \in Chats
          PROVE  /\ IsFiniteSet(FromOthers(u, k))
                 /\ inbox[u].conv[k].unread <= Cardinality(Settled(u, k))
      <4>1. FromOthers(u, k) = {} /\ Settled(u, k) = {} /\ inbox[u].conv[k].unread = 0
        BY <2>2, <2>3, <2>4
      <4> QED
        BY <3>1, <4>1
    <3> QED
      BY <2>1, <3>2 DEF CountsOK
<1>2. WellFormed /\ WellFormed' /\ KindsOK /\ Traced /\ CountsOK /\ [Next]_vars
      => CountsOK' /\ KindsOK'
  <2> SUFFICES ASSUME WellFormed, WellFormed', KindsOK, Traced, CountsOK, [Next]_vars
               PROVE  CountsOK' /\ KindsOK'
    OBVIOUS
  <2>1. TypeOK /\ TypeOK' /\ RowsKept(inbox, inbox') /\ KindsOK'
    BY StepKeepsRows DEF WellFormed
  <2>2. CASE \E a \in Actors, u \in Users : WriteInbox(a, u)
    BY <2>1, <2>2, WriteCounts
  <2>3. CASE ~ \E a \in Actors, u \in Users : WriteInbox(a, u)
    <3>1. \A u \in Users, i \in Ids : /\ HasRow(u, i) => HasRow(u, i)'
                                      /\ HasRow(u, i)' => HasRow(u, i)
      BY <2>1, <2>3, OthersAddNothing DEF RowsKept, HasRow, Exists
    <3>2. \A b \in Actors, u \in Users, i \in Ids : Owes(b, u, i)' => Owes(b, u, i)
      BY <2>3, OthersOweNothing
    <3>3. \A u \in Users, k \in Chats : inbox'[u].conv[k].unread <= inbox[u].conv[k].unread
      BY <2>3, OthersCountNothing
    <3> QED
      BY <2>1, <3>1, <3>2, <3>3, CountsStay
  <2> QED
    BY <2>2, <2>3
<1> QED
  BY <1>1, <1>2, AlwaysWellFormed, AlwaysTraced, InitIsLifecycleInit, PTL DEF Spec

\* UnreadNeverOvercounts: no retry, replay, deletion, error or restart makes the
\* unread count of a conversation exceed the messages that others sent to it.
THEOREM UnreadBounded == Spec => []UnreadNeverOvercounts
<1>1. CountsOK /\ WellFormed => UnreadNeverOvercounts
  <2> SUFFICES ASSUME CountsOK, WellFormed, NEW u \in Users, NEW k \in Chats
               PROVE  inbox[u].conv[k].unread <= Cardinality(FromOthers(u, k))
    BY DEF UnreadNeverOvercounts
  <2>1. /\ Cardinality(FromOthers(u, k)) \in Nat
        /\ Cardinality(Settled(u, k)) \in Nat
        /\ Cardinality(Settled(u, k)) <= Cardinality(FromOthers(u, k))
    BY FS_Subset, FS_CardinalityType DEF CountsOK, Settled
  <2>2. inbox[u].conv[k].unread \in Nat
    BY DEF WellFormed, TypeOK, Box, Conversation
  <2> QED
    BY <2>1, <2>2 DEF CountsOK
<1> QED
  BY <1>1, AlwaysCounted, AlwaysWellFormed, PTL

-----------------------------------------------------------------------------
(* Conversations catch up *)

\* Goroutine a is going to bring the conversation of row i of u to the seq of
\* the row, or above it: it is about to upsert the conversation, or it is about
\* to write the event of a recall whose placeholder row i is.
Pushes(a, u, i) ==
  \/ /\ at[a][u].pc = "touch"
     /\ ChatOf(u, job[a].msg) = ChatOf(u, i)
     /\ at[a][u].seq >= inbox[u].rows[i].seq
  \/ /\ at[a][u].pc = "event"
     /\ job[a].msg = i
     /\ ~HasRow(u, job[a].event)

\* The conversation of row i of u has come as far as the row.
Caught(u, i) ==
  LET conv == inbox[u].conv[ChatOf(u, i)]
  IN conv.status # "none" /\ conv.seq >= inbox[u].rows[i].seq

Covered(u, i) ==
  Live(inbox[u], i) => Caught(u, i) \/ \E a \in Actors : Pushes(a, u, i)

\* The seq is that of message i, unless that was deleted; 0 stands for a
\* duplicate.
SeqOf(box, i, seq) ==
  seq # 0 => Exists(box, i) /\ (Live(box, i) => box.rows[i].seq = seq)

\* An active conversation has the seq of the message that it names.
NamesItsSeq(box) ==
  \A k \in Chats, i \in Ids :
    box.conv[k].status = "active" /\ box.conv[k].last = i => SeqOf(box, i, box.conv[k].seq)

\* So does the upsert that goroutine a is about to make.
CarriesSeq(a, u) == at[a][u].pc = "touch" => SeqOf(inbox[u], Newest(job[a]), at[a][u].seq)

\* Without errors and restarts a row is never ahead of its conversation but
\* while somebody is about to push that on.
Converging ==
  /\ \A u \in Users, i \in Ids : Covered(u, i)
  /\ \A a \in Actors, u \in Users : CarriesSeq(a, u)
  /\ \A u \in Users : NamesItsSeq(inbox[u])

-----------------------------------------------------------------------------
(* The transactions of one inbox *)

\* From old to new no row is lost or revived, and a live one keeps its seq.
SeqsKept(old, new) ==
  \A i \in Ids :
    Exists(old, i) => /\ Exists(new, i)
                      /\ Live(new, i) => Live(old, i) /\ new.rows[i].seq = old.rows[i].seq

\* No conversation row is lost or goes back.
ConvsGrow(old, new) ==
  \A k \in Chats :
    /\ new.conv[k].seq >= old.conv[k].seq
    /\ old.conv[k].status # "none" => new.conv[k].status # "none"

\* Those that are active are what they were, but for the unread count.
ActiveKept(old, new) ==
  \A k \in Chats :
    new.conv[k].status = "active" =>
      /\ old.conv[k].status = "active"
      /\ new.conv[k].seq = old.conv[k].seq
      /\ new.conv[k].last = old.conv[k].last

\* A visible change keeps the seqs of live rows.
LEMMA VisibleKeepsSeqs ==
  ASSUME NEW old \in Box, NEW new, Visible(old, new)
  PROVE  SeqsKept(old, new)
<1>0. old.rows \in [Ids -> Row]
  BY DEF Box
<1>1. CASE new.rows = old.rows
  BY <1>1 DEF SeqsKept, Exists, Live
<1>2. ASSUME NEW k \in Ids, NEW row \in Row, new.rows = [old.rows EXCEPT ![k] = row],
             \/ ~Exists(old, k)
             \/ Live(old, k) /\ row.seq = old.rows[k].seq /\ row.kind = "placeholder"
             \/ Live(old, k) /\ row.kind = old.rows[k].kind /\ row.deleted
      PROVE  SeqsKept(old, new)
  <2>1. \A i \in Ids : new.rows[i] = IF i = k THEN row ELSE old.rows[i]
    BY <1>0, <1>2
  <2> QED
    BY <1>2, <2>1 DEF SeqsKept, Exists, Live
<1> QED
  BY <1>1, <1>2 DEF Visible

\* Every step keeps the seqs of live rows.
LEMMA StepKeepsSeqs ==
  ASSUME WellFormed, KindsOK, [Next]_vars
  PROVE  \A u \in Users : SeqsKept(inbox[u], inbox'[u])
<1>0. inbox \in [Users -> Box]
  BY DEF WellFormed, TypeOK
<1>1. OneVisibleChange
  BY StepKeeps, TransactionsAreVisible DEF WellFormed
<1>2. CASE inbox' = inbox
  BY <1>2 DEF SeqsKept
<1>3. ASSUME NEW u \in Users, NEW new \in Box,
             Visible(inbox[u], new), inbox' = [inbox EXCEPT ![u] = new]
      PROVE  \A v \in Users : SeqsKept(inbox[v], inbox'[v])
  <2>1. \A v \in Users : inbox'[v] = IF v = u THEN new ELSE inbox[v]
    BY <1>0, <1>3
  <2>2. SeqsKept(inbox[u], new)
    BY <1>0, <1>3, VisibleKeepsSeqs
  <2> QED
    BY <2>1, <2>2 DEF SeqsKept
<1> QED
  BY <1>1, <1>2, <1>3 DEF OneVisibleChange

\* A seq that was that of a message stays so while the seqs are kept.
LEMMA SeqOfStays ==
  ASSUME NEW old, NEW new, SeqsKept(old, new), NEW i \in Ids, NEW seq, SeqOf(old, i, seq)
  PROVE  SeqOf(new, i, seq)
BY DEF SeqsKept, SeqOf

\* A box whose rows and active conversations are kept names the right seqs.
LEMMA NamesStay ==
  ASSUME NEW old, NEW new, SeqsKept(old, new), ActiveKept(old, new), NamesItsSeq(old)
  PROVE  NamesItsSeq(new)
<1> SUFFICES ASSUME NEW k \in Chats, NEW i \in Ids,
                    new.conv[k].status = "active", new.conv[k].last = i
             PROVE  SeqOf(new, i, new.conv[k].seq)
  BY DEF NamesItsSeq
<1>1. SeqOf(old, i, new.conv[k].seq)
  BY DEF ActiveKept, NamesItsSeq
<1> QED
  BY <1>1, SeqOfStays

\* The message transactions leave the conversation rows alone.
LEMMA MessagesKeepConvs ==
  ASSUME NEW box \in Box, NEW new, new.conv = box.conv
  PROVE  ConvsGrow(box, new) /\ ActiveKept(box, new)
BY BoxFields DEF ConvsGrow, ActiveKept

\* ConversationStore.ClearUnread and Delete keep those that stay active.
LEMMA EditsKeepConvs ==
  ASSUME NEW box \in Box, ConvBounded(box), NEW k \in Chats
  PROVE  /\ ConvsGrow(box, ClearUnread(box, k)) /\ ActiveKept(box, ClearUnread(box, k))
         /\ ConvsGrow(box, DeleteConversation(box, k))
         /\ ActiveKept(box, DeleteConversation(box, k))
<1>0. /\ box.conv \in [Chats -> Conversation]
      /\ Advances(box, ClearUnread(box, k))
      /\ Advances(box, DeleteConversation(box, k))
  BY BoxFields, EditConversationAdvances
<1>1. CASE box.conv[k].status = "active"
  <2> DEFINE read == [box.conv[k] EXCEPT !.unread = 0]
             gone == [box.conv[k] EXCEPT !.status = "deleted", !.seq = box.max + 1,
                                         !.unread = 0]
             cleared == ClearUnread(box, k)
             deleted == DeleteConversation(box, k)
  <2>1. /\ cleared.conv = [box.conv EXCEPT ![k] = read]
        /\ deleted.conv = [box.conv EXCEPT ![k] = gone]
    BY <1>1 DEF ClearUnread, DeleteConversation, SetConversation, Box
  <2>2. /\ read.status = "active"
        /\ read.seq = box.conv[k].seq
        /\ read.last = box.conv[k].last
        /\ gone.status = "deleted"
    BY <1>0, <1>1 DEF Conversation
  <2> HIDE DEF read, gone, cleared, deleted
  <2>3. \A c \in Chats : /\ cleared.conv[c] = IF c = k THEN read ELSE box.conv[c]
                         /\ deleted.conv[c] = IF c = k THEN gone ELSE box.conv[c]
    BY <1>0, <2>1
  <2>4. Advances(box, cleared) /\ Advances(box, deleted)
    BY <1>0 DEF cleared, deleted
  <2>5. /\ ConvsGrow(box, cleared) /\ ActiveKept(box, cleared)
        /\ ConvsGrow(box, deleted) /\ ActiveKept(box, deleted)
    BY <1>1, <2>2, <2>3, <2>4 DEF ConvsGrow, ActiveKept, Advances
  <2> QED
    BY <2>5 DEF cleared, deleted
<1>2. CASE box.conv[k].status # "active"
  BY <1>2, MessagesKeepConvs DEF ClearUnread, DeleteConversation
<1> QED
  BY <1>1, <1>2

\* ConversationStore.Upsert brings the conversation to the seq or finds it there,
\* and the conversation names the message that has its seq.
LEMMA UpsertConverges ==
  ASSUME NEW box \in Box, ConvBounded(box), NEW k \in Chats, NEW seq \in Nat,
         NEW id \in Ids, NEW mode \in UnreadModes, seq <= box.max,
         SeqOf(box, id, seq), NamesItsSeq(box)
  PROVE  /\ ConvsGrow(box, Upsert(box, k, seq, id, mode))
         /\ NamesItsSeq(Upsert(box, k, seq, id, mode))
         /\ Upsert(box, k, seq, id, mode).conv[k].status # "none"
         /\ Upsert(box, k, seq, id, mode).conv[k].seq >= seq
<1>0. box.conv \in [Chats -> Conversation] /\ box.conv[k].seq \in Nat
  BY BoxFields
<1>1. CASE box.conv[k].status = "none" \/ seq > box.conv[k].seq
  <2> DEFINE row == [status |-> "active", seq |-> seq, last |-> id,
                     unread |-> box.conv[k].unread + Bump(mode)]
             new == Upsert(box, k, seq, id, mode)
  <2>1. new.conv = [box.conv EXCEPT ![k] = row] /\ new.rows = box.rows
    BY <1>1 DEF Upsert, SetConversation, Box
  <2>2. Advances(box, new)
    BY UpsertAdvances
  <2>3. row.seq = seq /\ row.status = "active" /\ row.last = id
    OBVIOUS
  <2> HIDE DEF row, new
  <2>4. \A c \in Chats : new.conv[c] = IF c = k THEN row ELSE box.conv[c]
    BY <1>0, <2>1
  <2>5. ConvsGrow(box, new)
    BY <2>2, <2>3, <2>4 DEF ConvsGrow, Advances
  <2>6. \A i \in Ids : \A n : SeqOf(box, i, n) => SeqOf(new, i, n)
    BY <2>1 DEF SeqOf, Exists, Live
  <2>7. NamesItsSeq(new)
    BY <2>3, <2>4, <2>6 DEF NamesItsSeq
  <2>8. new.conv[k].status # "none" /\ new.conv[k].seq >= seq
    BY <2>3, <2>4
  <2> QED
    BY <2>5, <2>7, <2>8 DEF new
<1>2. CASE ~(box.conv[k].status = "none" \/ seq > box.conv[k].seq)
  <2>1. Upsert(box, k, seq, id, mode) = box
    BY <1>2 DEF Upsert
  <2>2. box.conv[k].status # "none" /\ box.conv[k].seq >= seq
    BY <1>0, <1>2
  <2> QED
    BY <2>1, <2>2, MessagesKeepConvs
<1> QED
  BY <1>1, <1>2

-----------------------------------------------------------------------------
(* The steps of Messaging *)

\* What must hold of a step for every row to stay covered: arrivals have a
\* pusher, and whoever stops pushing an old row leaves it to another or caught.
LEMMA CoveredStays ==
  ASSUME Converging,
         \A u \in Users : SeqsKept(inbox[u], inbox'[u]) /\ ConvsGrow(inbox[u], inbox'[u]),
         inbox \in [Users -> Box], inbox' \in [Users -> Box],
         \A u \in Users, i \in Ids : ChatOf(u, i) \in Chats,
         \A u \in Users, i \in Ids :
           ~Exists(inbox[u], i) /\ Exists(inbox'[u], i) => \E b \in Actors : Pushes(b, u, i)',
         \A a \in Actors, u \in Users, i \in Ids :
           Exists(inbox[u], i) /\ Live(inbox'[u], i) /\ Pushes(a, u, i) =>
             Caught(u, i)' \/ \E b \in Actors : Pushes(b, u, i)'
  PROVE  \A u \in Users, i \in Ids : Covered(u, i)'
<1> SUFFICES ASSUME NEW u \in Users, NEW i \in Ids, Live(inbox'[u], i)
             PROVE  Caught(u, i)' \/ \E b \in Actors : Pushes(b, u, i)'
  BY DEF Covered
<1>1. CASE ~Exists(inbox[u], i)
  BY <1>1 DEF Live
<1>2. CASE Exists(inbox[u], i)
  <2>1. Live(inbox[u], i) /\ inbox'[u].rows[i].seq = inbox[u].rows[i].seq
    BY <1>2 DEF SeqsKept
  <2>2. CASE Caught(u, i)
    <3> DEFINE k == ChatOf(u, i)
    <3>1. /\ inbox[u].conv[k].status # "none"
          /\ inbox[u].conv[k].seq >= inbox[u].rows[i].seq
      BY <2>2 DEF Caught
    <3>2. /\ inbox'[u].conv[k].status # "none"
          /\ inbox'[u].conv[k].seq >= inbox[u].conv[k].seq
      BY <3>1 DEF ConvsGrow
    <3>3. /\ inbox[u].conv[k].seq \in Nat
          /\ inbox'[u].conv[k].seq \in Nat
          /\ inbox[u].rows[i].seq \in Nat
      BY BoxFields DEF Row
    <3>4. ChatOf(u, i)' = k
      BY DEF ChatOf, About, Direct
    <3> QED
      BY <2>1, <3>1, <3>2, <3>3, <3>4 DEF Caught
  <2>3. CASE \E a \in Actors : Pushes(a, u, i)
    BY <1>2, <2>3
  <2> QED
    BY <2>1, <2>2, <2>3 DEF Converging, Covered
<1> QED
  BY <1>1, <1>2

\* The conversation that a job upserts is that of its message and of its event.
LEMMA PeerIsChat ==
  ASSUME NEW j, TaskOK(j), j.kind \in JobKinds, Named(j), NEW u
  PROVE  /\ PeerOf(j, u) = ChatOf(u, j.msg)
         /\ ChatOf(u, Newest(j)) = ChatOf(u, j.msg)
<1>1. CASE j.kind = "system"
  <2>1. j.msg \in Systems /\ j.msg \notin Recalls
    BY <1>1, MessagingAssumption DEF TaskOK
  <2> QED
    BY <1>1, <2>1 DEF PeerOf, ChatOf, About, Newest
<1>2. CASE j.kind \in {"send", "recall"}
  <2>1. /\ j.msg \in Messages
        /\ j.msg \notin Systems \cup Recalls
        /\ j.who = From[j.msg]
    BY <1>2, MessagingAssumption DEF TaskOK, Named
  <2>2. PeerOf(j, u) = ChatOf(u, j.msg)
    BY <1>2, <2>1 DEF PeerOf, ChatOf, About
  <2>3. j.kind = "recall" => j.event \in Recalls /\ RecallOf[j.event] = j.msg
    BY DEF TaskOK, Named
  <2> QED
    BY <1>2, <2>1, <2>2, <2>3 DEF ChatOf, About, Newest
<1> QED
  BY <1>1, <1>2 DEF JobKinds

\* Every message belongs to a conversation.
LEMMA ChatOfType ==
  ASSUME NEW u \in Users, NEW i \in Ids
  PROVE  ChatOf(u, i) \in Chats
<1>1. About(i) \in Messages \cup Systems
  BY MessagingAssumption DEF About
<1>2. CASE About(i) \in Systems \/ ~Direct(About(i))
  BY <1>2 DEF ChatOf, Chats
<1>3. CASE About(i) \notin Systems /\ Direct(About(i))
  BY <1>1, <1>3, MessagingAssumption DEF ChatOf, Chats, Direct
<1> QED
  BY <1>2, <1>3

\* A deletion or clear_unread leaves the other conversations what they were.
LEMMA UserKeepsConvs ==
  ASSUME WellFormed, ConversationsOK, NEW u \in Users, UserStep(u)
  PROVE  \A v \in Users : ConvsGrow(inbox[v], inbox'[v]) /\ ActiveKept(inbox[v], inbox'[v])
<1>0. inbox \in [Users -> Box] /\ ConvBounded(inbox[u])
  BY DEF WellFormed, TypeOK, ConversationsOK
<1>1. ASSUME NEW new, Edit(u, new), ConvsGrow(inbox[u], new), ActiveKept(inbox[u], new)
      PROVE  \A v \in Users : ConvsGrow(inbox[v], inbox'[v]) /\ ActiveKept(inbox[v], inbox'[v])
  <2>1. \A v \in Users : inbox'[v] = IF v = u THEN new ELSE inbox[v]
    BY <1>0, <1>1 DEF Edit
  <2>2. \A v \in Users : ConvsGrow(inbox[v], inbox[v]) /\ ActiveKept(inbox[v], inbox[v])
    BY <1>0, MessagesKeepConvs
  <2> QED
    BY <1>1, <2>1, <2>2
<1>2. ASSUME NEW i \in Ids, DeleteMessage(u, i)
      PROVE  ConvsGrow(inbox[u], DeleteByMsgID(inbox[u], i))
             /\ ActiveKept(inbox[u], DeleteByMsgID(inbox[u], i))
  <2>1. DeleteByMsgID(inbox[u], i).conv = inbox[u].conv
    BY <1>0 DEF DeleteByMsgID, Box
  <2> QED
    BY <1>0, <2>1, MessagesKeepConvs
<1>3. ASSUME NEW k \in Chats, RemoveConversation(u, k) \/ ReadConversation(u, k)
      PROVE  \A v \in Users : ConvsGrow(inbox[v], inbox'[v]) /\ ActiveKept(inbox[v], inbox'[v])
  BY <1>0, <1>1, <1>3, EditsKeepConvs DEF RemoveConversation, ReadConversation
<1> QED
  BY <1>1, <1>2, <1>3 DEF UserStep, DeleteMessage

\* A step that writes no inbox leaves all pushers at their work, unless it is a
\* fault.
LEMMA OthersConverge ==
  ASSUME WellFormed, KindsOK, Traced, Exclusive, ConversationsOK, Converging, [Next]_vars,
         ~FaultStep, faults = 0, ~ \E a \in Actors, u \in Users : WriteInbox(a, u)
  PROVE  Converging'
<1>0. /\ inbox \in [Users -> Box]
      /\ inbox' \in [Users -> Box]
      /\ at \in [Actors -> [Users -> Cursor]]
      /\ \A u \in Users, i \in Ids : inbox[u].rows[i].seq \in Nat
  BY StepKeeps DEF WellFormed, TypeOK, Box, Row
<1>1. \A u \in Users : SeqsKept(inbox[u], inbox'[u])
  BY StepKeepsSeqs
<1>2. /\ \A u \in Users : ConvsGrow(inbox[u], inbox'[u]) /\ ActiveKept(inbox[u], inbox'[u])
      /\ CursorsReset
  <2>1. ASSUME inbox' = inbox
        PROVE  \A u \in Users : ConvsGrow(inbox[u], inbox'[u]) /\ ActiveKept(inbox[u], inbox'[u])
    BY <1>0, <2>1, MessagesKeepConvs
  <2>2. CASE UNCHANGED vars
    BY <2>1, <2>2 DEF vars, store, CursorsReset
  <2>3. CASE \E u \in Users : UserStep(u)
    <3>1. at' = at
      BY <2>3 DEF UserStep, DeleteMessage, RemoveConversation, ReadConversation, Edit
    <3> QED
      BY <2>3, <3>1, UserKeepsConvs DEF CursorsReset
  <2>4. CASE \/ \E h \in Requests : /\ RequestStep(h)
                                    /\ ~ \E u \in Users : WriteInbox(h, u)
             \/ \E w \in Workers : Take(w) \/ Notify(w) \/ RemoveTask(w)
    BY <2>1, <2>4, OtherStepsReset
  <2> QED
    BY <2>2, <2>3, <2>4, ActorKinds DEF Next, WorkerStep
<1>3. ASSUME NEW a \in Actors, NEW u \in Users, at[a][u].pc \in {"touch", "event"}
      PROVE  job'[a] = job[a] /\ at'[a][u] = at[a][u]
  BY <1>3, BusyCursorStays
<1>4. ASSUME NEW a \in Actors, NEW u \in Users, NEW i \in Ids,
             Exists(inbox[u], i), Live(inbox'[u], i), Pushes(a, u, i)
      PROVE  Pushes(a, u, i)'
  <2>1. job'[a] = job[a] /\ at'[a][u] = at[a][u]
    BY <1>3, <1>4 DEF Pushes
  <2>2. inbox'[u].rows[i].seq = inbox[u].rows[i].seq
    BY <1>1, <1>4 DEF SeqsKept
  <2>3. ASSUME at[a][u].pc = "event"
        PROVE  HasRow(u, job[a].event)' => HasRow(u, job[a].event)
    <3>1. job[a].event \in Ids
      BY <2>3, WriterType, ActorType DEF WellFormed, JobOK
    <3> QED
      BY <2>1, <3>1, OthersAddNothing DEF HasRow, Exists
  <2> QED
    BY <1>4, <2>1, <2>2, <2>3 DEF Pushes
<1>5. \A u \in Users, i \in Ids : Covered(u, i)'
  <2>1. \A u \in Users, i \in Ids : Exists(inbox'[u], i) => Exists(inbox[u], i)
    BY OthersAddNothing
  <2> QED
    BY <1>0, <1>1, <1>2, <1>4, <2>1, ChatOfType, CoveredStays
<1>6. ASSUME NEW a \in Actors, NEW u \in Users, at'[a][u].pc = "touch"
      PROVE  SeqOf(inbox'[u], Newest(job'[a]), at'[a][u].seq)
  <2>1. CASE at'[a][u].seq = 0
    BY <2>1 DEF SeqOf
  <2>2. CASE at'[a][u] = at[a][u]
    <3>1. at[a][u].pc = "touch" /\ job'[a] = job[a]
      BY <1>3, <1>6, <2>2
    <3>2. Newest(job[a]) \in Ids
      BY <3>1, WriterType DEF Newest
    <3>3. SeqOf(inbox[u], Newest(job[a]), at[a][u].seq)
      BY <3>1 DEF Converging, CarriesSeq
    <3> QED
      BY <1>1, <2>2, <3>1, <3>2, <3>3, SeqOfStays
  <2> QED
    BY <1>2, <2>1, <2>2 DEF CursorsReset
<1>7. \A u \in Users : NamesItsSeq(inbox'[u])
  BY <1>1, <1>2, NamesStay DEF Converging
<1>8. \A a \in Actors, u \in Users : CarriesSeq(a, u)'
  BY <1>6 DEF CarriesSeq, Newest
<1> QED
  BY <1>5, <1>7, <1>8 DEF Converging, NamesItsSeq, SeqOf

\* Insert reports the seq of the row that it adds.
LEMMA InsertedSeqOf ==
  ASSUME NEW box \in Box, NEW i \in Ids, NEW kind \in Kinds \ {"none"}
  PROVE  /\ SeqOf(Insert(box, i, kind), i, InsertedSeq(box, i))
         /\ ~Exists(box, i) => /\ InsertedSeq(box, i) = box.max + 1
                               /\ Insert(box, i, kind).rows[i].seq = box.max + 1
         /\ Insert(box, i, kind).conv = box.conv
<1>1. CASE Exists(box, i)
  BY <1>1 DEF Insert, InsertedSeq, SeqOf
<1>2. CASE ~Exists(box, i)
  <2> DEFINE row == [seq |-> box.max + 1, kind |-> kind, deleted |-> FALSE]
             new == Insert(box, i, kind)
  <2>1. new.rows = [box.rows EXCEPT ![i] = row] /\ new.conv = box.conv
    BY <1>2 DEF Insert, Box
  <2>2. new.rows[i] = row
    BY <2>1 DEF Box
  <2>3. new.rows[i].seq = box.max + 1 /\ new.rows[i].kind = kind
    BY <2>2
  <2>4. InsertedSeq(box, i) = box.max + 1
    BY <1>2 DEF InsertedSeq
  <2> HIDE DEF row
  <2>5. Exists(new, i)
    BY <2>3 DEF Exists
  <2> QED
    BY <2>1, <2>3, <2>4, <2>5 DEF SeqOf
<1> QED
  BY <1>1, <1>2

\* What must hold of a write for Converging to stay: it adds row m at most, which
\* the writer goes on to push, and other rows that it pushed, or that had to wait
\* for m, are caught or still pushed by it.
LEMMA MoveConverges ==
  ASSUME TypeOK, inbox' \in [Users -> Box], Converging, NEW a \in Actors, NEW u \in Users,
         NEW new \in Box, NEW pc, NEW seq, NEW m \in Ids,
         \A b \in Actors, v \in Users : at[b][v].pc # "idle" => Newest(job[b]) \in Ids,
         inbox' = [inbox EXCEPT ![u] = new], MoveTo(a, u, pc, seq),
         OnlyAdds(inbox[u], new, m), SeqsKept(inbox[u], new), ConvsGrow(inbox[u], new),
         NamesItsSeq(new),
         \A b \in Actors, v \in Users : at[b][v].pc = "event" => job[b].event \in Ids,
         pc = "touch" => SeqOf(new, Newest(job[a]), seq),
         ~Exists(inbox[u], m) /\ Exists(new, m) => Pushes(a, u, m)',
         \A b \in Actors, i \in Ids :
           /\ Exists(inbox[u], i) /\ Live(new, i) /\ Pushes(b, u, i)
           /\ \/ b = a
              \/ at[b][u].pc = "event" /\ job[b].event = m /\ Exists(new, m)
           => Caught(u, i)' \/ Pushes(a, u, i)'
  PROVE  Converging'
<1>1. \A v \in Users : inbox'[v] = IF v = u THEN new ELSE inbox[v]
  BY DEF TypeOK
<1>2. job' = job
  BY DEF MoveTo
<1>3. /\ \A b \in Actors, v \in Users : (b # a \/ v # u) => at'[b][v] = at[b][v]
      /\ at'[a][u].pc = pc
      /\ at'[a][u].seq = seq
  <2> DEFINE cursor == [pc |-> pc, seq |-> seq]
  <2>1. \A b \in Actors, v \in Users :
          at'[b][v] = IF b = a /\ v = u THEN cursor ELSE at[b][v]
    BY MoveToCursors
  <2>2. cursor.pc = pc /\ cursor.seq = seq
    OBVIOUS
  <2> HIDE DEF cursor
  <2> QED
    BY <2>1, <2>2
<1>4. \A v \in Users : SeqsKept(inbox[v], inbox'[v]) /\ ConvsGrow(inbox[v], inbox'[v])
  <2>1. \A v \in Users : inbox[v] \in Box /\ SeqsKept(inbox[v], inbox[v])
    BY DEF TypeOK, SeqsKept
  <2> QED
    BY <1>1, <2>1, MessagesKeepConvs
<1>5. ASSUME NEW v \in Users, NEW i \in Ids, ~Exists(inbox[v], i), Exists(inbox'[v], i)
      PROVE  \E b \in Actors : Pushes(b, v, i)'
  <2>1. v = u /\ i = m
    BY <1>1, <1>5 DEF OnlyAdds
  <2> QED
    BY <1>1, <1>5, <2>1
<1>6. ASSUME NEW b \in Actors, NEW v \in Users, NEW i \in Ids,
             Exists(inbox[v], i), Live(inbox'[v], i), Pushes(b, v, i)
      PROVE  Caught(v, i)' \/ \E c \in Actors : Pushes(c, v, i)'
  <2>1. inbox'[v].rows[i].seq = inbox[v].rows[i].seq
    BY <1>4, <1>6 DEF SeqsKept
  <2>2. CASE v # u
    <3>1. inbox'[v] = inbox[v] /\ at'[b][v] = at[b][v]
      BY <1>1, <1>3, <2>2
    <3> QED
      BY <1>2, <1>6, <3>1 DEF Pushes, HasRow
  <2>3. CASE v = u /\ b = a
    BY <1>1, <1>6, <2>3
  <2>4. CASE v = u /\ b # a /\ at[b][u].pc = "touch"
    <3>1. at'[b][v] = at[b][v]
      BY <1>3, <2>4
    <3> QED
      BY <1>2, <1>6, <2>1, <2>4, <3>1 DEF Pushes
  <2>5. CASE v = u /\ b # a /\ at[b][u].pc = "event"
    <3>1. at'[b][v] = at[b][v] /\ inbox'[v] = new
      BY <1>1, <1>3, <2>5
    <3>2. CASE job[b].event = m /\ Exists(new, m)
      BY <1>1, <1>6, <2>5, <3>2
    <3>3. CASE ~(job[b].event = m /\ Exists(new, m))
      <4>1. Exists(new, job[b].event) => Exists(inbox[u], job[b].event)
        BY <2>5, <3>3 DEF OnlyAdds
      <4> QED
        BY <1>2, <1>6, <2>5, <3>1, <4>1 DEF Pushes, HasRow, Exists
    <3> QED
      BY <3>2, <3>3
  <2> QED
    BY <1>6, <2>2, <2>3, <2>4, <2>5 DEF Pushes
<1>7. \A v \in Users, i \in Ids : Covered(v, i)'
  BY <1>4, <1>5, <1>6, ChatOfType, CoveredStays DEF TypeOK
<1>8. ASSUME NEW b \in Actors, NEW v \in Users, at'[b][v].pc = "touch"
      PROVE  SeqOf(inbox'[v], Newest(job[b]), at'[b][v].seq)
  <2>1. CASE b = a /\ v = u
    BY <1>1, <1>3, <1>8, <2>1
  <2>2. CASE b # a \/ v # u
    <3>1. at'[b][v] = at[b][v] /\ at[b][v].pc = "touch"
      BY <1>3, <1>8, <2>2
    <3>2. SeqOf(inbox[v], Newest(job[b]), at[b][v].seq) /\ Newest(job[b]) \in Ids
      BY <3>1 DEF Converging, CarriesSeq
    <3> QED
      BY <1>4, <3>1, <3>2, SeqOfStays
  <2> QED
    BY <2>1, <2>2
<1>9. \A b \in Actors, v \in Users : CarriesSeq(b, v)'
  BY <1>2, <1>8 DEF CarriesSeq, Newest
<1>10. \A v \in Users : NamesItsSeq(inbox'[v])
  BY <1>1 DEF Converging
<1> QED
  BY <1>7, <1>9, <1>10 DEF Converging, NamesItsSeq, SeqOf

\* A write keeps Converging: a duplicate leaves the pushing to whoever inserted
\* the row, and the event that a placeholder waits for has a greater seq.
LEMMA WriteConverges ==
  ASSUME WellFormed, KindsOK, SeqsDistinct, Traced, faults = 0, ConversationsOK, Converging,
         \A v \in Users : Follows(inbox[v]), [Next]_vars,
         NEW a \in Actors, NEW u \in Users, WriteInbox(a, u)
  PROVE  Converging'
<1> DEFINE j == job[a]
           box == inbox[u]
<1>0. /\ TypeOK
      /\ inbox' \in [Users -> Box]
      /\ box \in Box
      /\ ConvBounded(box)
      /\ box.max \in Nat
      /\ \A i \in Ids : box.rows[i].seq \in Nat /\ box.rows[i].seq <= box.max
      /\ at[a][u].seq \in Nat
      /\ at[a][u].seq <= box.max
  <2>1. TypeOK /\ box \in Box /\ inbox' \in [Users -> Box]
    BY StepKeeps DEF WellFormed, TypeOK
  <2>2. box.max \in Nat /\ \A i \in Ids : box.rows[i].seq \in Nat /\ box.rows[i].seq <= box.max
    BY <2>1, BoxFields DEF SeqsDistinct, Row
  <2>3. ConvBounded(box) /\ at[a][u].seq <= box.max
    BY DEF ConversationsOK, CursorsBounded
  <2>4. at[a][u].seq \in Nat
    BY <2>1 DEF TypeOK, Cursor
  <2> QED
    BY <2>1, <2>2, <2>3, <2>4
<1>1. at[a][u].pc # "idle"
  BY DEF WriteInbox, InsertRow, MaskRow, InsertEvent, TouchConversation
<1>2. ASSUME NEW b \in Actors, NEW v \in Users, at[b][v].pc # "idle"
      PROVE  /\ job[b].kind \in JobKinds /\ TaskOK(job[b]) /\ Named(job[b])
             /\ job[b].msg \in Ids
             /\ Newest(job[b]) \in Ids
             /\ Reached(job[b], inbox[v], at[b][v].pc)
             /\ at[b][v].pc \in {"mask", "event"} =>
                  /\ job[b].kind = "recall"
                  /\ job[b].event \in Ids
                  /\ job[b].event \in Recalls
                  /\ RecallOf[job[b].event] = job[b].msg
  <2>1. /\ job[b].kind \in JobKinds /\ TaskOK(job[b])
        /\ job[b].msg \in Ids
        /\ job[b].kind = "recall" => job[b].event \in Ids
        /\ JobNamed(job[b], submitted)
        /\ JobOK(job[b], at[b])
        /\ Reached(job[b], inbox[v], at[b][v].pc)
    BY <1>2, WriterType, ActorFacts DEF Progress
  <2> QED
    BY <2>1 DEF JobNamed, Named, Newest, JobOK, TaskOK
<1>3. /\ j.kind \in JobKinds /\ TaskOK(j) /\ Named(j)
      /\ j.msg \in Ids
      /\ Newest(j) \in Ids
      /\ PeerOf(j, u) = ChatOf(u, j.msg)
      /\ ChatOf(u, Newest(j)) = ChatOf(u, j.msg)
      /\ j.msg \notin Recalls
  <2>1. j.kind \in JobKinds /\ TaskOK(j) /\ Named(j) /\ j.msg \in Ids /\ Newest(j) \in Ids
    BY <1>1, <1>2
  <2>2. j.msg \notin Recalls
    BY <2>1, MessagingAssumption DEF TaskOK, JobKinds
  <2> QED
    BY <2>1, <2>2, PeerIsChat
<1>4. \A b \in Actors, v \in Users : at[b][v].pc # "idle" => Newest(job[b]) \in Ids
  BY <1>2
<1>5. \A b \in Actors, v \in Users : at[b][v].pc = "event" => job[b].event \in Ids
  BY <1>2
<1>6. \A new : inbox' = [inbox EXCEPT ![u] = new] => inbox'[u] = new /\ SeqsKept(box, new)
  BY <1>0, StepKeepsSeqs DEF TypeOK
<1>7. NamesItsSeq(box)
  BY DEF Converging
<1>8. ASSUME NEW pc, NEW seq, MoveTo(a, u, pc, seq)
      PROVE  job' = job /\ at'[a][u].pc = pc /\ at'[a][u].seq = seq
  <2> DEFINE cursor == [pc |-> pc, seq |-> seq]
  <2>1. at'[a][u] = cursor /\ job' = job
    BY <1>0, <1>8 DEF MoveTo, TypeOK
  <2> QED
    BY <2>1
<1> HIDE DEF box
<1>9. ASSUME InsertRow(a, u)
      PROVE  Converging'
  <2>m. PICK m \in Ids : m = j.msg
    BY <1>3
  <2> DEFINE kind == BodyOf(j.kind)
             new == Insert(box, j.msg, kind)
             seq == InsertedSeq(box, j.msg)
             pc == AfterInsert(j, u, seq)
  <2>1. kind \in Kinds \ {"none"}
    BY <1>3 DEF BodyOf, JobKinds, Kinds
  <2>2. /\ new \in Box
        /\ OnlyAdds(box, new, j.msg)
        /\ SeqOf(new, j.msg, seq)
        /\ ~Exists(box, j.msg) => seq = box.max + 1 /\ new.rows[j.msg].seq = seq
        /\ new.conv = box.conv
    BY <1>0, <1>3, <2>1, InsertType, InsertRows, InsertedSeqOf
  <2>3. /\ inbox' = [inbox EXCEPT ![u] = new]
        /\ MoveTo(a, u, pc, seq)
        /\ at[a][u].pc = "insert"
    BY <1>9 DEF InsertRow, box
  <2>4. pc = "touch" => Newest(j) = j.msg
    BY DEF AfterInsert, Newest
  <2>5. ~Exists(box, j.msg) => pc = IF j.kind = "recall" THEN "event" ELSE "touch"
    BY <1>0, <2>2 DEF AfterInsert
  <2> HIDE DEF kind, new, seq, pc
  <2>6. inbox'[u] = new /\ SeqsKept(box, new)
    BY <1>6, <2>3
  <2>7. ConvsGrow(box, new) /\ NamesItsSeq(new)
    BY <1>0, <1>7, <2>2, <2>6, MessagesKeepConvs, NamesStay
  <2>8. job' = job /\ at'[a][u].pc = pc /\ at'[a][u].seq = seq
    BY <1>8, <2>3
  <2>9. ASSUME ~Exists(box, m)
        PROVE  Pushes(a, u, m)'
    <3>1. CASE j.kind = "recall"
      <4>1. /\ j.event \in Recalls
            /\ j.event \in Ids
            /\ RecallOf[j.event] = j.msg
        BY <1>3, <3>1, NamesAreIds DEF TaskOK, Named
      <4>2. ~Exists(box, j.event)
        BY <2>m, <2>9, <4>1 DEF Follows, box
      <4>3. ~Exists(new, j.event)
        BY <1>3, <2>2, <4>1, <4>2 DEF OnlyAdds
      <4> QED
        BY <2>m, <2>5, <2>6, <2>8, <2>9, <3>1, <4>3 DEF Pushes, HasRow, Exists
    <3>2. CASE j.kind # "recall"
      BY <1>0, <2>m, <2>2, <2>5, <2>6, <2>8, <2>9, <3>2 DEF Pushes
    <3> QED
      BY <3>1, <3>2
  <2>10. ASSUME NEW b \in Actors, NEW i \in Ids, Exists(box, i), Live(new, i), Pushes(b, u, i),
                \/ b = a
                \/ at[b][u].pc = "event" /\ job[b].event = m /\ Exists(new, m)
         PROVE  Caught(u, i)' \/ Pushes(a, u, i)'
    BY <1>2, <1>3, <2>m, <2>3, <2>10 DEF Pushes
  <2>11. pc = "touch" => SeqOf(new, Newest(j), seq)
    BY <2>m, <2>2, <2>4
  <2>12. new \in Box /\ OnlyAdds(box, new, m)
    BY <2>m, <2>2
  <2>13. /\ OnlyAdds(inbox[u], new, m)
         /\ SeqsKept(inbox[u], new)
         /\ ConvsGrow(inbox[u], new)
         /\ ~Exists(inbox[u], m) /\ Exists(new, m) => Pushes(a, u, m)'
    BY <2>6, <2>7, <2>9, <2>12 DEF box
  <2>14. \A b \in Actors, i \in Ids :
           /\ Exists(inbox[u], i) /\ Live(new, i) /\ Pushes(b, u, i)
           /\ \/ b = a
              \/ at[b][u].pc = "event" /\ job[b].event = m /\ Exists(new, m)
           => Caught(u, i)' \/ Pushes(a, u, i)'
    BY <2>10 DEF box
  <2> QED
    BY <1>0, <1>4, <1>5, <2>3, <2>7, <2>11, <2>12, <2>13, <2>14, MoveConverges
<1>10. ASSUME MaskRow(a, u)
      PROVE  Converging'
  <2> DEFINE new == Mask(box, j.msg)
             pc == "event"
             seq == 0
  <2>1. /\ new \in Box
        /\ OnlyAdds(box, new, j.msg)
        /\ new.conv = box.conv
    BY <1>0, <1>3, MaskType, MaskRows DEF Mask, Box
  <2>2. /\ inbox' = [inbox EXCEPT ![u] = new]
        /\ MoveTo(a, u, pc, seq)
        /\ at[a][u].pc = "mask"
        /\ pc # "touch"
    BY <1>10 DEF MaskRow, box
  <2>3. Exists(box, j.msg)
    BY <1>2, <2>2 DEF Reached, box
  <2> HIDE DEF new, pc, seq
  <2>4. inbox'[u] = new /\ SeqsKept(box, new)
    BY <1>6, <2>2
  <2>5. ConvsGrow(box, new) /\ NamesItsSeq(new)
    BY <1>0, <1>7, <2>1, <2>4, MessagesKeepConvs, NamesStay
  <2>6. ASSUME NEW b \in Actors, NEW i \in Ids, Exists(box, i), Live(new, i), Pushes(b, u, i),
               \/ b = a
               \/ at[b][u].pc = "event" /\ job[b].event = j.msg /\ Exists(new, j.msg)
        PROVE  Caught(u, i)' \/ Pushes(a, u, i)'
    BY <1>2, <1>3, <2>2, <2>6 DEF Pushes
  <2> QED
    BY <1>0, <1>3, <1>4, <1>5, <2>1, <2>2, <2>3, <2>4, <2>5, <2>6, MoveConverges DEF box
<1>11. ASSUME InsertEvent(a, u)
      PROVE  Converging'
  <2>1. at[a][u].pc = "event"
    BY <1>11 DEF InsertEvent
  <2>2. j.kind = "recall" /\ j.event \in Ids /\ RecallOf[j.event] = j.msg /\ Newest(j) = j.event
    BY <1>2, <2>1 DEF Newest
  <2>e. PICK e \in Ids : e = j.event
    BY <2>2
  <2> DEFINE new == Insert(box, e, "event")
             seq == InsertedSeq(box, e)
             pc == IF seq = 0 THEN "done" ELSE "touch"
  <2>11. /\ inbox' = [inbox EXCEPT ![u] = new]
         /\ MoveTo(a, u, pc, seq)
    BY <1>11, <2>e DEF InsertEvent, box
  <2>3. /\ new \in Box
        /\ OnlyAdds(box, new, e)
        /\ SeqOf(new, e, seq)
        /\ ~Exists(box, e) => seq = box.max + 1 /\ new.rows[e].seq = seq
        /\ new.conv = box.conv
    <3>1. "event" \in Kinds \ {"none"}
      BY DEF Kinds
    <3> QED
      BY <1>0, <3>1, InsertType, InsertRows, InsertedSeqOf
  <2>4. ~Exists(box, e) => pc = "touch"
    BY <1>0, <2>3
  <2> HIDE DEF new, seq, pc
  <2>5. inbox'[u] = new /\ SeqsKept(box, new)
    BY <1>6, <2>11
  <2>6. ConvsGrow(box, new) /\ NamesItsSeq(new)
    BY <1>0, <1>7, <2>3, <2>5, MessagesKeepConvs, NamesStay
  <2>7. job' = job /\ at'[a][u].pc = pc /\ at'[a][u].seq = seq
    BY <1>8, <2>11
  <2>8. ASSUME ~Exists(box, e)
        PROVE  Pushes(a, u, e)'
    BY <1>0, <1>3, <2>2, <2>e, <2>3, <2>4, <2>5, <2>7, <2>8 DEF Pushes
  <2>9. ASSUME NEW b \in Actors, NEW i \in Ids, Exists(box, i), Live(new, i), Pushes(b, u, i),
               \/ b = a
               \/ at[b][u].pc = "event" /\ job[b].event = e /\ Exists(new, e)
        PROVE  Caught(u, i)' \/ Pushes(a, u, i)'
    <3>1. at[b][u].pc = "event" /\ job[b].event = e
      BY <2>1, <2>2, <2>e, <2>9
    <3>2. i = j.msg /\ ~Exists(box, e)
      BY <1>2, <2>2, <2>e, <2>9, <3>1 DEF Pushes, HasRow, Exists, box
    <3>3. new.rows[i].seq = box.rows[i].seq
      BY <2>5, <2>9 DEF SeqsKept
    <3>4. seq >= new.rows[i].seq
      BY <1>0, <2>3, <3>2, <3>3
    <3> QED
      BY <2>4, <2>5, <2>7, <3>2, <3>4 DEF Pushes
  <2>10. pc = "touch" => SeqOf(new, Newest(j), seq)
    BY <2>2, <2>e, <2>3
  <2>12. /\ OnlyAdds(inbox[u], new, e)
         /\ SeqsKept(inbox[u], new)
         /\ ConvsGrow(inbox[u], new)
         /\ ~Exists(inbox[u], e) /\ Exists(new, e) => Pushes(a, u, e)'
    BY <2>3, <2>5, <2>6, <2>8 DEF box
  <2>13. \A b \in Actors, i \in Ids :
           /\ Exists(inbox[u], i) /\ Live(new, i) /\ Pushes(b, u, i)
           /\ \/ b = a
              \/ at[b][u].pc = "event" /\ job[b].event = e /\ Exists(new, e)
           => Caught(u, i)' \/ Pushes(a, u, i)'
    BY <2>9 DEF box
  <2>14. new \in Box /\ NamesItsSeq(new)
    BY <2>3, <2>6
  <2> QED
    BY <1>0, <1>4, <1>5, <2>10, <2>11, <2>12, <2>13, <2>14, MoveConverges
<1>12. ASSUME TouchConversation(a, u)
      PROVE  Converging'
  <2> DEFINE seq == at[a][u].seq
             k == PeerOf(j, u)
             pc == "done"
             new == Upsert(box, k, seq, Newest(j), UnreadMode(j, u))
  <2>1. /\ inbox' = [inbox EXCEPT ![u] = new]
        /\ MoveTo(a, u, pc, seq)
        /\ at[a][u].pc = "touch"
        /\ pc # "touch"
    BY <1>12 DEF TouchConversation, box
  <2>2. k \in Chats /\ UnreadMode(j, u) \in UnreadModes
    BY <1>3, PeerOfType DEF UnreadMode, UnreadModes
  <2>3. SeqOf(box, Newest(j), seq)
    BY <2>1 DEF Converging, CarriesSeq, box
  <2>4. /\ new \in Box
        /\ OnlyAdds(box, new, Newest(j))
        /\ ConvsGrow(box, new)
        /\ NamesItsSeq(new)
        /\ new.conv[k].status # "none"
        /\ new.conv[k].seq >= seq
    BY <1>0, <1>3, <1>7, <2>2, <2>3, UpsertType, UpsertCounts, UpsertConverges
  <2>5. new.rows = box.rows
    BY <1>0 DEF Upsert, SetConversation, Box
  <2> HIDE DEF new, seq, pc
  <2>6. inbox'[u] = new /\ SeqsKept(box, new)
    BY <1>6, <2>1
  <2>7. ASSUME NEW b \in Actors, NEW i \in Ids, Exists(box, i), Live(new, i), Pushes(b, u, i),
               \/ b = a
               \/ at[b][u].pc = "event" /\ job[b].event = Newest(j) /\ Exists(new, Newest(j))
        PROVE  Caught(u, i)' \/ Pushes(a, u, i)'
    <3>1. b = a
      <4>1. ~(at[b][u].pc = "event" /\ job[b].event = Newest(j) /\ Exists(new, Newest(j)))
        BY <2>5, <2>7 DEF Pushes, HasRow, Exists, box
      <4> QED
        BY <2>7, <4>1
    <3>2. /\ ChatOf(u, i) = k
          /\ seq >= box.rows[i].seq
      BY <1>3, <2>1, <2>7, <3>1 DEF Pushes, box, seq
    <3>3. new.conv[k].seq >= new.rows[i].seq
      <4>1. new.conv[k].seq \in Nat /\ seq \in Nat /\ box.rows[i].seq \in Nat
        BY <1>0, <2>2, <2>4, BoxFields DEF seq
      <4> QED
        BY <2>4, <2>5, <3>2, <4>1
    <3> QED
      BY <2>4, <2>6, <3>2, <3>3 DEF Caught
  <2>8. Exists(new, Newest(j)) => Exists(box, Newest(j))
    BY <2>5 DEF Exists
  <2> QED
    BY <1>0, <1>3, <1>4, <1>5, <2>1, <2>4, <2>6, <2>7, <2>8, MoveConverges DEF box
<1> QED
  BY <1>9, <1>10, <1>11, <1>12 DEF WriteInbox

\* While faults = 0 and crashes = 0 no step has been a fault.
LEMMA CalmSteps ==
  ASSUME WellFormed, [Next]_vars, faults' = 0, crashes' = 0
  PROVE  faults = 0 /\ crashes = 0 /\ ~FaultStep
<1>1. faults \in Nat /\ crashes \in Nat
  BY DEF WellFormed, TypeOK
<1> QED
  BY <1>1, StepCounts

\* Converging holds as long as nothing fails and the process does not restart.
THEOREM AlwaysConverging == Spec => [](faults = 0 /\ crashes = 0 => Converging)
<1>1. Init => Converging
  <2> SUFFICES ASSUME Init PROVE Converging
    OBVIOUS
  <2>1. /\ \A u \in Users, i \in Ids : ~Exists(inbox[u], i)
        /\ \A u \in Users, k \in Chats : inbox[u].conv[k].status = "none"
    BY DEF Init, EmptyBox, NoRow, NoConversation, Exists
  <2>2. \A a \in Actors, u \in Users : at[a][u].pc # "touch"
    BY StartingType DEF Init
  <2> QED
    BY <2>1, <2>2 DEF Converging, Covered, Live, CarriesSeq, NamesItsSeq
<1>2. WellFormed /\ KindsOK /\ SeqsDistinct /\ Traced /\ Announcing /\ ConversationsOK
      /\ (faults = 0 /\ crashes = 0 => Converging) /\ [Next]_vars
      => (faults = 0 /\ crashes = 0 => Converging)' /\ KindsOK'
  <2> SUFFICES ASSUME WellFormed, KindsOK, SeqsDistinct, Traced, Announcing, ConversationsOK,
                      faults = 0 /\ crashes = 0 => Converging, [Next]_vars
               PROVE  (faults' = 0 /\ crashes' = 0 => Converging') /\ KindsOK'
    OBVIOUS
  <2>1. KindsOK'
    BY StepKeepsRows
  <2>2. ASSUME faults' = 0, crashes' = 0
        PROVE  Converging'
    <3>1. faults = 0 /\ ~FaultStep /\ Converging
      BY <2>2, CalmSteps
    <3>2. Exclusive /\ \A u \in Users : Follows(inbox[u])
      BY <3>1 DEF Announcing
    <3>3. CASE \E a \in Actors, u \in Users : WriteInbox(a, u)
      BY <3>1, <3>2, <3>3, WriteConverges
    <3>4. CASE ~ \E a \in Actors, u \in Users : WriteInbox(a, u)
      BY <3>1, <3>2, <3>4, OthersConverge
    <3> QED
      BY <3>3, <3>4
  <2> QED
    BY <2>1, <2>2
<1> QED
  BY <1>1, <1>2, AlwaysWellFormed, AlwaysTraced, SeqsAlwaysDistinct, AlwaysAnnouncing,
     ConversationsBounded, InitIsLifecycleInit, PTL DEF Spec

\* ConversationConverges: without errors and restarts, once everything has run,
\* the conversation row has come as far as every message of its chat and has the
\* seq of the message that it names.
THEOREM ConversationsConverge ==
  Spec => [](faults = 0 /\ crashes = 0 => ConversationConverges)
<1>1. WellFormed /\ Converging => ConversationConverges
  <2> SUFFICES ASSUME WellFormed, Converging, Quiet, NEW u \in Users, NEW i \in Ids,
                      Live(inbox[u], i)
               PROVE  LET conv == inbox[u].conv[ChatOf(u, i)]
                      IN /\ conv.status # "none"
                         /\ conv.seq >= inbox[u].rows[i].seq
                         /\ conv.status = "active" /\ conv.last = i
                            => conv.seq = inbox[u].rows[i].seq
    BY DEF ConversationConverges, Live, Exists
  <2> DEFINE conv == inbox[u].conv[ChatOf(u, i)]
             row == inbox[u].rows[i]
  <2>1. \A a \in Actors : at[a][u].pc = "idle"
    BY ActorType DEF WellFormed, Quiet, JobOK, NoJob
  <2>2. conv.status # "none" /\ conv.seq >= row.seq
    BY <2>1 DEF Converging, Covered, Pushes, Caught
  <2>3. ASSUME conv.status = "active", conv.last = i
        PROVE  conv.seq = row.seq
    <3>1. SeqOf(inbox[u], i, conv.seq)
      BY <2>3, ChatOfType DEF Converging, NamesItsSeq
    <3>2. conv.seq \in Nat /\ row.seq \in Nat
      BY ChatOfType, BoxFields DEF WellFormed, TypeOK, Row
    <3> QED
      BY <2>2, <3>1, <3>2 DEF SeqOf
  <2> QED
    BY <2>2, <2>3
<1> QED
  BY <1>1, AlwaysConverging, AlwaysWellFormed, PTL

-----------------------------------------------------------------------------
(* Recalls reach every reader *)

\* Nobody joins the group.
NobodyJoins == [][members' \subseteq members]_members

\* A recall goes to every member but the one who sent its message.
ForEveryone(j) == members \ {From[j.msg]} \subseteq j.targets

\* A recall that job j is about to submit is for everyone.
Aimed(j) == j.kind = "recall" /\ j.stage = "submit" => ForEveryone(j)

\* A recall of m is on its way, or has been given to the queue, or the peer of m
\* has been left no text.
Pursued(m) ==
  \/ \E a \in Actors : /\ job[a].kind = "recall"
                       /\ job[a].msg = m
                       /\ job[a].stage \in {"own", "peer", "submit"}
  \/ Direct(m) /\ Withdrawn(inbox[To[m]], m)
  \/ ~Direct(m) /\ \E t \in submitted : t.kind = "recall" /\ t.msg = m

\* While nobody joins, a message that its sender has recalled has no text in his
\* inbox, and somebody sees to the others'.
Recalling ==
  /\ \A a \in Actors : Aimed(job[a])
  /\ \A t \in submitted : t.kind = "recall" => ForEveryone(t)
  /\ \A m \in Messages : RecalledBySender(m) => Withdrawn(inbox[From[m]], m) /\ Pursued(m)

\* Whoever writes an inbox for a recall pursues it.
LEMMA WritersPursue ==
  ASSUME WellFormed, Traced, NEW a \in Actors, NEW u \in Users, at[a][u].pc # "idle",
         job[a].kind = "recall", NEW m, m = job[a].msg
  PROVE  Pursued(m)
<1>1. job[a].stage \in {"own", "peer", "fanout", "remove"} /\ JobNamed(job[a], submitted)
  BY ActorFacts DEF JobOK, Job
<1>2. CASE job[a].stage \in {"own", "peer"}
  BY <1>2 DEF Pursued
<1>3. CASE job[a].stage \in {"fanout", "remove"}
  <2>1. PICK t \in submitted : Executes(job[a], t)
    BY <1>1, <1>3 DEF JobNamed
  <2>2. t.kind = "recall" /\ t.msg = m /\ ~Direct(t.msg)
    BY <2>1 DEF Executes, Traced, TasksTraced, TaskNamed
  <2> QED
    BY <2>2 DEF Pursued
<1> QED
  BY <1>1, <1>2, <1>3

\* A request that recalls m goes on until it has withdrawn the copy of the peer
\* or submitted a task.
LEMMA RecallGoesOn ==
  ASSUME WellFormed, Traced, faults = 0, [Next]_vars, ~FaultStep, NEW a \in Actors,
         job[a].kind = "recall", job[a].stage \in {"own", "peer", "submit"},
         NEW m \in Messages, m = job[a].msg
  PROVE  Pursued(m)'
<1>0. /\ job \in [Actors -> Job]
      /\ job[a] \in Job
      /\ job[a] # NoJob
      /\ JobNamed(job[a], submitted)
      /\ Progress(job[a], at[a], inbox)
  BY ActorFacts DEF WellFormed, TypeOK, NoJob
<1>1. ASSUME job'[a] = job[a]
      PROVE  Pursued(m)'
  BY <1>1 DEF Pursued
<1>2. ASSUME NEW b \in Actors, NEW u \in Users, WriteInbox(b, u)
      PROVE  job' = job
  BY <1>2 DEF WriteInbox, InsertRow, MaskRow, InsertEvent, TouchConversation, MoveTo
<1>3. ASSUME NEW b \in Actors, b # a, NEW j, job' = [job EXCEPT ![b] = j]
      PROVE  Pursued(m)'
  BY <1>0, <1>1, <1>3
<1>4. ASSUME NEW h \in Requests, RequestStep(h), ~ \E u \in Users : WriteInbox(h, u)
      PROVE  Pursued(m)'
  <2>0. h \in Actors
    BY ActorKinds
  <2>1. \E j : job' = [job EXCEPT ![h] = j]
    BY <1>4
       DEF RequestStep, StartSend, StartRecall, AddGroupMember, StartRemove, Begin,
           RemoveMember, TurnToPeer, AnswerDirect, ListMembers, Submit
  <2>2. CASE h # a
    BY <1>3, <2>0, <2>1, <2>2
  <2>3. CASE h = a
    <3>1. TurnToPeer(a) \/ AnswerDirect(a) \/ ListMembers(a) \/ Submit(a)
      BY <1>0, <1>4, <2>3
         DEF RequestStep, StartSend, StartRecall, AddGroupMember, StartRemove, Begin,
             RemoveMember
    <3>2. ASSUME NEW S, NEW stage \in {"peer", "submit"},
                 job' = [job EXCEPT ![a] = [job[a] EXCEPT !.targets = S, !.stage = stage]]
          PROVE  Pursued(m)'
      <4>1. job'[a] = [job[a] EXCEPT !.targets = S, !.stage = stage]
        BY <1>0, <3>2
      <4>2. /\ job'[a].kind = "recall"
            /\ job'[a].msg = m
            /\ job'[a].stage = stage
        BY <1>0, <4>1 DEF Job
      <4> QED
        BY <4>2 DEF Pursued
    <3>3. CASE AnswerDirect(a)
      <4>1. /\ Direct(m)
            /\ To[m] \in Users
            /\ at[a][To[m]].pc = "done"
        BY <1>0, <3>3, MessagingAssumption DEF AnswerDirect, JobNamed, AllWritten, Direct
      <4>2. Withdrawn(inbox[To[m]], m) /\ inbox' = inbox
        BY <1>0, <3>3, <4>1 DEF Progress, Reached, AnswerDirect, store
      <4> QED
        BY <4>1, <4>2 DEF Pursued
    <3>4. CASE Submit(a)
      <4> DEFINE t == TaskOf(job[a])
      <4>1. submitted' = submitted \cup {t} /\ t.kind = "recall" /\ t.msg = m
        BY <3>4 DEF Submit, TaskOf
      <4>2. ~Direct(m)
        BY <1>0, <3>4 DEF Submit, JobNamed
      <4> HIDE DEF t
      <4> QED
        BY <4>1, <4>2 DEF Pursued
    <3>5. TurnToPeer(a) => Pursued(m)'
      <4> DEFINE S == {To[job[a].msg]}
      <4>1. TurnToPeer(a)
            => job' = [job EXCEPT ![a] = [job[a] EXCEPT !.targets = S, !.stage = "peer"]]
        BY DEF TurnToPeer
      <4> HIDE DEF S
      <4> QED
        BY <3>2, <4>1
    <3>6. ListMembers(a) => Pursued(m)'
      <4> DEFINE S == IF job[a].kind = "system" THEN members ELSE members \ {job[a].who}
      <4>1. ListMembers(a)
            => job' = [job EXCEPT ![a] = [job[a] EXCEPT !.targets = S, !.stage = "submit"]]
        BY DEF ListMembers
      <4> HIDE DEF S
      <4> QED
        BY <3>2, <4>1
    <3> QED
      BY <3>1, <3>3, <3>4, <3>5, <3>6
  <2> QED
    BY <2>2, <2>3
<1>5. ASSUME NEW w \in Workers, Take(w) \/ Notify(w) \/ RemoveTask(w)
      PROVE  Pursued(m)'
  <2>1. w \in Actors /\ w # a /\ \E j : job' = [job EXCEPT ![w] = j]
    BY <1>0, <1>5, ActorKinds DEF Take, Notify, RemoveTask
  <2> QED
    BY <1>3, <2>1
<1>6. CASE \E u \in Users : UserStep(u)
  BY <1>1, <1>6 DEF UserStep, DeleteMessage, RemoveConversation, ReadConversation, Edit
<1>7. CASE UNCHANGED vars
  BY <1>1, <1>7 DEF vars
<1>8. CASE \E b \in Actors, u \in Users : WriteInbox(b, u)
  BY <1>1, <1>2, <1>8
<1> QED
  BY <1>4, <1>5, <1>6, <1>7, <1>8, ActorKinds DEF Next, WorkerStep

\* A recall that is pursued stays so.
LEMMA PursuitStays ==
  ASSUME WellFormed, KindsOK, Traced, faults = 0, [Next]_vars, ~FaultStep,
         NEW m \in Messages, Pursued(m)
  PROVE  Pursued(m)'
<1>1. CASE Direct(m) /\ Withdrawn(inbox[To[m]], m)
  <2>1. To[m] \in Users /\ m \in Ids
    BY <1>1, MessagingAssumption DEF Direct
  <2> QED
    BY <1>1, <2>1, StepKeepsRows DEF RowsKept, Pursued
<1>2. CASE ~Direct(m) /\ \E t \in submitted : t.kind = "recall" /\ t.msg = m
  BY <1>2, StepCounts DEF Pursued
<1> QED
  BY <1>1, <1>2, RecallGoesOn DEF Pursued

\* A message is recalled by its sender when a goroutine withdraws its text from
\* his inbox, or writes the event after that.
LEMMA RecallsBegin ==
  ASSUME WellFormed, KindsOK, Traced, faults = 0, faults' = 0, [Next]_vars, ~FaultStep,
         NEW m \in Messages, ~RecalledBySender(m), RecalledBySender(m)'
  PROVE  Withdrawn(inbox'[From[m]], m) /\ Pursued(m)'
<1> DEFINE u == From[m]
<1>0. /\ u \in Users
      /\ m \in Ids
      /\ RowsKept(inbox, inbox')
      /\ inbox \in [Users -> Box]
  BY MessagingAssumption, StepKeepsRows DEF WellFormed, TypeOK
<1>1. CASE Shows(u, m, "placeholder")'
  <2>1. ~Shows(u, m, "placeholder")
    BY DEF RecalledBySender
  <2>2. PICK a \in Actors, v \in Users : WriteInbox(a, v)
    BY <1>0, <1>1, <2>1, OthersAddNothing
  <2>3. job'[a].msg = m /\ at'[a][u].pc = "event"
    BY <1>0, <1>1, <2>1, <2>2, PlaceholderHasWriter
  <2>4. WellFormed' /\ Traced'
    BY StepKeeps, StepTraced
  <2>5. JobOK(job'[a], at'[a]) /\ Progress(job'[a], at'[a], inbox')
    BY <2>4 DEF WellFormed, JobsOK, Traced, Errorless, ActorsProgress
  <2>6. job'[a].kind = "recall" /\ Withdrawn(inbox'[u], m)
    BY <1>0, <2>3, <2>5 DEF JobOK, Progress, Reached
  <2>7. PICK pc, seq : MoveTo(a, v, pc, seq)
    BY <2>2 DEF WriteInbox, InsertRow, MaskRow, InsertEvent, TouchConversation
  <2>8. job' = job
    BY <2>7 DEF MoveTo
  <2>9. at[a][v].pc # "idle"
    BY <2>2 DEF WriteInbox, InsertRow, MaskRow, InsertEvent, TouchConversation
  <2>10. Pursued(m)
    BY <2>3, <2>6, <2>8, <2>9, WritersPursue
  <2> QED
    BY <2>6, <2>10, PursuitStays
<1>2. ASSUME NEW e \in Recalls, RecallOf[e] = m, HasRow(u, e)'
      PROVE  Withdrawn(inbox'[u], m) /\ Pursued(m)'
  <2>1. ~Exists(inbox[u], e) /\ Exists(inbox'[u], e) /\ e \in Ids
    BY <1>2, NamesAreIds DEF RecalledBySender, HasRow, Exists
  <2>2. PICK a \in Actors, v \in Users : WriteInbox(a, v)
    BY <1>0, <2>1, OthersAddNothing
  <2>3. v = u
    <3>1. \E new : inbox' = [inbox EXCEPT ![v] = new]
      BY <2>2 DEF WriteInbox, InsertRow, MaskRow, InsertEvent, TouchConversation
    <3> QED
      BY <1>0, <2>1, <3>1
  <2>4. at[a][u].pc = "event" /\ job[a].event = e
    BY <1>0, <2>1, <2>2, <2>3, EventHasWriter
  <2>5. /\ JobOK(job[a], at[a])
        /\ JobNamed(job[a], submitted)
        /\ Progress(job[a], at[a], inbox)
    BY ActorFacts
  <2>6. /\ job[a].kind = "recall"
        /\ job[a].msg = m
        /\ Withdrawn(inbox[u], m)
    BY <1>0, <1>2, <2>4, <2>5 DEF JobOK, JobNamed, Named, Progress, Reached
  <2>7. Pursued(m)
    BY <1>0, <2>4, <2>6, WritersPursue
  <2> QED
    BY <1>0, <2>6, <2>7, PursuitStays DEF RowsKept
<1> QED
  BY <1>1, <1>2 DEF RecalledBySender

\* While nobody joins, a recall stays aimed at all members.
LEMMA RecallsAreAimed ==
  ASSUME WellFormed, Traced, Recalling, members' \subseteq members, [Next]_vars, ~FaultStep
  PROVE  /\ \A a \in Actors : Aimed(job[a])'
         /\ \A t \in submitted' : t.kind = "recall" => ForEveryone(t)'
<1> DEFINE Goal == /\ \A a \in Actors : Aimed(job[a])'
                   /\ \A t \in submitted' : t.kind = "recall" => ForEveryone(t)'
<1>0. /\ job \in [Actors -> Job]
      /\ \A a \in Actors : Aimed(job[a])
      /\ \A t \in submitted : t.kind = "recall" => ForEveryone(t)
  BY DEF WellFormed, TypeOK, Recalling
<1>1. /\ \A a \in Actors : job'[a] = job[a] => Aimed(job[a])'
      /\ \A t \in submitted : t.kind = "recall" => ForEveryone(t)'
  BY <1>0 DEF Aimed, ForEveryone
<1>2. ASSUME submitted' = submitted, job' = job
      PROVE  Goal
  BY <1>1, <1>2
<1>3. ASSUME submitted' = submitted, NEW b \in Actors, NEW j, job' = [job EXCEPT ![b] = j],
             j.kind = "recall" => j.stage # "submit"
      PROVE  Goal
  <2>1. job'[b] = j /\ \A a \in Actors \ {b} : job'[a] = job[a]
    BY <1>0, <1>3
  <2>2. Aimed(job[b])'
    BY <1>3, <2>1 DEF Aimed
  <2> QED
    BY <1>1, <1>3, <2>1, <2>2
<1>4. NoJob.kind # "recall"
  BY DEF NoJob
<1>5. ASSUME NEW a \in Actors, NEW u \in Users, WriteInbox(a, u)
      PROVE  Goal
  BY <1>2, <1>5
     DEF WriteInbox, InsertRow, MaskRow, InsertEvent, TouchConversation, MoveTo, history
<1>6. ASSUME NEW h \in Requests, RequestStep(h)
      PROVE  Goal
  <2>0. h \in Actors /\ job[h] \in Job /\ Aimed(job[h])
    BY <1>0, ActorKinds
  <2>1. CASE \E m \in Messages : StartSend(h, m)
    <3>1. PICK m \in Messages : StartSend(h, m)
      BY <2>1
    <3> DEFINE j == Request("send", From[m], m, NoId, {From[m]}, "own")
    <3>2. job' = [job EXCEPT ![h] = j] /\ submitted' = submitted
      BY <3>1 DEF StartSend, Begin, history
    <3>3. j.kind # "recall"
      BY DEF Request
    <3> HIDE DEF j
    <3> QED
      BY <1>3, <2>0, <3>2, <3>3
  <2>2. CASE \E e \in Recalls : StartRecall(h, e)
    <3>1. PICK e \in Recalls : StartRecall(h, e)
      BY <2>2
    <3> DEFINE m == RecallOf[e]
               j == Request("recall", From[m], m, e, {From[m]}, "own")
    <3>2. job' = [job EXCEPT ![h] = j] /\ submitted' = submitted
      BY <3>1 DEF StartRecall, Begin, history
    <3>3. j.stage # "submit"
      BY DEF Request
    <3> HIDE DEF m, j
    <3> QED
      BY <1>3, <2>0, <3>2, <3>3
  <2>3. CASE \E s \in Systems, u \in Users : AddGroupMember(h, s, u) \/ StartRemove(h, s, u)
    <3>1. PICK s \in Systems, u \in Users : AddGroupMember(h, s, u) \/ StartRemove(h, s, u)
      BY <2>3
    <3>2. PICK S, stage : job' = [job EXCEPT ![h] = Request("system", u, s, NoId, S, stage)]
      BY <3>1 DEF AddGroupMember, StartRemove, Begin
    <3> DEFINE j == Request("system", u, s, NoId, S, stage)
    <3>3. job' = [job EXCEPT ![h] = j] /\ submitted' = submitted
      BY <3>1, <3>2 DEF AddGroupMember, StartRemove, Begin, history
    <3>4. j.kind # "recall"
      BY DEF Request
    <3> HIDE DEF j
    <3> QED
      BY <1>3, <2>0, <3>3, <3>4
  <2>4. CASE RemoveMember(h)
    <3> DEFINE j == IF job[h].who \in members THEN [job[h] EXCEPT !.stage = "submit"] ELSE NoJob
    <3>1. job' = [job EXCEPT ![h] = j] /\ submitted' = submitted /\ job[h].stage = "drop"
      BY <2>4 DEF RemoveMember, history
    <3>2. job[h].kind = "system"
      BY <2>0, <3>1, ActorFacts DEF JobNamed
    <3>3. j.kind # "recall"
      BY <1>4, <2>0, <3>2 DEF Job
    <3> HIDE DEF j
    <3> QED
      BY <1>3, <2>0, <3>1, <3>3
  <2>5. CASE TurnToPeer(h)
    <3> DEFINE S == {To[job[h].msg]}
               j == [job[h] EXCEPT !.targets = S, !.stage = "peer"]
    <3>1. job' = [job EXCEPT ![h] = j] /\ submitted' = submitted
      BY <2>5 DEF TurnToPeer, history
    <3>2. j.stage = "peer"
      BY <2>0 DEF Job
    <3> HIDE DEF j
    <3> QED
      BY <1>3, <2>0, <3>1, <3>2
  <2>6. CASE AnswerDirect(h)
    BY <1>3, <1>4, <2>0, <2>6 DEF AnswerDirect
  <2>7. CASE ListMembers(h)
    <3> DEFINE S == IF job[h].kind = "system" THEN members ELSE members \ {job[h].who}
               j == [job[h] EXCEPT !.targets = S, !.stage = "submit"]
    <3>1. job' = [job EXCEPT ![h] = j] /\ submitted' = submitted
      BY <2>7 DEF ListMembers, history
    <3>2. j.stage = "submit" /\ j.kind = job[h].kind /\ j.msg = job[h].msg /\ j.targets = S
      BY <2>0 DEF Job
    <3>3. job[h].kind = "recall" => job[h].who = From[job[h].msg]
      BY <2>0, ActorFacts DEF JobNamed, Named
    <3>4. j.kind = "recall" => members \ {From[j.msg]} \subseteq j.targets
      BY <3>2, <3>3
    <3> HIDE DEF j
    <3>5. job'[h] = j /\ \A a \in Actors \ {h} : job'[a] = job[a]
      BY <1>0, <2>0, <3>1
    <3>6. Aimed(job[h])'
      BY <3>4, <3>5 DEF Aimed, ForEveryone
    <3> QED
      BY <1>1, <3>1, <3>5, <3>6
  <2>8. CASE Submit(h)
    <3>0. PICK t : t = TaskOf(job[h])
      OBVIOUS
    <3>1. /\ submitted' = submitted \cup {t}
          /\ job' = [job EXCEPT ![h] = NoJob]
          /\ t.kind = job[h].kind
          /\ t.msg = job[h].msg
          /\ t.targets = job[h].targets
          /\ job[h].stage = "submit"
      BY <2>8, <3>0 DEF Submit, TaskOf
    <3>2. t.kind = "recall" => ForEveryone(t)'
      BY <2>0, <3>1 DEF Aimed, ForEveryone
    <3>3. job'[h] = NoJob /\ \A a \in Actors \ {h} : job'[a] = job[a]
      BY <1>0, <2>0, <3>1
    <3>4. Aimed(job[h])'
      BY <1>4, <3>3 DEF Aimed
    <3> QED
      BY <1>1, <3>1, <3>2, <3>3, <3>4
  <2> QED
    BY <1>5, <1>6, <2>0, <2>1, <2>2, <2>3, <2>4, <2>5, <2>6, <2>7, <2>8 DEF RequestStep
<1>7. ASSUME NEW w \in Workers, WorkerStep(w)
      PROVE  Goal
  <2>0. w \in Actors /\ job[w] \in Job
    BY <1>0, ActorKinds
  <2>1. CASE Take(w)
    <3>1. PICK t \in channel : job' = [job EXCEPT ![w] = JobOf(t)]
      BY <2>1 DEF Take
    <3>2. JobOf(t).stage # "submit"
      BY DEF JobOf
    <3> QED
      BY <1>3, <2>0, <2>1, <3>1, <3>2 DEF Take, history
  <2>2. CASE Notify(w)
    <3> DEFINE j == [job[w] EXCEPT !.stage = "remove"]
    <3>1. job' = [job EXCEPT ![w] = j] /\ submitted' = submitted
      BY <2>2 DEF Notify, history
    <3>2. j.stage = "remove"
      BY <2>0 DEF Job
    <3> HIDE DEF j
    <3> QED
      BY <1>3, <2>0, <3>1, <3>2
  <2>3. CASE RemoveTask(w)
    BY <1>3, <1>4, <2>0, <2>3 DEF RemoveTask, history
  <2> QED
    BY <1>5, <1>7, <2>0, <2>1, <2>2, <2>3 DEF WorkerStep
<1>8. CASE \E u \in Users : UserStep(u)
  BY <1>2, <1>8 DEF UserStep, DeleteMessage, RemoveConversation, ReadConversation, Edit, history
<1>9. CASE UNCHANGED vars
  BY <1>2, <1>9 DEF vars, history
<1> QED
  BY <1>6, <1>7, <1>8, <1>9 DEF Next

\* Recalling holds as long as nothing fails, the process does not restart and
\* nobody joins the group.
THEOREM AlwaysRecalling ==
  Spec /\ NobodyJoins => [](faults = 0 /\ crashes = 0 => Recalling)
<1>1. Init => Recalling
  <2> SUFFICES ASSUME Init PROVE Recalling
    OBVIOUS
  <2>1. \A a \in Actors : Aimed(job[a])
    BY DEF Init, Aimed, NoJob
  <2>2. \A m \in Messages : ~RecalledBySender(m)
    <3>1. \A u \in Users, i \in Ids : inbox[u].rows[i].kind = "none"
      BY DEF Init, EmptyBox, NoRow
    <3> QED
      BY <3>1, NamesAreIds, MessagingAssumption DEF RecalledBySender, Shows, HasRow
  <2> QED
    BY <2>1, <2>2 DEF Recalling, Init
<1>2. WellFormed /\ KindsOK /\ Traced
      /\ (faults = 0 /\ crashes = 0 => Recalling)
      /\ [Next]_vars /\ [members' \subseteq members]_members
      => (faults = 0 /\ crashes = 0 => Recalling)' /\ KindsOK'
  <2> SUFFICES ASSUME WellFormed, KindsOK, Traced,
                      faults = 0 /\ crashes = 0 => Recalling, [Next]_vars,
                      [members' \subseteq members]_members
               PROVE  (faults' = 0 /\ crashes' = 0 => Recalling') /\ KindsOK'
    OBVIOUS
  <2>1. KindsOK'
    BY StepKeepsRows
  <2>2. ASSUME faults' = 0, crashes' = 0
        PROVE  Recalling'
    <3>1. faults = 0 /\ ~FaultStep /\ Recalling
      BY <2>2, CalmSteps
    <3>2. /\ \A a \in Actors : Aimed(job[a])'
          /\ \A t \in submitted' : t.kind = "recall" => ForEveryone(t)'
      BY <3>1, RecallsAreAimed
    <3>3. ASSUME NEW m \in Messages, RecalledBySender(m)'
          PROVE  Withdrawn(inbox'[From[m]], m) /\ Pursued(m)'
      <4>1. CASE ~RecalledBySender(m)
        BY <2>2, <3>1, <3>3, <4>1, RecallsBegin
      <4>2. CASE RecalledBySender(m)
        <5>1. Withdrawn(inbox[From[m]], m) /\ Pursued(m)
          BY <3>1, <4>2 DEF Recalling
        <5>2. From[m] \in Users /\ m \in Ids
          BY MessagingAssumption
        <5>3. Withdrawn(inbox'[From[m]], m)
          BY <5>1, <5>2, StepKeepsRows DEF RowsKept
        <5> QED
          BY <3>1, <5>1, <5>3, PursuitStays
      <4> QED
        BY <4>1, <4>2
    <3> QED
      BY <3>2, <3>3 DEF Recalling
  <2> QED
    BY <2>1, <2>2
<1> QED
  BY <1>1, <1>2, AlwaysWellFormed, AlwaysTraced, InitIsLifecycleInit,
     PTL DEF Spec, NobodyJoins

\* RecallConverges: without errors and restarts, and while nobody joins the
\* group, nobody in the chat can read a message that its sender has recalled
\* once everything has run, whatever the order of the send and the recall.
THEOREM RecallsConverge ==
  Spec /\ NobodyJoins => [](faults = 0 /\ crashes = 0 => RecallConverges)
<1>1. WellFormed /\ Traced /\ faults = 0 /\ Recalling => RecallConverges
  <2> SUFFICES ASSUME WellFormed, Traced, faults = 0, Recalling, Quiet,
                      NEW m \in Messages, RecalledBySender(m), NEW u \in Readers(m)
               PROVE  ~Shows(u, m, "original")
    BY DEF RecallConverges
  <2>1. Withdrawn(inbox[From[m]], m) /\ Pursued(m)
    BY DEF Recalling
  <2>2. Withdrawn(inbox[u], m)
    <3>1. CASE u = From[m]
      BY <2>1, <3>1
    <3>2. CASE u # From[m] /\ Direct(m)
      BY <2>1, <3>2 DEF Pursued, Quiet, NoJob, Readers
    <3>3. CASE u # From[m] /\ ~Direct(m)
      <4>1. PICK t \in submitted : t.kind = "recall" /\ t.msg = m
        BY <2>1, <3>3 DEF Pursued, Quiet, NoJob
      <4>2. u \in t.targets
        BY <3>3, <4>1 DEF Recalling, ForEveryone, Readers
      <4>3. Spread(t, inbox)
        BY DEF Traced, Errorless, Quiet
      <4> QED
        BY <4>1, <4>2, <4>3 DEF Spread, Reached
    <3> QED
      BY <3>1, <3>2, <3>3
  <2> QED
    BY <2>2 DEF Withdrawn, Shows, Live, Exists
<1> QED
  BY <1>1, AlwaysRecalling, AlwaysWellFormed, AlwaysTraced, PTL
=============================================================================
