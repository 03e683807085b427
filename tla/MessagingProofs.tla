--------------------------- MODULE MessagingProofs ---------------------------
(***************************************************************************)
(* Proofs about Messaging, for any number of users, messages, requests,    *)
(* workers and restarts.                                                   *)
(*                                                                         *)
(* The inductive invariant is WellFormed: the types, and what the stage of *)
(* an actor says about its job, without which its next write could not be  *)
(* typed.  From it every step is shown to be at most one transaction of    *)
(* Inbox on one inbox (OneTransaction), and the properties of the inboxes  *)
(* follow from the lemmas about its transactions.                          *)
(***************************************************************************)
EXTENDS MessagingProperties, TLAPS

-----------------------------------------------------------------------------
(* What each transaction of Inbox returns: its type, the numbering of the rows  *)
(* and the seq of the conversation rows.  The proofs below cite these lemmas and *)
(* never expand the operators again.                                            *)


\* The six transactions that change a box.  M is the set of messages that can
\* be recalled: only they are masked, and they are inserted as themselves or as
\* their placeholder.
Rewrites(old, new, M) ==
  \/ \E i \in Ids, kind \in Kinds \ {"none"} :
       /\ i \in M => kind \in {"original", "placeholder"}
       /\ new = Insert(old, i, kind)
  \/ \E i \in M : new = Mask(old, i)
  \/ \E i \in Ids : new = DeleteByMsgID(old, i)
  \/ \E k \in Chats, seq \in Nat, i \in Ids, mode \in UnreadModes :
       new = Upsert(old, k, seq, i, mode)
  \/ \E k \in Chats : new = ClearUnread(old, k)
  \/ \E k \in Chats : new = DeleteConversation(old, k)

\* The numbering of one inbox: no seq above max, no seq given out twice.
WellNumbered(box) ==
  /\ \A i \in Ids : box.rows[i].seq <= box.max
  /\ \A i, j \in Ids :
       i # j /\ Exists(box, i) /\ Exists(box, j) => box.rows[i].seq # box.rows[j].seq

-----------------------------------------------------------------------------
(* Types *)

\* An inbox without rows is a box.
LEMMA EmptyBoxType == EmptyBox \in Box
BY DEF EmptyBox, Box, NoRow, Row, Kinds, NoConversation, Conversation

\* The seq that MessageStore.Insert reports is a natural number.
LEMMA InsertedSeqType ==
  ASSUME NEW box \in Box, NEW id \in Ids
  PROVE  InsertedSeq(box, id) \in Nat
BY DEF InsertedSeq, Box

\* Replacing the message rows of a box, and its last seq, leaves a box.
LEMMA SetRowsType ==
  ASSUME NEW box \in Box, NEW rows \in [Ids -> Row], NEW max \in Nat
  PROVE  /\ [box EXCEPT !.rows = rows] \in Box
         /\ [box EXCEPT !.max = max, !.rows = rows] \in Box
BY DEF Box

\* MessageStore.Insert leaves a box.
LEMMA InsertType ==
  ASSUME NEW box \in Box, NEW id \in Ids, NEW kind \in Kinds
  PROVE  Insert(box, id, kind) \in Box
<1> DEFINE row == [seq |-> box.max + 1, kind |-> kind, deleted |-> FALSE]
           rows == [box.rows EXCEPT ![id] = row]
<1>1. box.max + 1 \in Nat
  BY DEF Box
<1>2. row \in Row
  BY <1>1 DEF Row
<1>3. rows \in [Ids -> Row]
  BY <1>2 DEF Box
<1>4. \/ Insert(box, id, kind) = box
     \/ Insert(box, id, kind) = [box EXCEPT !.max = box.max + 1, !.rows = rows]
  BY DEF Insert
<1> HIDE DEF row, rows
<1>5. [box EXCEPT !.max = box.max + 1, !.rows = rows] \in Box
  BY <1>1, <1>3, SetRowsType
<1> QED
  BY <1>4, <1>5

\* MessageStore.UpdateByMsgID leaves a box.
LEMMA MaskType ==
  ASSUME NEW box \in Box, NEW id \in Ids
  PROVE  Mask(box, id) \in Box
<1> DEFINE row == [box.rows[id] EXCEPT !.kind = "placeholder"]
           rows == [box.rows EXCEPT ![id] = row]
<1>1. box.max \in Nat
  BY DEF Box
<1>2. row \in Row
  BY DEF Box, Row, Kinds
<1>3. rows \in [Ids -> Row]
  BY <1>2 DEF Box
<1>4. Mask(box, id) \in {box, [box EXCEPT !.rows = rows]}
  BY DEF Mask
<1> HIDE DEF rows
<1> QED
  BY <1>1, <1>3, <1>4, SetRowsType

\* MessageStore.DeleteByMsgID leaves a box.
LEMMA DeleteByMsgIDType ==
  ASSUME NEW box \in Box, NEW id \in Ids
  PROVE  DeleteByMsgID(box, id) \in Box
<1> DEFINE row == [box.rows[id] EXCEPT !.seq = box.max + 1, !.deleted = TRUE]
           rows == [box.rows EXCEPT ![id] = row]
<1>1. box.max + 1 \in Nat
  BY DEF Box
<1>2. row \in Row
  BY <1>1 DEF Box, Row
<1>3. rows \in [Ids -> Row]
  BY <1>2 DEF Box
<1>4. \/ DeleteByMsgID(box, id) = box
     \/ DeleteByMsgID(box, id) = [box EXCEPT !.max = box.max + 1, !.rows = rows]
  BY DEF DeleteByMsgID
<1> HIDE DEF row, rows
<1>5. [box EXCEPT !.max = box.max + 1, !.rows = rows] \in Box
  BY <1>1, <1>3, SetRowsType
<1> QED
  BY <1>4, <1>5

\* Replacing one conversation row leaves a box.
LEMMA SetConversationType ==
  ASSUME NEW box \in Box, NEW k \in Chats, NEW row \in Conversation
  PROVE  SetConversation(box, k, row) \in Box
<1>1. [box.conv EXCEPT ![k] = row] \in [Chats -> Conversation]
  BY DEF Box
<1> QED
  BY <1>1 DEF SetConversation, Box

\* ConversationStore.Upsert leaves a box.
LEMMA UpsertType ==
  ASSUME NEW box \in Box, NEW k \in Chats, NEW seq \in Nat, NEW id \in Ids,
         NEW mode \in UnreadModes
  PROVE  Upsert(box, k, seq, id, mode) \in Box
<1> DEFINE row == [status |-> "active", seq |-> seq, last |-> id,
                   unread |-> box.conv[k].unread + Bump(mode)]
<1>1. row \in Conversation
  <2>1. box.conv[k] \in Conversation
    BY DEF Box
  <2>2. Bump(mode) \in Nat
    BY DEF Bump
  <2> QED
    BY <2>1, <2>2 DEF Conversation
<1> QED
  BY <1>1, SetConversationType DEF Upsert

\* ConversationStore.ClearUnread leaves a box.
LEMMA ClearUnreadType ==
  ASSUME NEW box \in Box, NEW k \in Chats
  PROVE  ClearUnread(box, k) \in Box
<1> DEFINE row == [box.conv[k] EXCEPT !.unread = 0]
<1>1. row \in Conversation
  BY DEF Box, Conversation
<1> QED
  BY <1>1, SetConversationType DEF ClearUnread

\* ConversationStore.Delete leaves a box.
LEMMA DeleteConversationType ==
  ASSUME NEW box \in Box, NEW k \in Chats
  PROVE  DeleteConversation(box, k) \in Box
<1> DEFINE row == [box.conv[k] EXCEPT !.status = "deleted", !.seq = box.max + 1, !.unread = 0]
<1>0. box.conv[k] \in Conversation /\ box.max + 1 \in Nat
  BY DEF Box
<1>1. row \in Conversation
  BY <1>0 DEF Conversation
<1>2. SetConversation(box, k, row) \in Box
  BY <1>1, SetConversationType
<1>3. [SetConversation(box, k, row) EXCEPT !.max = box.max + 1] \in Box
  BY <1>2 DEF Box
<1> QED
  BY <1>3 DEF DeleteConversation

\* Every transaction leaves a box.
LEMMA RewritesType ==
  ASSUME NEW box \in Box, NEW new, NEW M \in SUBSET Ids, Rewrites(box, new, M)
  PROVE  new \in Box
BY InsertType, MaskType, DeleteByMsgIDType, UpsertType, ClearUnreadType,
   DeleteConversationType DEF Rewrites

-----------------------------------------------------------------------------
(* Numbering *)

\* The conversation transactions leave the message rows alone and never lower
\* the last seq.
LEMMA ConversationsKeepRows ==
  ASSUME NEW box \in Box, NEW new,
         \/ \E k \in Chats, seq \in Nat, i \in Ids, mode \in UnreadModes :
              new = Upsert(box, k, seq, i, mode)
         \/ \E k \in Chats : new = ClearUnread(box, k)
         \/ \E k \in Chats : new = DeleteConversation(box, k)
  PROVE  new.rows = box.rows /\ new.max \in {box.max, box.max + 1}
BY DEF Upsert, ClearUnread, DeleteConversation, SetConversation, Box

\* Every transaction keeps the seqs of an inbox distinct and below its last.
LEMMA RewritesKeepsNumbering ==
  ASSUME NEW box \in Box, NEW new, NEW M \in SUBSET Ids, Rewrites(box, new, M), WellNumbered(box)
  PROVE  WellNumbered(new)
<1>0. box.max \in Nat /\ box.rows \in [Ids -> Row]
  BY DEF Box
<1>1. ASSUME NEW id \in Ids, NEW kind \in Kinds \ {"none"}, new = Insert(box, id, kind)
      PROVE  WellNumbered(new)
  <2>1. CASE Exists(box, id)
    BY <1>1, <2>1 DEF Insert
  <2>2. CASE ~Exists(box, id)
    <3>1. /\ new.max = box.max + 1
          /\ new.rows = [box.rows EXCEPT
                           ![id] = [seq |-> box.max + 1, kind |-> kind, deleted |-> FALSE]]
      BY <1>1, <2>2 DEF Insert, Box
    <3>2. new.rows[id].seq = box.max + 1
      BY <1>0, <3>1
    <3>3. \A i \in Ids \ {id} : new.rows[i] = box.rows[i]
      BY <1>0, <3>1
    <3>4. \A i \in Ids : box.rows[i].seq \in Nat
      BY <1>0 DEF Row
    <3> QED
      BY <1>0, <3>1, <3>2, <3>3, <3>4 DEF WellNumbered, Exists
  <2> QED
    BY <2>1, <2>2
<1>2. ASSUME NEW id \in Ids, new = Mask(box, id)
      PROVE  WellNumbered(new)
  <2>1. CASE Live(box, id)
    <3>1. /\ new.max = box.max
          /\ new.rows = [box.rows EXCEPT ![id] = [box.rows[id] EXCEPT !.kind = "placeholder"]]
      BY <1>2, <2>1 DEF Mask, Box
    <3>2. \A i \in Ids : new.rows[i].seq = box.rows[i].seq
      BY <1>0, <3>1 DEF Row
    <3>3. \A i \in Ids \ {id} : new.rows[i] = box.rows[i]
      BY <1>0, <3>1
    <3> QED
      BY <2>1, <3>1, <3>2, <3>3 DEF WellNumbered, Exists, Live
  <2>2. CASE ~Live(box, id)
    BY <1>2, <2>2 DEF Mask
  <2> QED
    BY <2>1, <2>2
<1>3. ASSUME NEW id \in Ids, new = DeleteByMsgID(box, id)
      PROVE  WellNumbered(new)
  <2>1. CASE Live(box, id)
    <3>1. /\ new.max = box.max + 1
          /\ new.rows = [box.rows EXCEPT
                           ![id] = [box.rows[id] EXCEPT !.seq = box.max + 1, !.deleted = TRUE]]
      BY <1>3, <2>1 DEF DeleteByMsgID, Box
    <3>2. new.rows[id].seq = box.max + 1
      BY <1>0, <3>1 DEF Row
    <3>3. \A i \in Ids \ {id} : new.rows[i] = box.rows[i]
      BY <1>0, <3>1
    <3>4. \A i \in Ids : box.rows[i].seq \in Nat
      BY <1>0 DEF Row
    <3> QED
      BY <1>0, <2>1, <3>1, <3>2, <3>3, <3>4 DEF WellNumbered, Exists, Live
  <2>2. CASE ~Live(box, id)
    BY <1>3, <2>2 DEF DeleteByMsgID
  <2> QED
    BY <2>1, <2>2
<1>4. ASSUME \/ \E k \in Chats, seq \in Nat, i \in Ids, mode \in UnreadModes :
                  new = Upsert(box, k, seq, i, mode)
             \/ \E k \in Chats : new = ClearUnread(box, k)
             \/ \E k \in Chats : new = DeleteConversation(box, k)
      PROVE  WellNumbered(new)
  <2>1. new.rows = box.rows /\ new.max \in {box.max, box.max + 1}
    BY <1>4, ConversationsKeepRows
  <2>2. \A i \in Ids : box.rows[i].seq \in Nat
    BY <1>0 DEF Row
  <2> QED
    BY <1>0, <2>1, <2>2 DEF WellNumbered, Exists
<1> QED
  BY <1>1, <1>2, <1>3, <1>4 DEF Rewrites

-----------------------------------------------------------------------------
(* What an inbox shows *)

\* Messages that can be recalled show their text or their placeholder.
Maskable(box, M) ==
  \A i \in M : box.rows[i].kind \in {"none", "original", "placeholder"}

\* A transaction on an inbox is, for the devices that read it, nothing at all,
\* a position given to nothing, an arrival, a withdrawal or an erasure.
Visible(old, new) ==
  \/ new.rows = old.rows /\ new.max \in {old.max, old.max + 1}
  \/ \E i \in Ids, row \in Row :
       /\ new.rows = [old.rows EXCEPT ![i] = row]
       /\ \/ /\ ~Exists(old, i)
             /\ new.max = old.max + 1
             /\ row.seq = new.max /\ row.kind # "none" /\ ~row.deleted
          \/ /\ Live(old, i)
             /\ old.rows[i].kind \in {"original", "placeholder"}
             /\ new.max = old.max
             /\ row.seq = old.rows[i].seq /\ row.kind = "placeholder" /\ ~row.deleted
          \/ /\ Live(old, i)
             /\ new.max = old.max + 1
             /\ row.seq = new.max /\ row.kind = old.rows[i].kind /\ row.deleted

\* Every transaction is one of these five for its readers, and keeps the
\* recallable messages what they are.
LEMMA RewritesAreVisible ==
  ASSUME NEW box \in Box, NEW new, NEW M \in SUBSET Ids, Rewrites(box, new, M),
         Maskable(box, M)
  PROVE  Visible(box, new) /\ Maskable(new, M)
<1>0. box.max \in Nat /\ box.rows \in [Ids -> Row]
  BY DEF Box
<1>1. ASSUME NEW id \in Ids, NEW kind \in Kinds \ {"none"}, new = Insert(box, id, kind),
             id \in M => kind \in {"original", "placeholder"}
      PROVE  Visible(box, new) /\ Maskable(new, M)
  <2>1. CASE Exists(box, id)
    BY <1>1, <2>1 DEF Insert, Visible
  <2>2. CASE ~Exists(box, id)
    <3> DEFINE row == [seq |-> box.max + 1, kind |-> kind, deleted |-> FALSE]
    <3>1. new.max = box.max + 1 /\ new.rows = [box.rows EXCEPT ![id] = row]
      BY <1>1, <2>2 DEF Insert, Box
    <3>2. row \in Row
      BY <1>0 DEF Row
    <3>3. Visible(box, new)
      BY <2>2, <3>1, <3>2 DEF Visible
    <3>4. Maskable(new, M)
      BY <1>0, <1>1, <3>1 DEF Maskable
    <3> QED
      BY <3>3, <3>4
  <2> QED
    BY <2>1, <2>2
<1>2. ASSUME NEW id \in M, new = Mask(box, id)
      PROVE  Visible(box, new) /\ Maskable(new, M)
  <2>1. CASE Live(box, id)
    <3> DEFINE row == [box.rows[id] EXCEPT !.kind = "placeholder"]
    <3>1. new.max = box.max /\ new.rows = [box.rows EXCEPT ![id] = row]
      BY <1>2, <2>1 DEF Mask, Box
    <3>2. row \in Row /\ row.seq = box.rows[id].seq /\ row.kind = "placeholder"
      BY <1>0 DEF Row, Kinds
    <3>3. ~row.deleted
      BY <1>0, <2>1 DEF Row, Live
    <3>4. box.rows[id].kind \in {"original", "placeholder"}
      BY <2>1 DEF Live, Exists, Maskable
    <3>5. Visible(box, new)
      BY <2>1, <3>1, <3>2, <3>3, <3>4 DEF Visible
    <3>6. Maskable(new, M)
      BY <1>0, <3>1, <3>2 DEF Maskable
    <3> QED
      BY <3>5, <3>6
  <2>2. CASE ~Live(box, id)
    BY <1>2, <2>2 DEF Mask, Visible
  <2> QED
    BY <2>1, <2>2
<1>3. ASSUME NEW id \in Ids, new = DeleteByMsgID(box, id)
      PROVE  Visible(box, new) /\ Maskable(new, M)
  <2>1. CASE Live(box, id)
    <3> DEFINE row == [box.rows[id] EXCEPT !.seq = box.max + 1, !.deleted = TRUE]
    <3>1. new.max = box.max + 1 /\ new.rows = [box.rows EXCEPT ![id] = row]
      BY <1>3, <2>1 DEF DeleteByMsgID, Box
    <3>2. /\ row \in Row
          /\ row.seq = box.max + 1
          /\ row.kind = box.rows[id].kind
          /\ row.deleted
      <4>1. box.max + 1 \in Nat /\ box.rows[id] \in Row
        BY <1>0
      <4> QED
        BY <4>1 DEF Row
    <3>3. Visible(box, new)
      BY <2>1, <3>1, <3>2 DEF Visible
    <3>4. Maskable(new, M)
      BY <1>0, <3>1, <3>2 DEF Maskable
    <3> QED
      BY <3>3, <3>4
  <2>2. CASE ~Live(box, id)
    BY <1>3, <2>2 DEF DeleteByMsgID, Visible
  <2> QED
    BY <2>1, <2>2
<1>4. ASSUME \/ \E k \in Chats, seq \in Nat, i \in Ids, mode \in UnreadModes :
                  new = Upsert(box, k, seq, i, mode)
             \/ \E k \in Chats : new = ClearUnread(box, k)
             \/ \E k \in Chats : new = DeleteConversation(box, k)
      PROVE  Visible(box, new) /\ Maskable(new, M)
  BY <1>4, ConversationsKeepRows DEF Visible, Maskable
<1> QED
  BY <1>1, <1>2, <1>3, <1>4 DEF Rewrites

-----------------------------------------------------------------------------
(* What an actor may be doing *)

\* A task names messages of its own kind.
TaskOK(t) ==
  /\ t.kind \in {"send", "recall"} => t.msg \in Messages /\ t.who \in Users
  /\ t.kind = "recall" => t.event \in Recalls
  /\ t.kind = "system" => t.msg \in Systems

\* So does a job; cur are the cursors of its actor.  An actor writes inboxes
\* only in the stages that do, and only a recall masks or writes an event.
JobOK(j, cur) ==
  /\ j.kind = "none" => j = NoJob
  /\ j.kind # "none" => TaskOK(j)
  /\ j.stage \in {"own", "peer"} => j.kind \in {"send", "recall"}
  /\ j.stage \in {"idle", "list", "drop", "submit"} => \A u \in Users : cur[u].pc = "idle"
  /\ \A u \in Users : cur[u].pc \in {"mask", "event"} => j.kind = "recall"

JobsOK == \A a \in Actors : JobOK(job[a], at[a])

TasksOK == \A t \in stored \cup channel \cup submitted : TaskOK(t)

WellFormed == TypeOK /\ JobsOK /\ TasksOK

-----------------------------------------------------------------------------
(* Jobs and cursors *)

\* Starting gives every user a cursor, at "insert" or idle; with no users to
\* write every cursor is idle.
LEMMA StartingType ==
  ASSUME NEW S
  PROVE  /\ Starting(S) \in [Users -> Cursor]
         /\ \A u \in Users : Starting(S)[u].pc \in {"idle", "insert"}
         /\ \A u \in Users : Starting({})[u].pc = "idle"
BY DEF Starting, Idle, Cursor, Steps

\* A goroutine without a job is well formed.
LEMMA NoJobOK == NoJob \in Job /\ JobOK(NoJob, Starting({}))
BY StartingType DEF NoJob, Job, JobKinds, JobOK

\* The job that a request starts with is a job.
LEMMA RequestType ==
  ASSUME NEW kind \in JobKinds, NEW who \in Users, NEW msg \in Ids,
         NEW event \in Ids \cup {NoId}, NEW targets \in SUBSET Users,
         NEW stage \in {"own", "list", "drop"}
  PROVE  Request(kind, who, msg, event, targets, stage) \in Job
BY DEF Request, Job

\* A goroutine that goes on to another well-formed job leaves the others.
LEMMA ActorChanges ==
  ASSUME TypeOK, JobsOK, NEW a \in Actors, NEW j \in Job, NEW cur \in [Users -> Cursor],
         JobOK(j, cur), job' = [job EXCEPT ![a] = j], at' = [at EXCEPT ![a] = cur]
  PROVE  /\ job' \in [Actors -> Job]
         /\ at' \in [Actors -> [Users -> Cursor]]
         /\ JobsOK'
<1>1. job \in [Actors -> Job] /\ at \in [Actors -> [Users -> Cursor]]
  BY DEF TypeOK
<1>2. \A b \in Actors : job'[b] = (IF b = a THEN j ELSE job[b])
                     /\ at'[b] = (IF b = a THEN cur ELSE at[b])
  BY <1>1
<1>3. JobsOK'
  BY <1>2 DEF JobsOK
<1> QED
  BY <1>1, <1>3

\* What WellFormed says of one goroutine.
LEMMA ActorType ==
  ASSUME TypeOK, JobsOK, NEW a \in Actors
  PROVE  /\ job[a] \in Job
         /\ at[a] \in [Users -> Cursor]
         /\ JobOK(job[a], at[a])
         /\ job = [job EXCEPT ![a] = job[a]]
         /\ at = [at EXCEPT ![a] = at[a]]
BY DEF TypeOK, JobsOK

\* The id, msg and event of a job or task are message ids.
LEMMA NamesAreIds == Messages \subseteq Ids /\ Recalls \subseteq Ids /\ Systems \subseteq Ids
BY MessagingAssumption

\* Both kinds of goroutine are actors.
LEMMA ActorKinds == Requests \subseteq Actors /\ Workers \subseteq Actors
BY DEF Actors

-----------------------------------------------------------------------------
(* Requests keep WellFormed *)

\* A request that starts leaves a well-formed state.
LEMMA BeginKeeps ==
  ASSUME WellFormed, members' \subseteq Users,
         NEW h \in Requests, NEW id \in Ids, NEW j \in Job, NEW S,
         JobOK(j, Starting(S)), Begin(h, id, j, S)
  PROVE  WellFormed'
<1>1. /\ job' \in [Actors -> Job]
      /\ at' \in [Actors -> [Users -> Cursor]]
      /\ JobsOK'
  BY ActorChanges, ActorKinds, StartingType DEF WellFormed, Begin
<1>2. attempts' \in [Ids -> Nat]
  BY DEF WellFormed, TypeOK, Begin
<1>3. TypeOK'
  BY <1>1, <1>2 DEF WellFormed, TypeOK, Begin, history
<1>4. TasksOK'
  BY DEF WellFormed, TasksOK, Begin, history
<1> QED
  BY <1>1, <1>3, <1>4 DEF WellFormed

\* send_message, add_group_member and remove_group_member start well formed,
\* and so does a recall.
LEMMA StartKeeps ==
  ASSUME WellFormed, NEW h \in Requests,
         \/ \E m \in Messages : StartSend(h, m)
         \/ \E e \in Recalls : StartRecall(h, e)
         \/ \E s \in Systems, u \in Users : AddGroupMember(h, s, u) \/ StartRemove(h, s, u)
  PROVE  WellFormed'
<1>0. members \subseteq Users
  BY DEF WellFormed, TypeOK
<1>1. ASSUME NEW m \in Messages, StartSend(h, m)
      PROVE  WellFormed'
  <2> DEFINE j == Request("send", From[m], m, NoId, {From[m]}, "own")
  <2>1. From[m] \in Users /\ m \in Ids
    BY MessagingAssumption
  <2>2. j \in Job
    BY <2>1, RequestType DEF JobKinds
  <2>3. JobOK(j, Starting({From[m]}))
    BY <2>1, StartingType DEF JobOK, TaskOK, Request
  <2> QED
    BY <1>0, <1>1, <2>1, <2>2, <2>3, BeginKeeps DEF StartSend
<1>2. ASSUME NEW e \in Recalls, StartRecall(h, e)
      PROVE  WellFormed'
  <2> DEFINE m == RecallOf[e]
             j == Request("recall", From[m], m, e, {From[m]}, "own")
  <2>1. From[m] \in Users /\ m \in Messages /\ m \in Ids /\ e \in Ids
    BY MessagingAssumption
  <2>2. j \in Job
    BY <2>1, RequestType DEF JobKinds
  <2>3. JobOK(j, Starting({From[m]}))
    BY <2>1, StartingType DEF JobOK, TaskOK, Request
  <2> QED
    BY <1>0, <1>2, <2>1, <2>2, <2>3, BeginKeeps DEF StartRecall
<1>3. ASSUME NEW s \in Systems, NEW u \in Users, AddGroupMember(h, s, u)
      PROVE  WellFormed'
  <2> DEFINE j == Request("system", u, s, NoId, {}, "list")
  <2>1. s \in Ids
    BY MessagingAssumption
  <2>2. j \in Job
    BY <2>1, RequestType DEF JobKinds
  <2>3. JobOK(j, Starting({}))
    BY StartingType DEF JobOK, TaskOK, Request
  <2> QED
    BY <1>0, <1>3, <2>1, <2>2, <2>3, BeginKeeps DEF AddGroupMember
<1>4. ASSUME NEW s \in Systems, NEW u \in Users, StartRemove(h, s, u)
      PROVE  WellFormed'
  <2> DEFINE j == Request("system", u, s, NoId, members, "drop")
  <2>1. s \in Ids
    BY MessagingAssumption
  <2>2. j \in Job
    BY <1>0, <2>1, RequestType DEF JobKinds
  <2>3. JobOK(j, Starting({}))
    BY StartingType DEF JobOK, TaskOK, Request
  <2> QED
    BY <1>0, <1>4, <2>1, <2>2, <2>3, BeginKeeps DEF StartRemove
<1> QED
  BY <1>1, <1>2, <1>3, <1>4

\* Every later step of a request but the writes of an inbox keeps WellFormed.
LEMMA RequestKeeps ==
  ASSUME WellFormed, NEW h \in Requests,
         RemoveMember(h) \/ TurnToPeer(h) \/ AnswerDirect(h) \/ ListMembers(h) \/ Submit(h)
  PROVE  WellFormed'
<1> DEFINE j == job[h]
<1>0. TypeOK /\ JobsOK /\ TasksOK
  BY DEF WellFormed
<1>1. /\ h \in Actors
      /\ j \in Job
      /\ at[h] \in [Users -> Cursor]
      /\ JobOK(j, at[h])
      /\ at = [at EXCEPT ![h] = at[h]]
  BY <1>0, ActorType, ActorKinds
<1>2. members \subseteq Users
  BY <1>0 DEF TypeOK
<1>3. ASSUME RemoveMember(h)
      PROVE  WellFormed'
  <2> DEFINE j2 == IF j.who \in members THEN [j EXCEPT !.stage = "submit"] ELSE NoJob
  <2>1. j2 \in Job
    BY <1>1, NoJobOK DEF Job
  <2>2. JobOK(j2, at[h])
    BY <1>1, <1>3 DEF RemoveMember, JobOK, TaskOK, NoJob, Job
  <2>3. /\ job' \in [Actors -> Job]
        /\ at' \in [Actors -> [Users -> Cursor]]
        /\ JobsOK'
    BY <1>0, <1>1, <1>3, <2>1, <2>2, ActorChanges DEF RemoveMember
  <2>4. TypeOK'
    BY <1>0, <1>2, <1>3, <2>3 DEF TypeOK, RemoveMember, history, counters
  <2>5. TasksOK'
    BY <1>0, <1>3 DEF TasksOK, RemoveMember, history
  <2> QED
    BY <2>3, <2>4, <2>5 DEF WellFormed
<1>4. ASSUME TurnToPeer(h)
      PROVE  WellFormed'
  <2> DEFINE S == {To[j.msg]}
             j2 == [j EXCEPT !.targets = S, !.stage = "peer"]
  <2>1. j.kind \in {"send", "recall"} /\ TaskOK(j)
    BY <1>1, <1>4 DEF TurnToPeer, OwnInboxWritten, JobOK
  <2>2. S \subseteq Users
    BY <1>4, <2>1, MessagingAssumption DEF TurnToPeer, Direct, TaskOK
  <2>3. j2 \in Job
    BY <1>1, <2>2 DEF Job
  <2>4. JobOK(j2, Starting(S))
    BY <1>1, <2>1, StartingType DEF JobOK, TaskOK, Job
  <2>5. /\ job' \in [Actors -> Job]
        /\ at' \in [Actors -> [Users -> Cursor]]
        /\ JobsOK'
    BY <1>0, <1>1, <1>4, <2>3, <2>4, StartingType, ActorChanges DEF TurnToPeer
  <2>6. TypeOK'
    BY <1>0, <1>4, <2>5 DEF TypeOK, TurnToPeer, store, history, counters
  <2>7. TasksOK'
    BY <1>0, <1>4 DEF TasksOK, TurnToPeer, store, history
  <2> QED
    BY <2>5, <2>6, <2>7 DEF WellFormed
<1>5. ASSUME AnswerDirect(h)
      PROVE  WellFormed'
  <2>1. j.kind \in {"send", "recall"} /\ TaskOK(j)
    BY <1>1, <1>5 DEF AnswerDirect, JobOK
  <2>2. /\ job' \in [Actors -> Job]
        /\ at' \in [Actors -> [Users -> Cursor]]
        /\ JobsOK'
    BY <1>0, <1>1, <1>5, NoJobOK, StartingType, ActorChanges DEF AnswerDirect
  <2>3. acked' \subseteq Ids
    BY <1>0, <1>5, <2>1, NamesAreIds DEF TypeOK, AnswerDirect, Answer, Newest, TaskOK
  <2>4. notified' \in [Users -> SUBSET Ids]
    <3>1. j.msg \in Ids
      BY <2>1, NamesAreIds DEF TaskOK
    <3> QED
      BY <1>0, <1>5, <3>1 DEF TypeOK, AnswerDirect
  <2>5. TypeOK'
    BY <1>0, <1>5, <2>2, <2>3, <2>4 DEF TypeOK, AnswerDirect, store, counters
  <2>6. TasksOK'
    BY <1>0, <1>5 DEF TasksOK, AnswerDirect, store
  <2> QED
    BY <2>2, <2>5, <2>6 DEF WellFormed
<1>6. ASSUME ListMembers(h)
      PROVE  WellFormed'
  <2> DEFINE S == IF j.kind = "system" THEN members ELSE members \ {j.who}
             j2 == [j EXCEPT !.targets = S, !.stage = "submit"]
  <2>1. j.kind # "none" /\ TaskOK(j)
    BY <1>1, <1>6 DEF ListMembers, OwnInboxWritten, JobOK, NoJob
  <2>2. j2 \in Job
    BY <1>1, <1>2 DEF Job
  <2>3. JobOK(j2, Starting({}))
    BY <1>1, <2>1, StartingType DEF JobOK, TaskOK, Job
  <2>4. /\ job' \in [Actors -> Job]
        /\ at' \in [Actors -> [Users -> Cursor]]
        /\ JobsOK'
    BY <1>0, <1>1, <1>6, <2>2, <2>3, StartingType, ActorChanges DEF ListMembers
  <2>5. TypeOK'
    BY <1>0, <1>6, <2>4 DEF TypeOK, ListMembers, store, history, counters
  <2>6. TasksOK'
    BY <1>0, <1>6 DEF TasksOK, ListMembers, store, history
  <2> QED
    BY <2>4, <2>5, <2>6 DEF WellFormed
<1>7. ASSUME Submit(h)
      PROVE  WellFormed'
  <2> DEFINE t == TaskOf(j)
  <2>1. j.kind \in JobKinds /\ TaskOK(j)
    BY <1>1, <1>7 DEF Submit, JobOK, NoJob, Job
  <2>2. t \in Task /\ TaskOK(t)
    <3>1. j.msg \in Ids
      BY <2>1, NamesAreIds DEF TaskOK, JobKinds
    <3>2. nextTask \in Nat
      BY <1>0 DEF TypeOK
    <3> QED
      BY <1>1, <2>1, <3>1, <3>2 DEF TaskOf, Task, Job, TaskOK
  <2>3. JobOK(NoJob, at[h])
    BY <1>1, <1>7 DEF Submit, JobOK, NoJob
  <2>4. /\ job' \in [Actors -> Job]
        /\ at' \in [Actors -> [Users -> Cursor]]
        /\ JobsOK'
    BY <1>0, <1>1, <1>7, <2>3, NoJobOK, ActorChanges DEF Submit
  <2>5. acked' \subseteq Ids
    BY <1>0, <1>7, <2>1, NamesAreIds DEF TypeOK, Submit, Answer, Newest, TaskOK, JobKinds
  <2>6. TypeOK'
    BY <1>0, <1>7, <2>2, <2>4, <2>5 DEF TypeOK, Submit, counters
  <2>7. TasksOK'
    BY <1>0, <1>7, <2>2 DEF TasksOK, Submit
  <2> QED
    BY <2>4, <2>6, <2>7 DEF WellFormed
<1> QED
  BY <1>3, <1>4, <1>5, <1>6, <1>7

-----------------------------------------------------------------------------
(* Every write of an inbox is one transaction on it *)

\* inbox changes by one transaction on the rows of one user, or not at all.
OneTransaction ==
  \/ inbox' = inbox
  \/ \E u \in Users, new \in Box :
       Rewrites(inbox[u], new, Messages) /\ inbox' = [inbox EXCEPT ![u] = new]

\* One transaction leaves every inbox a box.
LEMMA OneTransactionType ==
  ASSUME TypeOK, OneTransaction
  PROVE  inbox' \in [Users -> Box]
BY DEF TypeOK, OneTransaction

\* A goroutine that moves its cursor within one inbox stays well formed.
LEMMA MoveToKeeps ==
  ASSUME WellFormed, OneTransaction, NEW a \in Actors, NEW u \in Users,
         NEW pc \in Steps, NEW seq \in Nat, MoveTo(a, u, pc, seq),
         pc # "idle" => at[a][u].pc # "idle",
         pc \in {"mask", "event"} => job[a].kind = "recall"
  PROVE  WellFormed'
<1> DEFINE cursor == [pc |-> pc, seq |-> seq]
           cur == [at[a] EXCEPT ![u] = cursor]
<1>0. TypeOK /\ JobsOK /\ TasksOK
  BY DEF WellFormed
<1>1. /\ job[a] \in Job
      /\ at[a] \in [Users -> Cursor]
      /\ JobOK(job[a], at[a])
      /\ job = [job EXCEPT ![a] = job[a]]
  BY <1>0, ActorType
<1>2. cursor \in Cursor
  BY DEF Cursor
<1>3. cur \in [Users -> Cursor]
  BY <1>1, <1>2
<1>4. JobOK(job[a], cur)
  BY <1>1 DEF JobOK
<1>5. /\ job' \in [Actors -> Job]
      /\ at' \in [Actors -> [Users -> Cursor]]
      /\ JobsOK'
  BY <1>0, <1>1, <1>3, <1>4, ActorChanges DEF MoveTo
<1>6. TypeOK'
  BY <1>0, <1>5, OneTransactionType DEF TypeOK, MoveTo, history, counters
<1>7. TasksOK'
  BY <1>0 DEF TasksOK, MoveTo, history
<1> QED
  BY <1>5, <1>6, <1>7 DEF WellFormed

\* A cursor that is set on u's inbox leaves every other one alone.
LEMMA MoveToCursors ==
  ASSUME TypeOK, NEW a \in Actors, NEW u \in Users, NEW pc, NEW seq, MoveTo(a, u, pc, seq)
  PROVE  \A b \in Actors, v \in Users :
           at'[b][v] = IF b = a /\ v = u THEN [pc |-> pc, seq |-> seq] ELSE at[b][v]
BY DEF TypeOK, MoveTo

\* What is known of an actor that is about to write u's inbox.
LEMMA WriterType ==
  ASSUME WellFormed, NEW a \in Actors, NEW u \in Users, at[a][u].pc # "idle"
  PROVE  /\ job[a].kind \in JobKinds
         /\ TaskOK(job[a])
         /\ job[a].msg \in Ids
         /\ job[a].kind = "recall" => job[a].event \in Ids
         /\ inbox[u] \in Box
         /\ at[a][u] \in Cursor
<1>1. /\ job[a] \in Job
      /\ JobOK(job[a], at[a])
      /\ at[a] \in [Users -> Cursor]
  BY ActorType DEF WellFormed
<1>2. job[a].kind \in JobKinds /\ TaskOK(job[a])
  BY <1>1 DEF JobOK, NoJob, Job
<1> QED
  BY <1>1, <1>2, NamesAreIds DEF TaskOK, JobKinds, WellFormed, TypeOK

\* The peer that a job writes in a conversation row is a user or the group.
LEMMA PeerOfType ==
  ASSUME NEW j, NEW u, j.kind \in JobKinds, TaskOK(j)
  PROVE  PeerOf(j, u) \in Chats
BY MessagingAssumption DEF PeerOf, Chats, Direct, TaskOK, JobKinds

\* A write of an inbox is one transaction on it.
LEMMA WriteRewrites ==
  ASSUME WellFormed, NEW a \in Actors, NEW u \in Users, WriteInbox(a, u)
  PROVE  \E new \in Box : Rewrites(inbox[u], new, Messages) /\ inbox' = [inbox EXCEPT ![u] = new]
<1>0. at[a][u].pc # "idle"
  BY DEF WriteInbox, InsertRow, MaskRow, InsertEvent, TouchConversation
<1>1. /\ job[a].kind \in JobKinds
      /\ TaskOK(job[a])
      /\ job[a].msg \in Ids
      /\ job[a].kind = "recall" => job[a].event \in Ids
      /\ inbox[u] \in Box
      /\ at[a][u] \in Cursor
  BY <1>0, WriterType
<1>2. ASSUME InsertRow(a, u)
      PROVE  \E new : Rewrites(inbox[u], new, Messages) /\ inbox' = [inbox EXCEPT ![u] = new]
  <2>1. BodyOf(job[a].kind) \in Kinds \ {"none"}
    BY <1>1 DEF BodyOf, JobKinds, Kinds
  <2>2. job[a].msg \in Messages => BodyOf(job[a].kind) \in {"original", "placeholder"}
    BY <1>1, MessagingAssumption DEF BodyOf, JobKinds, TaskOK
  <2> QED
    BY <1>1, <1>2, <2>1, <2>2 DEF InsertRow, Rewrites
<1>3. ASSUME MaskRow(a, u)
      PROVE  \E new : Rewrites(inbox[u], new, Messages) /\ inbox' = [inbox EXCEPT ![u] = new]
  <2>1. job[a].msg \in Messages
    <3>1. job[a].kind = "recall"
      BY <1>3, ActorType DEF MaskRow, WellFormed, JobOK
    <3> QED
      BY <1>1, <3>1 DEF TaskOK
  <2> QED
    BY <1>3, <2>1 DEF MaskRow, Rewrites
<1>4. ASSUME InsertEvent(a, u)
      PROVE  \E new : Rewrites(inbox[u], new, Messages) /\ inbox' = [inbox EXCEPT ![u] = new]
  <2>1. job[a].event \in Ids \ Messages
    <3>1. job[a].kind = "recall"
      BY <1>4, ActorType DEF InsertEvent, WellFormed, JobOK
    <3> QED
      BY <1>1, <3>1, MessagingAssumption DEF TaskOK
  <2> QED
    BY <1>4, <2>1 DEF InsertEvent, Rewrites, Kinds
<1>5. ASSUME TouchConversation(a, u)
      PROVE  \E new : Rewrites(inbox[u], new, Messages) /\ inbox' = [inbox EXCEPT ![u] = new]
  <2>1. PeerOf(job[a], u) \in Chats
    BY <1>1, PeerOfType
  <2>2. at[a][u].seq \in Nat
    BY <1>1 DEF Cursor
  <2>3. Newest(job[a]) \in Ids
    BY <1>1 DEF Newest
  <2>4. UnreadMode(job[a], u) \in UnreadModes
    BY DEF UnreadMode, UnreadModes
  <2> QED
    BY <1>5, <2>1, <2>2, <2>3, <2>4 DEF TouchConversation, Rewrites
<1> QED
  BY <1>1, <1>2, <1>3, <1>4, <1>5, NamesAreIds, RewritesType DEF WriteInbox

\* A write of an inbox, by a request or by a worker, keeps WellFormed.
LEMMA WriteKeeps ==
  ASSUME WellFormed, NEW a \in Actors, NEW u \in Users, WriteInbox(a, u)
  PROVE  WellFormed' /\ OneTransaction
<1>1. OneTransaction
  BY WriteRewrites DEF OneTransaction
<1>2. at[a][u].pc # "idle"
  BY DEF WriteInbox, InsertRow, MaskRow, InsertEvent, TouchConversation
<1>3. /\ job[a].msg \in Ids
      /\ job[a].kind = "recall" => job[a].event \in Ids
      /\ inbox[u] \in Box
      /\ at[a][u] \in Cursor
  BY <1>2, WriterType
<1>4. at[a][u].pc \in {"mask", "event"} => job[a].kind = "recall"
  BY ActorType DEF WellFormed, JobOK
<1>5. ASSUME InsertRow(a, u)
      PROVE  WellFormed'
  <2> DEFINE seq == InsertedSeq(inbox[u], job[a].msg)
  <2>1. seq \in Nat
    BY <1>3, InsertedSeqType
  <2>2. AfterInsert(job[a], u, seq) \in Steps \ {"idle"}
    BY DEF AfterInsert, Steps
  <2>3. AfterInsert(job[a], u, seq) \in {"mask", "event"} => job[a].kind = "recall"
    BY DEF AfterInsert
  <2>4. MoveTo(a, u, AfterInsert(job[a], u, seq), seq)
    BY <1>5 DEF InsertRow
  <2> HIDE DEF seq
  <2> QED
    BY <1>1, <1>2, <2>1, <2>2, <2>3, <2>4, MoveToKeeps
<1>6. ASSUME MaskRow(a, u)
      PROVE  WellFormed'
  <2>1. MoveTo(a, u, "event", 0) /\ job[a].kind = "recall"
    BY <1>4, <1>6 DEF MaskRow
  <2> QED
    BY <1>1, <1>2, <2>1, MoveToKeeps DEF Steps
<1>7. ASSUME InsertEvent(a, u)
      PROVE  WellFormed'
  <2> DEFINE seq == InsertedSeq(inbox[u], job[a].event)
             pc == IF seq = 0 THEN "done" ELSE "touch"
  <2>1. seq \in Nat
    <3>1. job[a].event \in Ids
      BY <1>3, <1>4, <1>7 DEF InsertEvent
    <3> QED
      BY <1>3, <3>1, InsertedSeqType
  <2>2. pc \in Steps \ {"idle", "mask", "event"}
    BY DEF Steps
  <2>3. MoveTo(a, u, pc, seq)
    BY <1>7 DEF InsertEvent
  <2> HIDE DEF seq, pc
  <2> QED
    BY <1>1, <1>2, <2>1, <2>2, <2>3, MoveToKeeps
<1>8. ASSUME TouchConversation(a, u)
      PROVE  WellFormed'
  <2>1. MoveTo(a, u, "done", at[a][u].seq) /\ at[a][u].seq \in Nat
    BY <1>3, <1>8 DEF TouchConversation, Cursor
  <2> QED
    BY <1>1, <1>2, <2>1, MoveToKeeps DEF Steps
<1> QED
  BY <1>1, <1>5, <1>6, <1>7, <1>8 DEF WriteInbox

-----------------------------------------------------------------------------
(* Workers, users and faults keep WellFormed *)

\* A worker that takes, announces or retires a task keeps WellFormed.
LEMMA WorkerKeeps ==
  ASSUME WellFormed, NEW w \in Workers, Take(w) \/ Notify(w) \/ RemoveTask(w)
  PROVE  WellFormed'
<1> DEFINE j == job[w]
<1>0. TypeOK /\ JobsOK /\ TasksOK
  BY DEF WellFormed
<1>1. /\ w \in Actors
      /\ j \in Job
      /\ at[w] \in [Users -> Cursor]
      /\ JobOK(j, at[w])
      /\ at = [at EXCEPT ![w] = at[w]]
  BY <1>0, ActorType, ActorKinds
<1>2. ASSUME NEW t \in channel,
             channel' = channel \ {t},
             job' = [job EXCEPT ![w] = JobOf(t)],
             at' = [at EXCEPT ![w] = Starting(t.targets)],
             UNCHANGED <<store, nextTask, notified, history, counters>>
      PROVE  WellFormed'
  <2>1. t \in Task /\ TaskOK(t)
    BY <1>0 DEF TypeOK, TasksOK
  <2>2. JobOf(t) \in Job
    BY <2>1 DEF JobOf, Job, Task
  <2>3. JobOK(JobOf(t), Starting(t.targets))
    BY <2>1, StartingType DEF JobOf, JobOK, TaskOK, Task, JobKinds
  <2>4. /\ job' \in [Actors -> Job]
        /\ at' \in [Actors -> [Users -> Cursor]]
        /\ JobsOK'
    BY <1>0, <1>1, <1>2, <2>2, <2>3, StartingType, ActorChanges
  <2>5. TypeOK'
    BY <1>0, <1>2, <2>4 DEF TypeOK, store, history, counters
  <2>6. TasksOK'
    BY <1>0, <1>2 DEF TasksOK, store, history
  <2> QED
    BY <2>4, <2>5, <2>6 DEF WellFormed
<1>3. ASSUME Notify(w)
      PROVE  WellFormed'
  <2> DEFINE j2 == [j EXCEPT !.stage = "remove"]
  <2>1. j.kind \in JobKinds /\ TaskOK(j)
    BY <1>1, <1>3 DEF Notify, JobOK, NoJob, Job
  <2>2. j.msg \in Ids
    BY <2>1, NamesAreIds DEF TaskOK, JobKinds
  <2>3. j2 \in Job
    BY <1>1 DEF Job
  <2>4. JobOK(j2, at[w])
    BY <1>1, <2>1 DEF JobOK, TaskOK, Job, JobKinds
  <2>5. /\ job' \in [Actors -> Job]
        /\ at' \in [Actors -> [Users -> Cursor]]
        /\ JobsOK'
    BY <1>0, <1>1, <1>3, <2>3, <2>4, ActorChanges DEF Notify
  <2>6. notified' \in [Users -> SUBSET Ids]
    BY <1>0, <1>3, <2>2 DEF TypeOK, Notify
  <2>7. TypeOK'
    BY <1>0, <1>3, <2>5, <2>6 DEF TypeOK, Notify, store, history, counters
  <2>8. TasksOK'
    BY <1>0, <1>3 DEF TasksOK, Notify, store, history
  <2> QED
    BY <2>5, <2>7, <2>8 DEF WellFormed
<1>4. ASSUME RemoveTask(w)
      PROVE  WellFormed'
  <2>1. /\ job' \in [Actors -> Job]
        /\ at' \in [Actors -> [Users -> Cursor]]
        /\ JobsOK'
    BY <1>0, <1>1, <1>4, NoJobOK, StartingType, ActorChanges DEF RemoveTask
  <2>2. TypeOK'
    BY <1>0, <1>4, <2>1 DEF TypeOK, RemoveTask, history, counters
  <2>3. TasksOK'
    BY <1>0, <1>4 DEF TasksOK, RemoveTask, history
  <2> QED
    BY <2>1, <2>2, <2>3 DEF WellFormed
<1>5. CASE Take(w)
  BY <1>2, <1>5 DEF Take
<1> QED
  BY <1>3, <1>4, <1>5

\* Deletions and clear_unread keep WellFormed and are one transaction each.
LEMMA UserKeeps ==
  ASSUME WellFormed, NEW u \in Users, UserStep(u)
  PROVE  WellFormed' /\ OneTransaction
<1>0. TypeOK /\ JobsOK /\ TasksOK
  BY DEF WellFormed
<1>1. \E new : Rewrites(inbox[u], new, Messages) /\ Edit(u, new)
  BY DEF UserStep, DeleteMessage, RemoveConversation, ReadConversation, Rewrites
<1>2. PICK new : Rewrites(inbox[u], new, Messages) /\ Edit(u, new)
  BY <1>1
<1>3. new \in Box
  BY <1>0, <1>2, NamesAreIds, RewritesType DEF TypeOK
<1>4. OneTransaction
  BY <1>2, <1>3 DEF OneTransaction, Edit
<1>5. TypeOK'
  BY <1>0, <1>2, <1>4, OneTransactionType DEF TypeOK, Edit, history
<1>6. JobsOK' /\ TasksOK'
  BY <1>0, <1>2 DEF JobsOK, TasksOK, Edit, history
<1> QED
  BY <1>4, <1>5, <1>6 DEF WellFormed

\* Database errors and restarts keep WellFormed.
LEMMA FaultKeeps ==
  ASSUME WellFormed, FaultStep
  PROVE  WellFormed'
<1>0. TypeOK /\ JobsOK /\ TasksOK
  BY DEF WellFormed
<1>1. ASSUME NEW a \in Actors, NEW u \in Users, WriteFails(a, u)
      PROVE  WellFormed'
  <2> DEFINE cur == [at[a] EXCEPT ![u] = [pc |-> "done", seq |-> 0]]
  <2>1. /\ job[a] \in Job
        /\ at[a] \in [Users -> Cursor]
        /\ JobOK(job[a], at[a])
        /\ job = [job EXCEPT ![a] = job[a]]
    BY <1>0, ActorType
  <2>2. cur \in [Users -> Cursor]
    BY <2>1 DEF Cursor, Steps
  <2>3. at[a][u].pc # "idle"
    BY <1>1 DEF WriteFails
  <2>4. JobOK(job[a], cur)
    BY <2>1, <2>3 DEF JobOK
  <2>5. /\ job' \in [Actors -> Job]
        /\ at' \in [Actors -> [Users -> Cursor]]
        /\ JobsOK'
    BY <1>0, <1>1, <2>1, <2>2, <2>4, ActorChanges DEF WriteFails
  <2>6. TypeOK'
    BY <1>0, <1>1, <2>5 DEF TypeOK, WriteFails, Fault, store
  <2>7. TasksOK'
    BY <1>0, <1>1 DEF TasksOK, WriteFails, Fault, store
  <2> QED
    BY <2>5, <2>6, <2>7 DEF WellFormed
<1>2. ASSUME NEW h \in Requests, RequestFails(h)
      PROVE  WellFormed'
  <2>1. /\ h \in Actors
        /\ job[h] \in Job
        /\ JobOK(job[h], at[h])
    BY <1>0, ActorType, ActorKinds
  <2>2. /\ job' \in [Actors -> Job]
        /\ at' \in [Actors -> [Users -> Cursor]]
        /\ JobsOK'
    BY <1>0, <1>2, <2>1, NoJobOK, StartingType, ActorChanges DEF RequestFails
  <2>3. acked' \subseteq Ids
    <3>1. CASE job[h].stage = "submit"
      <4>1. job[h].kind \in JobKinds /\ TaskOK(job[h])
        BY <2>1, <3>1 DEF JobOK, NoJob, Job
      <4> QED
        BY <1>0, <1>2, <3>1, <4>1, NamesAreIds
           DEF TypeOK, RequestFails, Answer, Newest, TaskOK, JobKinds
    <3>2. CASE job[h].stage # "submit"
      BY <1>0, <1>2, <3>2 DEF TypeOK, RequestFails
    <3> QED
      BY <3>1, <3>2
  <2>4. TypeOK'
    BY <1>0, <1>2, <2>2, <2>3 DEF TypeOK, RequestFails, Fault, store
  <2>5. TasksOK'
    BY <1>0, <1>2 DEF TasksOK, RequestFails, Fault, store
  <2> QED
    BY <2>2, <2>4, <2>5 DEF WellFormed
<1>3. ASSUME NEW h \in Requests, ListFails(h)
      PROVE  WellFormed'
  <2> DEFINE j == job[h]
             j2 == [j EXCEPT !.targets = {},
                             !.stage = IF j.stage = "list" THEN "submit" ELSE "drop"]
  <2>1. /\ h \in Actors
        /\ j \in Job
        /\ at[h] \in [Users -> Cursor]
        /\ JobOK(j, at[h])
        /\ at = [at EXCEPT ![h] = at[h]]
    BY <1>0, ActorType, ActorKinds
  <2>2. j2 \in Job
    BY <2>1 DEF Job
  <2>3. JobOK(j2, at[h])
    BY <1>3, <2>1 DEF ListFails, JobOK, TaskOK, Job
  <2>4. /\ job' \in [Actors -> Job]
        /\ at' \in [Actors -> [Users -> Cursor]]
        /\ JobsOK'
    BY <1>0, <1>3, <2>1, <2>2, <2>3, ActorChanges DEF ListFails
  <2>5. TypeOK'
    BY <1>0, <1>3, <2>4 DEF TypeOK, ListFails, Fault, store
  <2>6. TasksOK'
    BY <1>0, <1>3 DEF TasksOK, ListFails, Fault, store
  <2> QED
    BY <2>4, <2>5, <2>6 DEF WellFormed
<1>4. ASSUME Restart
      PROVE  WellFormed'
  <2>1. JobsOK'
    BY <1>4, NoJobOK DEF JobsOK, Restart
  <2>2. TypeOK'
    BY <1>0, <1>4, NoJobOK, StartingType DEF TypeOK, Restart, store, history
  <2>3. TasksOK'
    BY <1>0, <1>4 DEF TasksOK, Restart, store, history
  <2> QED
    BY <2>1, <2>2, <2>3 DEF WellFormed
<1>5. ASSUME NEW w \in Workers, RemoveFails(w)
      PROVE  WellFormed'
  <2>1. /\ job' \in [Actors -> Job]
        /\ at' \in [Actors -> [Users -> Cursor]]
        /\ JobsOK'
    BY <1>0, <1>5, ActorKinds, NoJobOK, StartingType, ActorChanges DEF RemoveFails
  <2>2. TypeOK'
    BY <1>0, <1>5, <2>1 DEF TypeOK, RemoveFails, Fault, store
  <2>3. TasksOK'
    BY <1>0, <1>5 DEF TasksOK, RemoveFails, Fault, store
  <2> QED
    BY <2>1, <2>2, <2>3 DEF WellFormed
<1> QED
  BY <1>1, <1>2, <1>3, <1>4, <1>5 DEF FaultStep

-----------------------------------------------------------------------------
(* The inductive invariant *)

\* Every step keeps WellFormed and is at most one transaction on one inbox.
LEMMA StepKeeps ==
  ASSUME WellFormed, [Next]_vars
  PROVE  WellFormed' /\ OneTransaction
<1>1. CASE UNCHANGED vars
  BY <1>1 DEF vars, store, history, counters, WellFormed, TypeOK, JobsOK, TasksOK,
              OneTransaction
<1>2. ASSUME NEW h \in Requests, RequestStep(h)
      PROVE  WellFormed' /\ OneTransaction
  <2>1. CASE \E u \in Users : WriteInbox(h, u)
    BY <2>1, WriteKeeps, ActorKinds
  <2>2. CASE \/ \E m \in Messages : StartSend(h, m)
             \/ \E e \in Recalls : StartRecall(h, e)
             \/ \E s \in Systems, u \in Users : AddGroupMember(h, s, u) \/ StartRemove(h, s, u)
    <3>1. inbox' = inbox
      BY <2>2 DEF StartSend, StartRecall, AddGroupMember, StartRemove, Begin
    <3> QED
      BY <2>2, <3>1, StartKeeps DEF OneTransaction
  <2>3. CASE RemoveMember(h) \/ TurnToPeer(h) \/ AnswerDirect(h) \/ ListMembers(h) \/ Submit(h)
    <3>1. inbox' = inbox
      BY <2>3 DEF RemoveMember, TurnToPeer, AnswerDirect, ListMembers, Submit, store
    <3> QED
      BY <2>3, <3>1, RequestKeeps DEF OneTransaction
  <2> QED
    BY <1>2, <2>1, <2>2, <2>3 DEF RequestStep
<1>3. ASSUME NEW w \in Workers, WorkerStep(w)
      PROVE  WellFormed' /\ OneTransaction
  <2>1. CASE \E u \in Users : WriteInbox(w, u)
    BY <2>1, WriteKeeps, ActorKinds
  <2>2. CASE Take(w) \/ Notify(w) \/ RemoveTask(w)
    <3>1. inbox' = inbox
      BY <2>2 DEF Take, Notify, RemoveTask, store
    <3> QED
      BY <2>2, <3>1, WorkerKeeps DEF OneTransaction
  <2> QED
    BY <1>3, <2>1, <2>2 DEF WorkerStep
<1>4. CASE FaultStep
  <2>1. inbox' = inbox
    BY <1>4 DEF FaultStep, WriteFails, RequestFails, ListFails, RemoveFails, Fault, Restart, store
  <2> QED
    BY <1>4, <2>1, FaultKeeps DEF OneTransaction
<1> QED
  BY <1>1, <1>2, <1>3, <1>4, UserKeeps DEF Next

\* The initial state is well formed.
LEMMA InitWellFormed == Init => WellFormed
<1> SUFFICES ASSUME Init PROVE WellFormed
  OBVIOUS
<1>1. JobsOK /\ TasksOK
  BY NoJobOK DEF Init, JobsOK, TasksOK
<1>2. TypeOK
  BY NoJobOK, StartingType, EmptyBoxType, MessagingAssumption DEF Init, TypeOK
<1> QED
  BY <1>1, <1>2 DEF WellFormed

\* WellFormed holds in every reachable state.
THEOREM AlwaysWellFormed == Spec => []WellFormed
<1>1. WellFormed /\ [Next]_vars => WellFormed'
  BY StepKeeps
<1> QED
  BY <1>1, InitWellFormed, PTL DEF Spec

\* Type correctness: whatever the interleaving, retry, error or restart, rows,
\* tasks, jobs and cursors keep their types.
THEOREM TypeCorrect == Spec => []TypeOK
<1>1. WellFormed => TypeOK
  BY DEF WellFormed
<1> QED
  BY <1>1, AlwaysWellFormed, PTL

-----------------------------------------------------------------------------
(* The numbering of the inboxes *)

\* SeqsDistinct is WellNumbered of every inbox.
LEMMA SeqsDistinctIsWellNumbered ==
  SeqsDistinct <=> \A u \in Users : WellNumbered(inbox[u])
BY DEF SeqsDistinct, WellNumbered, HasRow, Exists

\* A step that is one transaction keeps the seqs of every inbox distinct.
LEMMA SeqsStayDistinct ==
  ASSUME WellFormed, SeqsDistinct, OneTransaction
  PROVE  SeqsDistinct'
<1>1. \A u \in Users : WellNumbered(inbox[u]) /\ inbox[u] \in Box
  BY SeqsDistinctIsWellNumbered DEF WellFormed, TypeOK
<1>2. inbox \in [Users -> Box]
  BY DEF WellFormed, TypeOK
<1>3. CASE inbox' = inbox
  BY <1>3 DEF SeqsDistinct, HasRow
<1>4. ASSUME NEW u \in Users, NEW new \in Box,
             Rewrites(inbox[u], new, Messages), inbox' = [inbox EXCEPT ![u] = new]
      PROVE  SeqsDistinct'
  <2>1. WellNumbered(new)
    BY <1>1, <1>4, NamesAreIds, RewritesKeepsNumbering
  <2>2. \A v \in Users : inbox'[v] = IF v = u THEN new ELSE inbox[v]
    BY <1>2, <1>4
  <2>3. \A v \in Users : WellNumbered(inbox'[v])
    BY <1>1, <2>1, <2>2
  <2> QED
    BY <2>3 DEF SeqsDistinct, WellNumbered, HasRow, Exists
<1> QED
  BY <1>3, <1>4 DEF OneTransaction

\* No inbox ever gives the same seq to two messages, nor a seq above its
\* messages_version.max_seq, for any number of concurrent writers.
THEOREM SeqsAlwaysDistinct == Spec => []SeqsDistinct
<1>1. Init => SeqsDistinct
  BY DEF Init, SeqsDistinct, EmptyBox, NoRow, HasRow
<1>2. WellFormed /\ SeqsDistinct /\ [Next]_vars => SeqsDistinct'
  BY StepKeeps, SeqsStayDistinct
<1> QED
  BY <1>1, <1>2, AlwaysWellFormed, PTL DEF Spec

-----------------------------------------------------------------------------
(* Messaging implements InboxLifecycle *)

\* Only messages hold a placeholder in the place of their text.
KindsOK == \A u \in Users : Maskable(inbox[u], Messages)

\* Every step is one visible change of one inbox, or none.
OneVisibleChange ==
  \/ inbox' = inbox
  \/ \E u \in Users, new \in Box :
       Visible(inbox[u], new) /\ inbox' = [inbox EXCEPT ![u] = new]

\* A transaction on one inbox is a visible change of it, and keeps KindsOK.
LEMMA TransactionsAreVisible ==
  ASSUME TypeOK, KindsOK, OneTransaction
  PROVE  OneVisibleChange /\ KindsOK'
<1>1. inbox \in [Users -> Box]
  BY DEF TypeOK
<1>2. CASE inbox' = inbox
  BY <1>2 DEF OneVisibleChange, KindsOK, Maskable
<1>3. ASSUME NEW u \in Users, NEW new \in Box,
             Rewrites(inbox[u], new, Messages), inbox' = [inbox EXCEPT ![u] = new]
      PROVE  OneVisibleChange /\ KindsOK'
  <2>1. Visible(inbox[u], new) /\ Maskable(new, Messages)
    BY <1>1, <1>3, NamesAreIds, RewritesAreVisible DEF KindsOK
  <2>2. \A v \in Users : inbox'[v] = IF v = u THEN new ELSE inbox[v]
    BY <1>1, <1>3
  <2>3. \A v \in Users : Maskable(inbox'[v], Messages)
    BY <2>1, <2>2 DEF KindsOK
  <2> QED
    BY <1>3, <2>1, <2>3 DEF OneVisibleChange, KindsOK, Maskable
<1> QED
  BY <1>2, <1>3 DEF OneTransaction

\* The refinement mapping, as in Lifecycle.
Cells == [u \in Users |-> [i \in Ids |-> ShownAs(inbox[u], i)]]
Positions == [u \in Users |-> [i \in Ids |-> inbox[u].rows[i].seq]]
Tops == [u \in Users |-> inbox[u].max]

\* A visible change of one inbox is a step of InboxLifecycle, or a stutter.
LEMMA VisibleChangeIsLifecycleStep ==
  ASSUME TypeOK, OneVisibleChange
  PROVE  [Lifecycle!Next]_(Lifecycle!vars)
<1>0. inbox \in [Users -> Box]
  BY DEF TypeOK
<1>1. CASE inbox' = inbox
  BY <1>1 DEF Lifecycle!vars, ShownAs
<1>2. ASSUME NEW u \in Users, NEW new \in Box,
             Visible(inbox[u], new), inbox' = [inbox EXCEPT ![u] = new]
      PROVE  [Lifecycle!Next]_(Lifecycle!vars)
  <2> DEFINE old == inbox[u]
  <2>1. \A v \in Users : inbox'[v] = IF v = u THEN new ELSE inbox[v]
    BY <1>0, <1>2
  <2>2. Tops' = [Tops EXCEPT ![u] = new.max]
    BY <2>1 DEF Tops
  <2>3. old \in Box /\ old.rows \in [Ids -> Row] /\ old.max \in Nat
    BY <1>0 DEF Box
  <2>4. /\ Tops[u] = old.max
        /\ \A i \in Ids : /\ Cells[u][i] = ShownAs(old, i)
                          /\ Positions[u][i] = old.rows[i].seq
    BY DEF Tops, Cells, Positions
  <2>5. ASSUME new.rows = old.rows, new.max \in {old.max, old.max + 1}
        PROVE  [Lifecycle!Next]_(Lifecycle!vars)
    <3>1. Cells' = Cells
      BY <2>1, <2>5 DEF Cells, ShownAs
    <3>2. Positions' = Positions
      BY <2>1, <2>5 DEF Positions
    <3>3. CASE new.max = old.max
      <4>1. Tops' = Tops
        BY <2>1, <3>3 DEF Tops
      <4> QED
        BY <3>1, <3>2, <4>1 DEF Lifecycle!vars, Cells, Positions, Tops
    <3>4. CASE new.max = old.max + 1
      <4>1. Tops' = [Tops EXCEPT ![u] = Tops[u] + 1]
        BY <2>2, <2>4, <3>4
      <4>2. Lifecycle!Skip(u)
        BY <3>1, <3>2, <4>1 DEF Lifecycle!Skip, Cells, Positions, Tops
      <4> QED
        BY <4>2 DEF Lifecycle!Next
    <3> QED
      BY <2>5, <3>3, <3>4
  <2>6. ASSUME NEW i \in Ids, NEW row \in Row, new.rows = [old.rows EXCEPT ![i] = row]
        PROVE  /\ Cells' = [Cells EXCEPT ![u] = [Cells[u] EXCEPT ![i] = ShownAs(new, i)]]
               /\ Positions' = [Positions EXCEPT ![u] = [Positions[u] EXCEPT ![i] = row.seq]]
    <3>1. \A j \in Ids : new.rows[j] = IF j = i THEN row ELSE old.rows[j]
      BY <2>3, <2>6
    <3>2. \A j \in Ids \ {i} : ShownAs(new, j) = ShownAs(old, j)
      BY <3>1 DEF ShownAs
    <3>3. [j \in Ids |-> ShownAs(new, j)] = [[j \in Ids |-> ShownAs(old, j)] EXCEPT ![i] = ShownAs(new, i)]
      BY <3>2
    <3>4. [j \in Ids |-> new.rows[j].seq] = [[j \in Ids |-> old.rows[j].seq] EXCEPT ![i] = row.seq]
      BY <3>1
    <3>5. Cells' = [v \in Users |-> IF v = u THEN [j \in Ids |-> ShownAs(new, j)] ELSE Cells[v]]
      BY <2>1 DEF Cells
    <3>6. Positions' = [v \in Users |-> IF v = u THEN [j \in Ids |-> new.rows[j].seq] ELSE Positions[v]]
      BY <2>1 DEF Positions
    <3>7. Cells = [v \in Users |-> Cells[v]] /\ Cells[u] = [j \in Ids |-> ShownAs(old, j)]
      BY DEF Cells
    <3>8. Positions = [v \in Users |-> Positions[v]] /\ Positions[u] = [j \in Ids |-> old.rows[j].seq]
      BY DEF Positions
    <3>9. Cells' = [Cells EXCEPT ![u] = [Cells[u] EXCEPT ![i] = ShownAs(new, i)]]
      BY <3>3, <3>5, <3>7
    <3>10. Positions' = [Positions EXCEPT ![u] = [Positions[u] EXCEPT ![i] = row.seq]]
      BY <3>4, <3>6, <3>8
    <3> QED
      BY <3>9, <3>10
  <2>7. ASSUME NEW i \in Ids, NEW row \in Row,
               new.rows = [old.rows EXCEPT ![i] = row],
               ~Exists(old, i), new.max = old.max + 1,
               row.seq = new.max, row.kind # "none", ~row.deleted
        PROVE  [Lifecycle!Next]_(Lifecycle!vars)
    <3>1. new.rows[i] = row
      BY <2>3, <2>7
    <3>2. ShownAs(new, i) = row.kind /\ row.kind \in Lifecycle!Shown
      BY <2>7, <3>1 DEF ShownAs, Row, Kinds, Lifecycle!Shown
    <3>3. Cells[u][i] = "absent"
      BY <2>4, <2>7 DEF ShownAs, Exists
    <3>4. Lifecycle!Place(u, i, row.kind)
      <4>1. Tops' = [Tops EXCEPT ![u] = Tops[u] + 1]
        BY <2>2, <2>4, <2>7
      <4>2. Positions' = [Positions EXCEPT ![u] = [Positions[u] EXCEPT ![i] = Tops[u] + 1]]
        BY <2>4, <2>6, <2>7
      <4>3. Cells' = [Cells EXCEPT ![u] = [Cells[u] EXCEPT ![i] = row.kind]]
        BY <2>6, <2>7, <3>2
      <4> QED
        BY <4>1, <4>2, <4>3 DEF Lifecycle!Place, Cells, Positions, Tops
    <3>5. Lifecycle!Arrive(u, i)
      BY <3>2, <3>3, <3>4 DEF Lifecycle!Arrive, Cells
    <3> QED
      BY <3>5 DEF Lifecycle!Next
  <2>8. ASSUME NEW i \in Ids, NEW row \in Row,
               new.rows = [old.rows EXCEPT ![i] = row],
               Live(old, i), old.rows[i].kind \in {"original", "placeholder"},
               new.max = old.max,
               row.seq = old.rows[i].seq, row.kind = "placeholder", ~row.deleted
        PROVE  [Lifecycle!Next]_(Lifecycle!vars)
    <3>1. new.rows[i] = row
      BY <2>3, <2>8
    <3>2. ShownAs(new, i) = "placeholder"
      BY <2>8, <3>1 DEF ShownAs
    <3>3. Cells[u][i] = old.rows[i].kind
      BY <2>4, <2>8 DEF ShownAs, Live, Exists
    <3>4. Positions' = Positions /\ Tops' = Tops
      <4>1. Positions \in [Users -> [Ids -> Nat]] /\ Tops \in [Users -> Nat]
        BY <1>0 DEF Positions, Tops, Box, Row
      <4> QED
        BY <2>2, <2>4, <2>6, <2>8, <4>1
    <3>5. CASE old.rows[i].kind = "original"
      <4>1. Lifecycle!Withdraw(u, i)
        BY <2>6, <2>8, <3>2, <3>3, <3>4, <3>5
           DEF Lifecycle!Withdraw, Cells, Positions, Tops
      <4> QED
        BY <4>1 DEF Lifecycle!Next
    <3>6. CASE old.rows[i].kind = "placeholder"
      <4>1. Cells = [v \in Users |-> [j \in Ids |-> Cells[v][j]]]
        BY DEF Cells
      <4>2. Cells' = [Cells EXCEPT ![u] = [Cells[u] EXCEPT ![i] = Cells[u][i]]]
        BY <2>6, <2>8, <3>2, <3>3, <3>6
      <4>3. Cells' = Cells
        BY <4>1, <4>2
      <4> QED
        BY <3>4, <4>3 DEF Lifecycle!vars, Cells, Positions, Tops
    <3> QED
      BY <2>8, <3>5, <3>6
  <2>9. ASSUME NEW i \in Ids, NEW row \in Row,
               new.rows = [old.rows EXCEPT ![i] = row],
               Live(old, i), new.max = old.max + 1,
               row.seq = new.max, row.kind = old.rows[i].kind, row.deleted
        PROVE  [Lifecycle!Next]_(Lifecycle!vars)
    <3>1. new.rows[i] = row
      BY <2>3, <2>9
    <3>2. ShownAs(new, i) = "gone"
      BY <2>9, <3>1 DEF ShownAs, Live, Exists
    <3>3. Cells[u][i] \in Lifecycle!Shown
      BY <2>3, <2>4, <2>9 DEF ShownAs, Live, Exists, Row, Kinds, Lifecycle!Shown
    <3>4. Lifecycle!Place(u, i, "gone")
      <4>1. Tops' = [Tops EXCEPT ![u] = Tops[u] + 1]
        BY <2>2, <2>4, <2>9
      <4>2. Positions' = [Positions EXCEPT ![u] = [Positions[u] EXCEPT ![i] = Tops[u] + 1]]
        BY <2>4, <2>6, <2>9
      <4>3. Cells' = [Cells EXCEPT ![u] = [Cells[u] EXCEPT ![i] = "gone"]]
        BY <2>6, <2>9, <3>2
      <4> QED
        BY <4>1, <4>2, <4>3 DEF Lifecycle!Place, Cells, Positions, Tops
    <3>5. Lifecycle!Erase(u, i)
      BY <3>3, <3>4 DEF Lifecycle!Erase, Cells
    <3> QED
      BY <3>5 DEF Lifecycle!Next
  <2> QED
    BY <1>2, <2>5, <2>7, <2>8, <2>9 DEF Visible
<1> QED
  BY <1>1, <1>2 DEF OneVisibleChange

\* In the initial state no inbox shows anything.
LEMMA InitIsLifecycleInit == Init => Lifecycle!Init /\ KindsOK
<1> SUFFICES ASSUME Init PROVE Lifecycle!Init /\ KindsOK
  OBVIOUS
<1>1. \A u \in Users : inbox[u] = EmptyBox
  BY DEF Init
<1>2. EmptyBox.max = 0 /\ EmptyBox.rows = [i \in Ids |-> NoRow]
  BY DEF EmptyBox
<1>3. \A i \in Ids : /\ EmptyBox.rows[i].kind = "none"
                     /\ EmptyBox.rows[i].seq = 0
                     /\ ShownAs(EmptyBox, i) = "absent"
  <2>1. NoRow.kind = "none" /\ NoRow.seq = 0
    BY DEF NoRow
  <2>2. \A i \in Ids : EmptyBox.rows[i] = NoRow
    BY <1>2
  <2> QED
    BY <2>1, <2>2 DEF ShownAs
<1>4. KindsOK
  BY <1>1, <1>3, NamesAreIds DEF KindsOK, Maskable
<1>5. Lifecycle!Init
  BY <1>1, <1>2, <1>3 DEF Lifecycle!Init
<1> QED
  BY <1>4, <1>5

\* However requests, retries, workers, deletions, errors and restarts
\* interleave, every inbox keeps the promises of InboxLifecycle.
THEOREM LifecycleKept == Spec => KeepsLifecycle
<1>1. WellFormed /\ KindsOK /\ [Next]_vars => KindsOK' /\ [Lifecycle!Next]_(Lifecycle!vars)
  BY StepKeeps, TransactionsAreVisible, VisibleChangeIsLifecycleStep DEF WellFormed
<1> QED
  BY <1>1, InitIsLifecycleInit, AlwaysWellFormed, PTL DEF Spec, KeepsLifecycle, Lifecycle!Spec
=============================================================================
