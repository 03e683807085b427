------------------------------- MODULE Inbox -------------------------------
(***************************************************************************)
(* The rows one user owns in his uid shard: messages, conversations and    *)
(* messages_version.  Every operator here is one SQL transaction of        *)
(* server/internal/dal (message_store.go, conversation_store.go,           *)
(* helpers.go), applied to one user's rows; the modules that extend this   *)
(* one interleave them the way the service layer calls them.               *)
(*                                                                         *)
(* A conversation row is keyed by its peer, a user for a direct chat and   *)
(* NoUser (to_uid = 0) for the one group that the models have.             *)
(***************************************************************************)
EXTENDS Naturals

CONSTANTS
  Ids,      \* every msg_id: client messages, recall events, system messages
  NoId,     \* last_msg_id of a conversation row that does not exist
  Users,
  NoUser    \* the peer of a group conversation

ASSUME InboxAssumption == NoId \notin Ids /\ NoUser \notin Users

(***************************************************************************)
(* What a message row holds.  A row inserted with the sent body is         *)
(* "original"; "placeholder" is the same msg_id with the RecallBody that   *)
(* names the row's own msg_id; "event" is a recall event, a RecallBody     *)
(* naming another msg_id; "none" means that there is no row.               *)
(***************************************************************************)
Kinds == {"none", "original", "placeholder", "event", "system"}

Row == [seq : Nat, kind : Kinds, deleted : BOOLEAN]

NoRow == [seq |-> 0, kind |-> "none", deleted |-> FALSE]

Conversation ==
  [status : {"none", "active", "deleted"}, seq : Nat,
   last : Ids \cup {NoId}, unread : Nat]

Chats == Users \cup {NoUser}

NoConversation == [status |-> "none", seq |-> 0, last |-> NoId, unread |-> 0]

Box == [max : Nat, rows : [Ids -> Row], conv : [Chats -> Conversation]]

EmptyBox ==
  [max |-> 0, rows |-> [i \in Ids |-> NoRow],
   conv |-> [k \in Chats |-> NoConversation]]

\* Mutant: the duplicate check overlooks tombstones (AND status != deleted).
ExistsUndeleted(box, id) == box.rows[id].kind # "none" /\ ~box.rows[id].deleted

Exists(box, id) == box.rows[id].kind # "none"

Live(box, id) == Exists(box, id) /\ ~box.rows[id].deleted

-----------------------------------------------------------------------------
(* Messages *)

\* Mutant: a duplicate is reported as -1.
DuplicateIsMinusOne(box, id) == IF Exists(box, id) THEN 0 - 1 ELSE box.max + 1

\* The seq MessageStore.Insert returns: 0 for a msg_id the inbox already has,
\* tombstones included.
InsertedSeq(box, id) == IF Exists(box, id) THEN 0 ELSE box.max + 1

\* Mutant: INSERT OR REPLACE.
InsertOrReplace(box, id, kind) ==
  [box EXCEPT
     !.max = box.max + 1,
     !.rows = [box.rows EXCEPT
                 ![id] = [seq |-> box.max + 1, kind |-> kind, deleted |-> FALSE]]]

\* MessageStore.Insert: a new row takes a fresh seq in the same transaction; a
\* known msg_id changes nothing and consumes no seq.
Insert(box, id, kind) ==
  IF Exists(box, id)
  THEN box
  ELSE [box EXCEPT
          !.max = box.max + 1,
          !.rows = [box.rows EXCEPT
                      ![id] = [seq |-> box.max + 1, kind |-> kind, deleted |-> FALSE]]]

\* MessageStore.UpdateByMsgID with a recall body: overwrites the body in place
\* and keeps the seq; a tombstone is left alone.
Mask(box, id) ==
  IF Live(box, id)
  THEN [box EXCEPT !.rows = [box.rows EXCEPT ![id] = [box.rows[id] EXCEPT !.kind = "placeholder"]]]
  ELSE box

\* Mutant: the tombstone takes the current seq instead of a fresh one.
DeleteAtCurrentSeq(box, id) ==
  IF Live(box, id)
  THEN [box EXCEPT
          !.rows = [box.rows EXCEPT
                      ![id] = [box.rows[id] EXCEPT !.seq = box.max, !.deleted = TRUE]]]
  ELSE box

\* MessageStore.DeleteByMsgID: the row becomes a tombstone at a fresh seq.
DeleteByMsgID(box, id) ==
  IF Live(box, id)
  THEN [box EXCEPT
          !.max = box.max + 1,
          !.rows = [box.rows EXCEPT
                      ![id] = [box.rows[id] EXCEPT !.seq = box.max + 1, !.deleted = TRUE]]]
  ELSE box

-----------------------------------------------------------------------------
(* Conversations *)

UnreadModes == {"increment", "keep"}

Bump(mode) == IF mode = "increment" THEN 1 ELSE 0

SetConversation(box, k, row) == [box EXCEPT !.conv = [box.conv EXCEPT ![k] = row]]

\* Mutant: ON CONFLICT DO UPDATE without the WHERE on seq.
UpsertAlways(box, k, seq, id, mode) ==
  SetConversation(box, k,
    [status |-> "active", seq |-> seq, last |-> id,
     unread |-> box.conv[k].unread + Bump(mode)])

\* Mutant: a deleted conversation is not revived by a new message.
UpsertUndeleted(box, k, seq, id, mode) ==
  IF box.conv[k].status = "deleted" THEN box
  ELSE IF box.conv[k].status = "none" \/ seq > box.conv[k].seq
  THEN UpsertAlways(box, k, seq, id, mode)
  ELSE box

\* ConversationStore.Upsert: inserts the missing row whatever its seq, and
\* replaces an existing one, deleted or not, only by a greater seq.
Upsert(box, k, seq, id, mode) ==
  IF box.conv[k].status = "none" \/ seq > box.conv[k].seq
  THEN SetConversation(box, k,
         [status |-> "active", seq |-> seq, last |-> id,
          unread |-> box.conv[k].unread + Bump(mode)])
  ELSE box

\* ConversationStore.ClearUnread: only an active row, and without a new seq.
ClearUnread(box, k) ==
  IF box.conv[k].status = "active"
  THEN SetConversation(box, k, [box.conv[k] EXCEPT !.unread = 0])
  ELSE box

\* ConversationStore.Delete: a tombstone at a fresh seq of messages_version.
DeleteConversation(box, k) ==
  IF box.conv[k].status = "active"
  THEN [SetConversation(box, k,
          [box.conv[k] EXCEPT !.status = "deleted", !.seq = box.max + 1, !.unread = 0])
        EXCEPT !.max = box.max + 1]
  ELSE box
=============================================================================
