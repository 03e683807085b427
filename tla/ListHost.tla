------------------------------ MODULE ListHost ------------------------------
(***************************************************************************)
(* The two hosts of BoundedList in the chat view, their source, the        *)
(* notices that reach them and the user (packages/uikit/src/app/views/     *)
(* chat): the list of the open conversation's messages and the list of     *)
(* conversations.                                                          *)
(*                                                                         *)
(* Messages never move and get fresh seqs at the fresh edge; a deleted one *)
(* is announced by its id.  A conversation moves to the fresh edge on      *)
(* every change, and a notice names the changed one, which is then fetched *)
(* by its identity.  Calls are answered in the order they were issued;     *)
(* notices arrive in any order, and one that is not consumed when the      *)
(* connection closes is lost.                                              *)
(***************************************************************************)
EXTENDS BoundedList

CONSTANTS
  Hosts,          \* the hosts to explore: "messages", "conversations"
  Conversations,  \* conversations whose messages are shown
  ConversationOf, \* the conversation of each identity (Ids are messages)
  Placeholders,   \* identities of messages that are being sent
  InitialSeqs,    \* the seqs of the rows that exist in the beginning
  Changing,       \* bound: the messages that others write and delete
  MaxEvents,      \* bound: writes, sends, failures and switches, all together
  MaxFaults       \* bound: failures of calls and disconnects among them

Messages == Ids \ Placeholders

NoMessage == 0

ASSUME HostAssumption ==
  /\ Hosts \subseteq {"messages", "conversations"}
  /\ ConversationOf \in [Ids -> Conversations]
  /\ Placeholders \subseteq Ids
  /\ NoMessage \notin Ids
  /\ Changing \subseteq Messages
  /\ InitialSeqs \in [Messages -> Nat]
  /\ IsFiniteSet({m \in Messages : InitialSeqs[m] > 0})
  /\ Queries = [conversation : Conversations, around : Messages \cup {NoMessage}]
  /\ MaxEvents \in Nat /\ MaxFaults \in Nat

VARIABLES
  host,       \* which of the two lists this is
  server,     \* the seq of each row at the source, 0 for none
  deleted,    \* messages that were deleted at the source
  unread,     \* conversations with unread messages, at the server
  notices,    \* notifications on their way
  connected,  \* the connection is up
  active,     \* the chat view is visible
  list,       \* the BoundedList
  sends,      \* sends that have not been answered
  acked,      \* history: sends that were answered
  spent       \* bounds used so far: events, faults among them, changes of the query

source == <<server, deleted, unread>>

vars == <<host, source, notices, connected, active, list, sends, acked, spent>>

Open == list.query.conversation

MayFail == spent.events < MaxEvents /\ spent.faults < MaxFaults

-----------------------------------------------------------------------------
(* The source *)

RowsOf(c) == {[id |-> m, seq |-> server[m]] :
                m \in {k \in Messages : ConversationOf[k] = c /\ server[k] > 0}}

Newest(rows, n) == {r \in rows : Cardinality({q \in rows : q.seq > r.seq}) < n}

Oldest(rows, n) == {r \in rows : Cardinality({q \in rows : q.seq < r.seq}) < n}

\* fetchSeqPage and seqKeysetPage: has_more is exact in the direction of travel,
\* and true in the other one when there is a cursor.
Slice(rows, edge, cursor) ==
  LET beyond == CASE cursor = 0 -> rows
                  [] cursor # 0 /\ edge = "old" -> {r \in rows : r.seq < cursor}
                  [] cursor # 0 /\ edge = "fresh" -> {r \in rows : r.seq > cursor}
      page == IF edge = "old" THEN Newest(beyond, PageSize) ELSE Oldest(beyond, PageSize)
  IN  [rows |-> page,
       moreOld |-> IF edge = "old" THEN page # beyond ELSE cursor # 0,
       moreFresh |-> IF edge = "old" THEN cursor # 0 ELSE page # beyond]

\* around: half a page up to the message and half a page after it, both has_more
\* true for the client to find the ends.
Around(rows, seq) ==
  LET page == Newest({r \in rows : r.seq <= seq}, (PageSize + 1) \div 2)
              \cup Oldest({r \in rows : r.seq > seq}, PageSize \div 2)
  IN  [rows |-> page, moreOld |-> page # {}, moreFresh |-> page # {}]

\* The source of getMessageList and of getConversationList.
AnswerTo(call) ==
  LET rows == RowsOf(call.query.conversation)
  IN  CASE call.kind = "targets" ->
             [NoAnswer EXCEPT !.rows = {r \in rows : r.id \in call.targets}]
        [] call.kind = "first" /\ call.query.around # NoMessage ->
             Around(rows, server[call.query.around])
        [] call.kind = "first" /\ call.query.around = NoMessage -> Slice(rows, "old", 0)
        [] call.kind \in Edges -> Slice(rows, call.kind, call.cursor)

\* An anchor that has been deleted is answered message_not_found.
Refused(call) ==
  call.kind = "first" /\ call.query.around # NoMessage /\ server[call.query.around] = 0

Unanswered == {i \in DOMAIN list.calls : list.calls[i].state = "sent"}

Serve ==
  /\ connected
  /\ Unanswered # {}
  /\ LET i == Min(Unanswered)
         call == list.calls[i]
     IN  list' = [list EXCEPT
                    !.calls[i].state = IF Refused(call) THEN "failed" ELSE "answered",
                    !.calls[i].answer = IF Refused(call) THEN NoAnswer
                                        ELSE AnswerTo(call)]
  /\ UNCHANGED <<host, source, notices, connected, active, sends, acked, spent>>

-----------------------------------------------------------------------------
(* The source changes *)

Top == Max({0} \cup {server[m] : m \in Messages})

Changed(m) == [kind |-> "changed", id |-> m]

\* The source has a row with a fresh seq, and says so.
Written(m) ==
  /\ server' = [server EXCEPT ![m] = Top + 1]
  /\ unread' = unread \cup {ConversationOf[m]}
  /\ notices' = IF connected THEN notices \cup {Changed(m)} ELSE notices

\* The next message of its conversation.
IsNew(m) == /\ server[m] = 0
            /\ m \notin deleted
            /\ \A k \in Messages : (server[k] = 0 /\ k \notin deleted
                                    /\ ConversationOf[k] = ConversationOf[m]) => m <= k

Write ==
  /\ spent.events < MaxEvents
  /\ \E m \in Changing : (host = "conversations" \/ IsNew(m)) /\ Written(m)
  /\ spent' = [spent EXCEPT !.events = @ + 1]
  /\ UNCHANGED <<host, deleted, connected, active, list, sends, acked>>

Delete ==
  /\ spent.events < MaxEvents
  /\ \E m \in Changing :
       /\ server[m] > 0
       /\ server' = [server EXCEPT ![m] = 0]
       /\ deleted' = IF host = "messages" THEN deleted \cup {m} ELSE deleted
       /\ notices' = IF ~connected THEN notices
                     ELSE notices \cup {[kind |-> IF host = "messages" THEN "deleted" ELSE "changed",
                                         id |-> m]}
  /\ spent' = [spent EXCEPT !.events = @ + 1]
  /\ UNCHANGED <<host, unread, connected, active, list, sends, acked>>

-----------------------------------------------------------------------------
(* The hosts *)

\* onLoadStateChange of the message list: the unread of the open conversation
\* is cleared when stale falls, unless the conversation changed or the page failed.
CaughtUp(l) ==
  /\ host = "messages"
  /\ list.stale /\ ~l.stale /\ ~l.failed
  /\ l.query.conversation = Open

\* Mutant: a failed catch-up counts too.
ShowEvenFailed(l) ==
  /\ list' = l
  /\ unread' = IF list.stale /\ ~l.stale /\ active THEN unread \ {Open} ELSE unread

\* The list becomes l, and reports it.
Show(l) ==
  /\ list' = l
  /\ unread' = IF CaughtUp(l) /\ active THEN unread \ {Open} ELSE unread

\* The oldest call lands, answered or failed.
Land ==
  /\ list.calls # <<>>
  /\ Head(list.calls).state # "sent"
  /\ \E l \in Landed([list EXCEPT !.calls = Tail(@)], Head(list.calls)) : Show(l)
  /\ UNCHANGED <<host, server, deleted, notices, connected, active, sends, acked, spent>>

\* The oldest call fails, answered on the server or not.
FailCall ==
  /\ list.calls # <<>>
  /\ Head(list.calls).state # "failed"
  /\ ~connected \/ MayFail
  /\ list' = [list EXCEPT !.calls[1].state = "failed", !.calls[1].answer = NoAnswer]
  /\ spent' = IF connected THEN [spent EXCEPT !.events = @ + 1, !.faults = @ + 1] ELSE spent
  /\ UNCHANGED <<host, source, notices, connected, active, sends, acked>>

DecideFrame ==
  /\ list.scheduled
  /\ Show(Decide(list, host = "messages" => active))
  /\ UNCHANGED <<host, server, deleted, notices, connected, active, sends, acked, spent>>

\* refreshOpenConversation: a message of any conversation was received.
\* refreshConversations: the list of conversations refreshes the named one.
NoticeChanged ==
  /\ connected
  /\ \E n \in notices :
       /\ n.kind = "changed"
       /\ notices' = notices \ {n}
       /\ list' = Invalidate(list, IF host = "messages" THEN {} ELSE {n.id})
       /\ unread' = IF host = "messages" /\ list.near /\ active THEN unread \ {Open} ELSE unread
  /\ UNCHANGED <<host, server, deleted, connected, active, sends, acked, spent>>

\* removeMessage
NoticeDeleted ==
  /\ connected
  /\ \E n \in notices :
       /\ n.kind = "deleted"
       /\ notices' = notices \ {n}
       /\ list' \in RemoveLocal(list, n.id)
  /\ UNCHANGED <<host, source, connected, active, sends, acked, spent>>

\* The connection closes.
Disconnect ==
  /\ connected
  /\ MayFail
  /\ connected' = FALSE
  /\ notices' = {}
  /\ spent' = [spent EXCEPT !.events = @ + 1, !.faults = @ + 1]
  /\ UNCHANGED <<host, source, active, list, sends, acked>>

\* invalidateBoundedLists; the calls of the old connection have failed by then.
Reconnect ==
  /\ ~connected
  /\ list.calls = <<>> /\ sends = {}
  /\ connected' = TRUE
  /\ list' = Invalidate(list, {})
  /\ UNCHANGED <<host, source, notices, active, sends, acked, spent>>

-----------------------------------------------------------------------------
(* The user *)

Scroll ==
  /\ \E near \in BOOLEAN, unblocked \in {{}, list.blocked} :
       list' = Scrolled(list, near, unblocked)
  /\ UNCHANGED <<host, source, notices, connected, active, sends, acked, spent>>

\* An edge is within reach.
Reach ==
  /\ \E edge \in Edges : MayLoadPage(list, edge) /\ Show(LoadPage(list, edge))
  /\ UNCHANGED <<host, server, deleted, notices, connected, active, sends, acked, spent>>

\* The pill is clicked, which is shown while the list is stale or failed.
ClickPill ==
  /\ list.stale \/ list.failed
  /\ Show(CatchUp(list))
  /\ UNCHANGED <<host, server, deleted, notices, connected, active, sends, acked, spent>>

\* switchView: resumeOpenConversation when the chat becomes visible again.
SwitchView ==
  /\ host = "messages"
  /\ spent.events < MaxEvents
  /\ active' = ~active
  /\ list' = IF ~active /\ list.stale THEN Invalidate(list, {}) ELSE list
  /\ spent' = [spent EXCEPT !.events = @ + 1]
  /\ UNCHANGED <<host, source, notices, connected, sends, acked>>

\* openConversation
OpenConversation ==
  /\ host = "messages"
  /\ active
  /\ spent.events < MaxEvents
  /\ \E c \in Conversations :
       /\ list' = Reset(list, [conversation |-> c, around |-> NoMessage])
       /\ unread' = unread \ {c}
  /\ spent' = [spent EXCEPT !.events = @ + 1, !.intents = @ + 1]
  /\ UNCHANGED <<host, server, deleted, notices, connected, active, sends, acked>>

\* jumpToMessageInConversation, to a message that a search of the open
\* conversation found.
JumpToMessage ==
  /\ host = "messages"
  /\ active
  /\ spent.events < MaxEvents
  /\ \E m \in Messages :
       /\ ConversationOf[m] = Open /\ (server[m] > 0 \/ m \in deleted)
       /\ Show(Reset(list, [conversation |-> Open, around |-> m]))
  /\ spent' = [spent EXCEPT !.events = @ + 1, !.intents = @ + 1]
  /\ UNCHANGED <<host, server, deleted, notices, connected, active, sends, acked>>

\* scrollToBottom: no scroll event comes of it when the list is there already.
ToBottom(l) == {Scrolled(l, TRUE, {})} \cup (IF l.near THEN {l} ELSE {})

\* sendOptimistically: a placeholder until send() is answered.
Send ==
  /\ host = "messages"
  /\ active
  /\ spent.events < MaxEvents
  /\ \E p \in Placeholders :
       /\ p \notin acked /\ \A s \in sends : s.placeholder # p
       /\ list' \in ToBottom(UpsertLocal(list, [id |-> p, seq |-> 0]))
       /\ sends' = sends \cup {[placeholder |-> p, conversation |-> Open, message |-> NoMessage]}
  /\ spent' = [spent EXCEPT !.events = @ + 1]
  /\ UNCHANGED <<host, source, notices, connected, active, acked>>

\* The server takes the message, and notifies this user too.
ServeSend ==
  /\ connected
  /\ \E s \in sends, m \in Messages :
       /\ s.message = NoMessage
       /\ ConversationOf[m] = s.conversation /\ IsNew(m)
       /\ server' = [server EXCEPT ![m] = Top + 1]
       /\ notices' = notices \cup {Changed(m)}
       /\ sends' = (sends \ {s}) \cup {[s EXCEPT !.message = m]}
  /\ UNCHANGED <<host, deleted, unread, connected, active, list, acked, spent>>

\* The answer: the placeholder gives way to the message, in whatever
\* conversation the list shows by then.
SendAnswered ==
  /\ \E s \in sends :
       /\ s.message # NoMessage
       /\ sends' = sends \ {s}
       /\ acked' = acked \cup {s.placeholder, s.message}
       /\ \E l \in RemoveLocal(list, s.placeholder) :
            list' \in ToBottom(UpsertLocal(l, [id |-> s.message, seq |-> server[s.message]]))
  /\ UNCHANGED <<host, source, notices, connected, active, spent>>

\* Mutant: the placeholder of a failed send stays.
SendFailsQuietly ==
  /\ ~connected
  /\ \E s \in sends : sends' = sends \ {s} /\ acked' = acked \cup {s.placeholder}
  /\ UNCHANGED <<host, source, notices, connected, active, list, spent>>

\* send() fails, whether or not the server took the message.
SendFails ==
  /\ ~connected \/ MayFail
  /\ \E s \in sends :
       /\ sends' = sends \ {s}
       /\ acked' = acked \cup {s.placeholder}
       /\ \E l \in RemoveLocal(list, s.placeholder) : list' \in ToBottom(l)
  /\ spent' = IF connected THEN [spent EXCEPT !.events = @ + 1, !.faults = @ + 1] ELSE spent
  /\ UNCHANGED <<host, source, notices, connected, active>>

-----------------------------------------------------------------------------
Init ==
  /\ host \in Hosts
  /\ server = InitialSeqs
  /\ deleted = {} /\ unread = {} /\ notices = {}
  /\ connected = TRUE /\ active = TRUE
  /\ \E c \in Conversations :
       list = Reset(NewList([conversation |-> c, around |-> NoMessage]),
                    [conversation |-> c, around |-> NoMessage])
  /\ sends = {} /\ acked = {}
  /\ spent = [events |-> 0, intents |-> 0, faults |-> 0]

Network == Serve \/ Land \/ FailCall \/ ServeSend \/ SendAnswered \/ SendFails

Notices == NoticeChanged \/ NoticeDeleted \/ Disconnect \/ Reconnect

User == Scroll \/ Reach \/ ClickPill \/ SwitchView \/ OpenConversation \/ JumpToMessage \/ Send

Next == Network \/ Notices \/ DecideFrame \/ Write \/ Delete \/ User

\* The transport answers or fails what was sent, hears notices and reconnects;
\* the event loop runs frames.
Transport ==
  \/ Serve \/ Land \/ ServeSend \/ SendAnswered
  \/ ~connected /\ (FailCall \/ SendFails)

Fairness ==
  /\ WF_vars(Transport)
  /\ WF_vars(NoticeChanged \/ NoticeDeleted \/ Reconnect)
  /\ WF_vars(DecideFrame)

Spec == Init /\ [][Next]_vars /\ Fairness

-----------------------------------------------------------------------------
(* Properties *)

\* The variables keep their types; at most one call for a page is out, and it
\* is the one that loading names.
TypeOK ==
  /\ host \in Hosts
  /\ server \in [Messages -> Nat]
  /\ deleted \subseteq Messages /\ unread \subseteq Conversations
  /\ notices \subseteq [kind : {"changed", "deleted"}, id : Messages]
  /\ connected \in BOOLEAN /\ active \in BOOLEAN
  /\ list.query \in Queries
  /\ list.loading \in {"none", "first"} \cup Edges
  /\ sends \subseteq [placeholder : Placeholders, conversation : Conversations,
                      message : Messages \cup {NoMessage}]
  /\ {list.calls[i].kind : i \in DOMAIN list.calls} \ {"targets"}
     = {list.loading} \ {"none"}

\* BoundedList.decide and its callers: a notice that no first page has covered
\* is being worked on, is due for a decision, or is shown to the user.
NeverForgotten ==
  list.dirty => list.loading # "none" \/ list.scheduled \/ list.stale

\* What the window should hold: the rows of the source between its edges, the
\* ones with a local record aside.
IsSlice ==
  LET local == {e.id : e \in list.overlay}
      w == list.window
      shown == {r \in RowsIn(w) : r.id \notin local}
      rows == {r \in RowsOf(Open) : r.id \notin local}
  IN  shown = {r \in rows : /\ w.moreOld => r.seq >= w.oldCursor
                            /\ w.moreFresh => r.seq <= w.freshCursor}

\* Nothing is under way that would change the list.
Quiet ==
  /\ connected /\ notices = {} /\ sends = {}
  /\ list.calls = <<>> /\ ~list.scheduled

\* runFirstPage, loadPage, evict: a list at rest either shows a slice of its
\* source without gap, duplicate or ghost, and knows at which ends it goes on,
\* or it tells the user that there is something to catch up with.
BehindIsShown == Quiet => list.stale \/ list.failed \/ IsSlice

\* The generation: the window never holds a row of another conversation than
\* the open one, however the calls of earlier conversations land.
WindowOfOpen == \A r \in RowsIn(list.window) : ConversationOf[r.id] = Open

\* LocalOverlay.settle: a message whose send was answered is not hidden again
\* by a first page that was asked for before it; it is visible wherever the
\* window reaches its place.
AckedStaysVisible ==
  \A m \in acked \cap Messages :
    /\ ConversationOf[m] = Open /\ server[m] > 0
    /\ list.window.pages # {}
    /\ ~list.window.moreFresh /\ server[m] >= list.window.oldCursor
    => m \in IdsOf(Visible(list))

\* sendOptimistically: a placeholder in the list stands for a send that is
\* still unanswered.
NoOrphanPlaceholder ==
  \A r \in Visible(list) : r.id \in Placeholders =>
    \E s \in sends : s.placeholder = r.id

\* The unread of the open conversation falls because stale fell.
ClearedByCatchUp ==
  /\ Open \in unread /\ Open \notin unread'
  /\ list.stale /\ ~list'.stale
  /\ spent'.intents = spent.intents

\* onLoadStateChange: a catch-up of the newest page clears the unread only with
\* that page on the screen.
ClearedWithNewest ==
  [][ClearedByCatchUp /\ list'.query.around = NoMessage
     => list'.loaded /\ ~list'.failed /\ ~list'.window.moreFresh]_vars

\* UI design: whatever clears the unread of the open conversation when stale
\* falls, the window has caught up with the fresh edge.
ClearedAtFreshEdge ==
  [][ClearedByCatchUp => list'.loaded /\ ~list'.window.moreFresh]_vars

\* decide and its callers: whoever stays at the fresh edge of a visible list
\* that has filled its viewport sees it catch up, or is told that it failed.
\* A list that slid there under its user decides nothing: it may stay behind,
\* and goes on showing that it does.
CatchesUp ==
  <>[](active /\ list.near /\ list.loading \notin Edges)
  => <>[](~list.dirty \/ list.failed \/ (list.slid /\ list.stale))
=============================================================================
