----------------------------- MODULE ListProofs -----------------------------
(***************************************************************************)
(* What holds of ListHost for every source, page size, window and bound.   *)
(*                                                                         *)
(* Of the flags: a notice is not forgotten (NeverForgotten), the window    *)
(* never shows another conversation (WindowOfOpen), a placeholder stands   *)
(* for a send (NoOrphanPlaceholder).  Each of these has one lemma per      *)
(* method of BoundedList, which says that the method keeps a predicate of  *)
(* the list, and one step per action of the host, which is a composition   *)
(* of methods.                                                             *)
(*                                                                         *)
(* Of the rows: a list at rest is a slice of its source or says that it is *)
(* not (BehindIsShown), what was sent stays visible (AckedStaysVisible),   *)
(* and the unread is cleared with the newest page on the screen            *)
(* (ClearedWithNewest).  Their invariant is SliceOK: message by message,   *)
(* the window holds what the source has as far as it reaches, and so does  *)
(* every answer on its way, of the messages nothing has happened to that   *)
(* the first page asked for last does not cover (Unchanged), and of the    *)
(* messages that were sent from here (Sent).  A method of the list either  *)
(* leaves the window and weathers (Steady) or asks for a first page        *)
(* (Restarted); the answers that land are the three cases left.            *)
(***************************************************************************)
EXTENDS ListHost, TLAPS, FiniteSetTheorems, SequenceTheorems, WellFoundedInduction

Fields == {"query", "window", "overlay", "calls", "loading", "blocked", "targets", "loaded",
           "failed", "dirty", "stale", "scheduled", "near", "slid", "stuck", "pin"}

\* A record of these fields whose flags are Booleans.
IsList(l) ==
  /\ DOMAIN l = Fields
  /\ l.dirty \in BOOLEAN /\ l.scheduled \in BOOLEAN /\ l.stale \in BOOLEAN

\* A notice that no first page has covered is being worked on, due or shown.
Remembers(l) ==
  /\ IsList(l)
  /\ l.dirty => l.loading # "none" \/ l.scheduled \/ l.stale

-----------------------------------------------------------------------------
(* No method forgets a notice *)

\* A first page starts with nothing left to remember.
LEMMA FirstPageRemembers ==
  ASSUME NEW l, IsList(l), NEW clear \in BOOLEAN, NEW pin
  PROVE  Remembers(RunFirstPage(l, clear, pin))
BY DEF IsList, Remembers, RunFirstPage, Fields

LEMMA ResetRemembers ==
  ASSUME NEW l, IsList(l), NEW query
  PROVE  Remembers(Reset(l, query))
<1>1. IsList([l EXCEPT !.query = query])
  BY DEF IsList, Fields
<1>2. QED
  BY <1>1, FirstPageRemembers DEF Reset

LEMMA NewListIsList ==
  ASSUME NEW query
  PROVE  IsList(NewList(query))
BY DEF IsList, NewList, Fields

LEMMA RefreshRemembers ==
  ASSUME NEW l, Remembers(l), NEW pin
  PROVE  Remembers(Refresh(l, pin))
<1>1. CASE l.loading = "first"
  BY <1>1 DEF IsList, Remembers, Refresh, Fields
<1>2. CASE l.loading # "first"
  BY <1>2, FirstPageRemembers DEF Remembers, Refresh
<1>3. QED
  BY <1>1, <1>2

LEMMA CatchUpRemembers ==
  ASSUME NEW l, Remembers(l)
  PROVE  Remembers(CatchUp(l))
BY RefreshRemembers, ResetRemembers DEF CatchUp, Remembers

\* What came during the request makes the list decide again.
LEMMA SettleRemembers ==
  ASSUME NEW l, Remembers(l), NEW failed
  PROVE  Remembers(SettleFirstPage(l, failed))
BY DEF IsList, Remembers, SettleFirstPage, Fields

LEMMA LoadPageRemembers ==
  ASSUME NEW l, Remembers(l), NEW edge \in Edges
  PROVE  Remembers(LoadPage(l, edge))
BY DEF IsList, Remembers, LoadPage, Fields, Edges

LEMMA RefreshIdentitiesRemembers ==
  ASSUME NEW l, Remembers(l)
  PROVE  Remembers(RefreshIdentities(l))
BY DEF IsList, Remembers, RefreshIdentities, Fields

LEMMA LandedRemembers ==
  ASSUME NEW l, Remembers(l), NEW call, call.kind \in {"first", "targets"} \cup Edges,
         NEW new \in Landed(l, call)
  PROVE  Remembers(new)
<1>1. CASE new = Fails(l, call.kind)
  <2>1. Remembers(PageFails(l, call.kind))
    BY DEF IsList, Remembers, PageFails, Fields
  <2>2. QED
    BY <1>1, <2>1, SettleRemembers DEF Fails, Edges
<1>2. CASE call.kind = "first" /\ new \in FirstPageLands(l, call.answer)
  <2>1. Remembers(SettleFirstPage(l, FALSE))
    BY SettleRemembers
  <2>2. PICK near : new = [SettleFirstPage(l, FALSE) EXCEPT
                             !.window = FirstPage(call.answer),
                             !.overlay = Settled(@), !.near = near, !.slid = FALSE]
    BY <1>2 DEF FirstPageLands
  <2>3. QED
    BY <2>1, <2>2 DEF IsList, Remembers, Fields
<1>3. CASE new = TargetsLand(l, call.targets, call.answer)
  BY <1>3 DEF IsList, Remembers, TargetsLand, Fields
<1>4. CASE call.kind \in Edges /\ new \in PageLands(l, call.kind, call.answer)
  BY <1>4 DEF IsList, Remembers, PageLands, Fields
<1>5. QED
  BY <1>1, <1>2, <1>3, <1>4 DEF Landed, Succeeds, Edges

LEMMA InvalidateRemembers ==
  ASSUME NEW l, Remembers(l), NEW targets
  PROVE  Remembers(Invalidate(l, targets))
BY DEF IsList, Remembers, Invalidate, Fields

\* A decision either works on the notice or shows it.
LEMMA DecideRemembers ==
  ASSUME NEW l, Remembers(l), NEW seen \in BOOLEAN
  PROVE  Remembers(Decide(l, seen))
<1> DEFINE due == [l EXCEPT !.scheduled = FALSE]
           shown == [due EXCEPT !.stale = TRUE]
<1>1. IsList(due) /\ due.loading = l.loading
  BY DEF IsList, Remembers, Fields
<1>2. Remembers(shown)
  BY DEF IsList, Remembers, Fields
<1>3. CASE ~l.dirty \/ l.loading # "none"
  <2>1. Remembers(due)
    BY <1>3 DEF IsList, Remembers, Fields
  <2>2. QED
    BY <1>3, <2>1 DEF Decide
<1>4. CASE l.dirty /\ l.loading = "none"
  <2>1. Remembers(Refresh(due, FALSE))
    BY <1>1, <1>4, FirstPageRemembers DEF Refresh
  <2>2. Remembers(RefreshIdentities(shown))
    BY <1>2, RefreshIdentitiesRemembers
  <2>3. QED
    BY <1>2, <1>4, <2>1, <2>2 DEF Decide
<1>5. QED
  BY <1>3, <1>4

LEMMA UpsertLocalRemembers ==
  ASSUME NEW l, Remembers(l), NEW row
  PROVE  Remembers(UpsertLocal(l, row))
BY DEF IsList, Remembers, UpsertLocal, Fields

\* A record is dropped over the row, and the fresh edge may come near.
Removed(l, id, near) ==
  [l EXCEPT !.overlay = Drop(l.overlay, id), !.targets = @ \ {id},
            !.near = near, !.slid = @ \/ (near /\ ~l.near)]

LEMMA RemovedIs ==
  ASSUME NEW l, NEW id, NEW new \in RemoveLocal(l, id)
  PROVE  \E near \in {l.near, TRUE} : new = Removed(l, id, near)
<1> DEFINE Nears == IF id \in IdsOf(Visible(l)) THEN {l.near, TRUE} ELSE {l.near}
<1>1. PICK near \in Nears :
        new = [l EXCEPT !.overlay = Drop(@, id), !.targets = @ \ {id},
                        !.near = near, !.slid = @ \/ (near /\ ~l.near)]
  BY DEF RemoveLocal
<1>2. near \in {l.near, TRUE}
  OBVIOUS
<1>3. new = Removed(l, id, near)
  BY <1>1 DEF Removed
<1> QED
  BY <1>2, <1>3

\* A list that is scrolled to its bottom, or is there and hears nothing of it.
LEMMA BottomIs ==
  ASSUME NEW l, NEW new \in ToBottom(l)
  PROVE  new = l \/ new = Scrolled(l, TRUE, {})
BY DEF ToBottom

LEMMA RemoveLocalRemembers ==
  ASSUME NEW l, Remembers(l), NEW id, NEW new \in RemoveLocal(l, id)
  PROVE  Remembers(new)
<1>1. PICK near \in {l.near, TRUE} : new = Removed(l, id, near)
  BY RemovedIs
<1> QED
  BY <1>1 DEF Removed, IsList, Remembers, Fields

LEMMA ScrolledRemembers ==
  ASSUME NEW l, Remembers(l), NEW near \in BOOLEAN, NEW unblocked
  PROVE  Remembers(Scrolled(l, near, unblocked))
BY DEF IsList, Remembers, Scrolled, Fields

-----------------------------------------------------------------------------
(* Every method keeps the list to its conversation *)

Kinds == {"first", "targets"} \cup Edges

\* Rows are messages of conversation c.
Within(rows, c) == \A r \in rows : r.id \in Messages /\ ConversationOf[r.id] = c

WindowWithin(w, c) ==
  /\ {"pages", "moreOld", "moreFresh", "oldCursor", "freshCursor"} = DOMAIN w
  /\ \A p \in w.pages : "rows" \in DOMAIN p /\ Within(p.rows, c)

CallWithin(call, c) ==
  /\ DOMAIN call = {"kind", "query", "cursor", "targets", "state", "answer"}
  /\ call.kind \in Kinds /\ call.query \in Queries
  /\ call.query.conversation = c
  /\ Within(call.answer.rows, c)

\* A sequence of such calls.
CallsWithin(calls, c) ==
  /\ calls \in Seq({calls[i] : i \in DOMAIN calls})
  /\ \A i \in DOMAIN calls : CallWithin(calls[i], c)

\* The list holds, and may still be given, rows of its conversation only.
Keeps(l) ==
  /\ DOMAIN l = Fields
  /\ l.query \in Queries
  /\ WindowWithin(l.window, l.query.conversation)
  /\ CallsWithin(l.calls, l.query.conversation)

LEMMA EmptyWindowWithin ==
  ASSUME NEW c
  PROVE  WindowWithin(EmptyWindow, c)
BY DEF WindowWithin, EmptyWindow

LEMMA FirstPageWithin ==
  ASSUME NEW c, NEW answer, Within(answer.rows, c)
  PROVE  WindowWithin(FirstPage(answer), c)
BY DEF WindowWithin, FirstPage, PageOf

LEMMA EvictedWithin ==
  ASSUME NEW c, NEW w, WindowWithin(w, c), NEW edge
  PROVE  WindowWithin(Evicted(w, edge), c)
BY DEF WindowWithin, Evicted

LEMMA DroppedWithin ==
  ASSUME NEW c, NEW w, WindowWithin(w, c), NEW ids, NEW p \in Dropped(w.pages, ids)
  PROVE  "rows" \in DOMAIN p /\ Within(p.rows, c)
<1>1. PICK q \in w.pages : p = [q EXCEPT !.rows = {r \in @ : r.id \notin ids}]
  BY DEF Dropped
<1>2. QED
  BY <1>1 DEF WindowWithin, Within

LEMMA ExtendedWithin ==
  ASSUME NEW c, NEW w, WindowWithin(w, c), NEW edge, NEW answer, Within(answer.rows, c)
  PROVE  WindowWithin(Extended(w, edge, answer), c)
<1> DEFINE empty == answer.rows = {}
           pages == Dropped(w.pages, IdsOf(answer.rows))
                    \cup (IF empty THEN {} ELSE {PageOf(answer.rows)})
           old == [w EXCEPT !.pages = pages, !.moreOld = ~empty /\ answer.moreOld,
                            !.oldCursor = IF empty THEN @ ELSE StartOf(answer.rows)]
           fresh == [w EXCEPT !.pages = pages, !.moreFresh = ~empty /\ answer.moreFresh,
                              !.freshCursor = IF empty THEN @ ELSE EndOf(answer.rows)]
<1>1. \A p \in pages : "rows" \in DOMAIN p /\ Within(p.rows, c)
  BY DroppedWithin DEF PageOf
<1> HIDE DEF pages
<1>2. WindowWithin(old, c) /\ WindowWithin(fresh, c)
  BY <1>1 DEF WindowWithin
<1>3. WindowWithin(Evicted(IF edge = "old" THEN old ELSE fresh, edge), c)
  BY <1>2, EvictedWithin
<1>4. QED
  BY <1>3 DEF Extended, pages

LEMMA RefreshedWithin ==
  ASSUME NEW c, NEW w, WindowWithin(w, c), NEW ids, NEW found, Within(found, c)
  PROVE  WindowWithin(Refreshed(w, ids, found), c)
<1> DEFINE Now(r) == IF r.id \in ids THEN {f \in found : f.id = r.id} ELSE {r}
           new == Refreshed(w, ids, found)
<1>1. /\ DOMAIN new = DOMAIN w
      /\ new.pages = {p \in {[q EXCEPT !.rows = UNION {Now(r) : r \in @}] : q \in w.pages} :
                         p.rows # {}}
  BY DEF Refreshed, WindowWithin
<1>2. ASSUME NEW p \in new.pages
      PROVE  "rows" \in DOMAIN p /\ Within(p.rows, c)
  <2>1. PICK q \in w.pages : p = [q EXCEPT !.rows = UNION {Now(r) : r \in @}]
    BY <1>1, <1>2
  <2>2. /\ DOMAIN p = DOMAIN q
        /\ p.rows = UNION {Now(r) : r \in q.rows}
    BY <2>1 DEF WindowWithin
  <2>3. \A r \in q.rows : Within(Now(r), c)
    BY DEF WindowWithin, Within
  <2>4. QED
    BY <2>2, <2>3 DEF WindowWithin, Within
<1>3. QED
  BY <1>1, <1>2 DEF WindowWithin

\* A sequence is one over its own elements.
LEMMA OwnElements ==
  ASSUME NEW S, NEW s \in Seq(S)
  PROVE  s \in Seq({s[i] : i \in DOMAIN s})
<1>1. s \in [1..Len(s) -> {s[i] : i \in DOMAIN s}] /\ Len(s) \in Nat
  OBVIOUS
<1>2. QED
  BY <1>1

LEMMA NoCallsWithin ==
  ASSUME NEW c
  PROVE  CallsWithin(<<>>, c)
BY DEF CallsWithin

LEMMA IssuedWithin ==
  ASSUME NEW c, NEW calls, CallsWithin(calls, c), NEW call, CallWithin(call, c)
  PROVE  CallsWithin(Append(calls, call), c)
<1> DEFINE S == {calls[i] : i \in DOMAIN calls}
           new == Append(calls, call)
<1>1. calls \in Seq(S \cup {call})
  BY DEF CallsWithin
<1>2. /\ new \in Seq(S \cup {call})
      /\ DOMAIN new = 1..(Len(calls) + 1)
      /\ \A i \in 1..Len(calls) : new[i] = calls[i]
      /\ new[Len(calls) + 1] = call
  BY <1>1
<1>3. \A i \in DOMAIN new : CallWithin(new[i], c)
  BY <1>1, <1>2 DEF CallsWithin
<1>4. new \in Seq({new[i] : i \in DOMAIN new})
  BY <1>2, OwnElements
<1>5. QED
  BY <1>3, <1>4 DEF CallsWithin

LEMMA LandingWithin ==
  ASSUME NEW c, NEW calls, CallsWithin(calls, c), calls # <<>>
  PROVE  CallsWithin(Tail(calls), c) /\ CallWithin(Head(calls), c)
<1> DEFINE S == {calls[i] : i \in DOMAIN calls}
           new == Tail(calls)
<1>1. calls \in Seq(S)
  BY DEF CallsWithin
<1>2. /\ new \in Seq(S)
      /\ Len(new) = Len(calls) - 1
      /\ \A i \in 1..Len(new) : new[i] = calls[i + 1]
      /\ Head(calls) = calls[1] /\ 1 \in DOMAIN calls
  BY <1>1
<1>3. \A i \in DOMAIN new : CallWithin(new[i], c)
  BY <1>1, <1>2 DEF CallsWithin
<1>4. new \in Seq({new[i] : i \in DOMAIN new})
  BY <1>2, OwnElements
<1>5. QED
  BY <1>2, <1>3, <1>4 DEF CallsWithin

LEMMA AnsweredWithin ==
  ASSUME NEW c, NEW calls, CallsWithin(calls, c), NEW i \in DOMAIN calls,
         NEW call, CallWithin(call, c)
  PROVE  CallsWithin([calls EXCEPT ![i] = call], c)
<1> DEFINE S == {calls[j] : j \in DOMAIN calls}
           new == [calls EXCEPT ![i] = call]
<1>1. calls \in Seq(S \cup {call})
  BY DEF CallsWithin
<1>2. new \in Seq(S \cup {call}) /\ DOMAIN new = DOMAIN calls
  BY <1>1
<1>3. \A j \in DOMAIN new : CallWithin(new[j], c)
  BY <1>2 DEF CallsWithin
<1> HIDE DEF new
<1>4. new \in Seq({new[j] : j \in DOMAIN new})
  BY <1>2, OwnElements
<1>5. QED
  BY <1>3, <1>4 DEF CallsWithin, new

LEMMA NewCallWithin ==
  ASSUME NEW query \in Queries, NEW kind \in Kinds, NEW cursor, NEW targets
  PROVE  CallWithin([kind |-> kind, query |-> query, cursor |-> cursor, targets |-> targets,
                     state |-> "sent", answer |-> NoAnswer], query.conversation)
BY DEF CallWithin, NoAnswer, Within

\* A first page forgets the earlier calls, and with clear the window too.
LEMMA FirstPageKeeps ==
  ASSUME NEW l, DOMAIN l = Fields, l.query \in Queries, NEW clear \in BOOLEAN, NEW pin,
         clear \/ WindowWithin(l.window, l.query.conversation)
  PROVE  Keeps(RunFirstPage(l, clear, pin)) /\ RunFirstPage(l, clear, pin).query = l.query
<1> DEFINE new == RunFirstPage(l, clear, pin)
           call == [kind |-> "first", query |-> l.query, cursor |-> 0, targets |-> {},
                    state |-> "sent", answer |-> NoAnswer]
<1>1. /\ DOMAIN new = Fields
      /\ new.query = l.query
      /\ new.window = IF clear THEN EmptyWindow ELSE l.window
      /\ new.calls = Append(<<>>, call)
  BY DEF RunFirstPage, Fields, Issued, Outdated
<1>2. CallsWithin(new.calls, l.query.conversation)
  BY <1>1, NewCallWithin, NoCallsWithin, IssuedWithin DEF Kinds
<1>3. WindowWithin(new.window, l.query.conversation)
  BY <1>1, EmptyWindowWithin
<1>4. QED
  BY <1>1, <1>2, <1>3 DEF Keeps

LEMMA ResetKeeps ==
  ASSUME NEW l, DOMAIN l = Fields, NEW query \in Queries
  PROVE  Keeps(Reset(l, query)) /\ Reset(l, query).query = query
<1> DEFINE asked == [l EXCEPT !.query = query]
<1>1. DOMAIN asked = Fields /\ asked.query = query
  BY DEF Fields
<1>2. Reset(l, query) = RunFirstPage(asked, TRUE, TRUE)
  BY DEF Reset
<1> HIDE DEF asked
<1>3. QED
  BY <1>1, <1>2, FirstPageKeeps

LEMMA RefreshKeeps ==
  ASSUME NEW l, Keeps(l), NEW pin
  PROVE  Keeps(Refresh(l, pin))
<1>1. CASE l.loading = "first"
  BY <1>1 DEF Keeps, Refresh, Fields
<1>2. CASE l.loading # "first"
  BY <1>2, FirstPageKeeps DEF Keeps, Refresh
<1>3. QED
  BY <1>1, <1>2

LEMMA CatchUpKeeps ==
  ASSUME NEW l, Keeps(l)
  PROVE  Keeps(CatchUp(l))
BY RefreshKeeps, ResetKeeps DEF CatchUp, Keeps

LEMMA SettleKeeps ==
  ASSUME NEW l, Keeps(l), NEW failed
  PROVE  Keeps(SettleFirstPage(l, failed))
BY DEF Keeps, SettleFirstPage, Fields

LEMMA LoadPageKeeps ==
  ASSUME NEW l, Keeps(l), NEW edge \in Edges
  PROVE  Keeps(LoadPage(l, edge))
<1> DEFINE new == LoadPage(l, edge)
           call == [kind |-> edge, query |-> l.query, cursor |-> CursorFor(l.window, edge),
                    targets |-> {}, state |-> "sent", answer |-> NoAnswer]
<1>1. /\ DOMAIN new = Fields
      /\ new.query = l.query /\ new.window = l.window
      /\ new.calls = Append(l.calls, call)
  BY DEF LoadPage, Fields, Issued, Keeps
<1>2. CallsWithin(new.calls, l.query.conversation)
  BY <1>1, NewCallWithin, IssuedWithin DEF Kinds, Keeps
<1>3. QED
  BY <1>1, <1>2 DEF Keeps

LEMMA RefreshIdentitiesKeeps ==
  ASSUME NEW l, Keeps(l)
  PROVE  Keeps(RefreshIdentities(l))
<1> DEFINE new == RefreshIdentities(l)
           targets == l.targets \cap IdsOf(RowsIn(l.window))
           call == [kind |-> "targets", query |-> l.query, cursor |-> 0,
                    targets |-> targets, state |-> "sent", answer |-> NoAnswer]
<1>1. /\ DOMAIN new = Fields
      /\ new.query = l.query /\ new.window = l.window
      /\ new.calls = IF targets = {} THEN l.calls ELSE Append(l.calls, call)
  BY DEF RefreshIdentities, Fields, Issued, Keeps
<1>2. CallsWithin(new.calls, l.query.conversation)
  <2>1. CallsWithin(Append(l.calls, call), l.query.conversation)
    BY NewCallWithin, IssuedWithin DEF Kinds, Keeps
  <2>2. QED
    BY <1>1, <2>1 DEF Keeps
<1>3. QED
  BY <1>1, <1>2 DEF Keeps

LEMMA LandedKeeps ==
  ASSUME NEW l, Keeps(l), NEW call, CallWithin(call, l.query.conversation),
         NEW new \in Landed(l, call)
  PROVE  Keeps(new) /\ new.query = l.query
<1> DEFINE c == l.query.conversation
<1>1. Within(call.answer.rows, c) /\ WindowWithin(l.window, c)
  BY DEF CallWithin, Keeps
<1>2. CASE new = Fails(l, call.kind)
  <2>1. Keeps(PageFails(l, call.kind)) /\ PageFails(l, call.kind).query = l.query
    BY DEF Keeps, PageFails, Fields
  <2>2. Keeps(SettleFirstPage(l, TRUE)) /\ SettleFirstPage(l, TRUE).query = l.query
    BY SettleKeeps DEF Keeps, SettleFirstPage, Fields
  <2>3. QED
    BY <1>2, <2>1, <2>2 DEF Fails, Edges, CallWithin, Kinds
<1>3. CASE new \in FirstPageLands(l, call.answer)
  <2>1. Keeps(SettleFirstPage(l, FALSE)) /\ SettleFirstPage(l, FALSE).query = l.query
    BY SettleKeeps DEF Keeps, SettleFirstPage, Fields
  <2>2. PICK near : new = [SettleFirstPage(l, FALSE) EXCEPT
                             !.window = FirstPage(call.answer),
                             !.overlay = Settled(@), !.near = near, !.slid = FALSE]
    BY <1>3 DEF FirstPageLands
  <2>3. WindowWithin(FirstPage(call.answer), c)
    BY <1>1, FirstPageWithin
  <2>4. QED
    BY <2>1, <2>2, <2>3 DEF Keeps, Fields
<1>4. CASE new = TargetsLand(l, call.targets, call.answer)
  <2>1. WindowWithin(Refreshed(l.window, call.targets, call.answer.rows), c)
    BY <1>1, RefreshedWithin
  <2>2. QED
    BY <1>4, <2>1 DEF Keeps, TargetsLand, Fields
<1>5. CASE new \in PageLands(l, call.kind, call.answer)
  <2>1. WindowWithin(Extended(l.window, call.kind, call.answer), c)
    BY <1>1, ExtendedWithin
  <2>2. QED
    BY <1>5, <2>1 DEF Keeps, PageLands, Fields
<1>6. QED
  BY <1>2, <1>3, <1>4, <1>5 DEF Landed, Succeeds, Edges, CallWithin, Kinds

LEMMA InvalidateKeeps ==
  ASSUME NEW l, Keeps(l), NEW targets
  PROVE  Keeps(Invalidate(l, targets))
BY DEF Keeps, Invalidate, Fields

LEMMA DecideKeeps ==
  ASSUME NEW l, Keeps(l), NEW seen \in BOOLEAN
  PROVE  Keeps(Decide(l, seen)) /\ Decide(l, seen).query = l.query
<1> DEFINE due == [l EXCEPT !.scheduled = FALSE]
           shown == [due EXCEPT !.stale = TRUE]
<1>1. Keeps(due) /\ Keeps(shown) /\ due.loading = l.loading
  BY DEF Keeps, Fields
<1>2. Keeps(Refresh(due, FALSE)) /\ Keeps(RefreshIdentities(shown))
  BY <1>1, RefreshKeeps, RefreshIdentitiesKeeps
<1>3. /\ due.query = l.query /\ shown.query = l.query
      /\ Refresh(due, FALSE).query = l.query
      /\ RefreshIdentities(shown).query = l.query
  BY DEF Keeps, Fields, Refresh, RunFirstPage, RefreshIdentities
<1>4. Decide(l, seen) \in {due, shown, Refresh(due, FALSE), RefreshIdentities(shown)}
  BY DEF Decide
<1>5. QED
  BY <1>1, <1>2, <1>3, <1>4

LEMMA UpsertLocalKeeps ==
  ASSUME NEW l, Keeps(l), NEW row
  PROVE  Keeps(UpsertLocal(l, row))
BY DEF Keeps, UpsertLocal, Fields

LEMMA RemoveLocalKeeps ==
  ASSUME NEW l, Keeps(l), NEW id, NEW new \in RemoveLocal(l, id)
  PROVE  Keeps(new)
<1>1. PICK near \in {l.near, TRUE} : new = Removed(l, id, near)
  BY RemovedIs
<1> QED
  BY <1>1 DEF Removed, Keeps, Fields

LEMMA ScrolledKeeps ==
  ASSUME NEW l, Keeps(l), NEW near, NEW unblocked
  PROVE  Keeps(Scrolled(l, near, unblocked))
BY DEF Keeps, Scrolled, Fields

LEMMA BottomKeeps ==
  ASSUME NEW l, Remembers(l), Keeps(l), NEW new \in ToBottom(l)
  PROVE  Remembers(new) /\ Keeps(new)
BY BottomIs, ScrolledRemembers, ScrolledKeeps

-----------------------------------------------------------------------------
(* No method shows a placeholder that stands for nothing *)

\* A record is of its own identity, and a placeholder in it is one of those that
\* stand for a send.
Stands(overlay, placeholders) ==
  \A e \in overlay :
    /\ DOMAIN e = {"id", "row", "covered"}
    /\ \A r \in e.row : r.id = e.id /\ (r.id \in Placeholders => r.id \in placeholders)

LEMMA CoveredStands ==
  ASSUME NEW o, NEW P, Stands(o, P)
  PROVE  Stands(Covered(o), P)
BY DEF Stands, Covered

LEMMA SettledStands ==
  ASSUME NEW o, NEW P, Stands(o, P)
  PROVE  Stands(Settled(o), P)
BY DEF Stands, Settled

LEMMA PutStands ==
  ASSUME NEW o, NEW P, Stands(o, P), NEW row, row.id \in Placeholders => row.id \in P
  PROVE  Stands(Put(o, row), P)
BY DEF Stands, Put, Recorded

\* A placeholder that is dropped need not stand for anything any more.
LEMMA DropStands ==
  ASSUME NEW o, NEW P, NEW id, Stands(o, P \cup {id})
  PROVE  Stands(Drop(o, id), P)
BY DEF Stands, Drop, Recorded

LEMMA FirstPageStands ==
  ASSUME NEW l, DOMAIN l = Fields, NEW P, NEW clear \in BOOLEAN, NEW pin,
         clear \/ Stands(l.overlay, P)
  PROVE  Stands(RunFirstPage(l, clear, pin).overlay, P)
<1>1. RunFirstPage(l, clear, pin).overlay = IF clear THEN {} ELSE Covered(l.overlay)
  BY DEF RunFirstPage, Fields
<1>2. Stands({}, P)
  BY DEF Stands
<1>3. QED
  BY <1>1, <1>2, CoveredStands

LEMMA ResetStands ==
  ASSUME NEW l, DOMAIN l = Fields, NEW P, NEW query
  PROVE  Stands(Reset(l, query).overlay, P)
<1>1. DOMAIN [l EXCEPT !.query = query] = Fields
  BY DEF Fields
<1>2. QED
  BY <1>1, FirstPageStands DEF Reset

LEMMA RefreshStands ==
  ASSUME NEW l, DOMAIN l = Fields, NEW P, Stands(l.overlay, P), NEW pin
  PROVE  Stands(Refresh(l, pin).overlay, P)
<1>1. CASE l.loading = "first"
  BY <1>1 DEF Refresh, Fields
<1>2. CASE l.loading # "first"
  BY <1>2, FirstPageStands DEF Refresh
<1>3. QED
  BY <1>1, <1>2

LEMMA CatchUpStands ==
  ASSUME NEW l, DOMAIN l = Fields, NEW P, Stands(l.overlay, P)
  PROVE  Stands(CatchUp(l).overlay, P)
BY RefreshStands, ResetStands DEF CatchUp

\* These leave the overlay alone.
LEMMA OverlayAlone ==
  ASSUME NEW l, DOMAIN l = Fields, NEW edge, NEW failed, NEW ids, NEW near, NEW state,
         NEW answer
  PROVE  /\ LoadPage(l, edge).overlay = l.overlay
         /\ RefreshIdentities(l).overlay = l.overlay
         /\ SettleFirstPage(l, failed).overlay = l.overlay
         /\ PageFails(l, edge).overlay = l.overlay
         /\ TargetsLand(l, ids, answer).overlay = l.overlay
         /\ Invalidate(l, ids).overlay = l.overlay
         /\ Scrolled(l, near, ids).overlay = l.overlay
BY DEF Fields, LoadPage, RefreshIdentities, SettleFirstPage, PageFails, TargetsLand,
       Invalidate, Scrolled

LEMMA LandedStands ==
  ASSUME NEW l, DOMAIN l = Fields, NEW P, Stands(l.overlay, P),
         NEW call, call.kind \in Kinds, NEW new \in Landed(l, call)
  PROVE  Stands(new.overlay, P)
<1>1. CASE new = Fails(l, call.kind)
  BY <1>1, OverlayAlone DEF Fails, Kinds, Edges
<1>2. CASE call.kind = "first" /\ new \in FirstPageLands(l, call.answer)
  <2>1. new.overlay = Settled(l.overlay)
    BY <1>2 DEF FirstPageLands, SettleFirstPage, Fields
  <2>2. QED
    BY <2>1, SettledStands
<1>3. CASE call.kind = "targets" /\ new = TargetsLand(l, call.targets, call.answer)
  BY <1>3, OverlayAlone
<1>4. CASE call.kind \in Edges /\ new \in PageLands(l, call.kind, call.answer)
  <2>1. new.overlay = l.overlay
    BY <1>4 DEF PageLands, Fields
  <2>2. QED
    BY <2>1
<1>5. QED
  BY <1>1, <1>2, <1>3, <1>4 DEF Landed, Succeeds, Kinds, Edges

LEMMA DecideStands ==
  ASSUME NEW l, DOMAIN l = Fields, NEW P, Stands(l.overlay, P), NEW seen \in BOOLEAN
  PROVE  Stands(Decide(l, seen).overlay, P)
<1> DEFINE due == [l EXCEPT !.scheduled = FALSE]
           shown == [due EXCEPT !.stale = TRUE]
<1>1. /\ DOMAIN due = Fields /\ due.overlay = l.overlay
      /\ DOMAIN shown = Fields /\ shown.overlay = l.overlay
  BY DEF Fields
<1>2. Decide(l, seen) \in {due, shown, Refresh(due, FALSE), RefreshIdentities(shown)}
  BY DEF Decide
<1> HIDE DEF due, shown
<1>3. RefreshIdentities(shown).overlay = l.overlay
  BY <1>1, OverlayAlone
<1>4. Stands(Refresh(due, FALSE).overlay, P)
  BY <1>1, RefreshStands
<1>5. QED
  BY <1>1, <1>2, <1>3, <1>4

\* What SendAnswered and SendFails do to the list.
LEMMA GoneStands ==
  ASSUME NEW l, DOMAIN l = Fields, NEW P, NEW id, Stands(l.overlay, P \cup {id}),
         NEW new \in RemoveLocal(l, id)
  PROVE  Stands(new.overlay, P) /\ DOMAIN new = Fields
<1>1. PICK near \in {l.near, TRUE} : new = Removed(l, id, near)
  BY RemovedIs
<1>2. new.overlay = Drop(l.overlay, id) /\ DOMAIN new = Fields
  BY <1>1 DEF Removed, Fields
<1>3. QED
  BY <1>2, DropStands

LEMMA BottomAlone ==
  ASSUME NEW l, DOMAIN l = Fields, NEW new \in ToBottom(l)
  PROVE  new.overlay = l.overlay
<1>1. Scrolled(l, TRUE, {}).overlay = l.overlay
  BY DEF Scrolled, Fields
<1> QED
  BY <1>1, BottomIs

LEMMA PutToBottomStands ==
  ASSUME NEW l, DOMAIN l = Fields, NEW P, Stands(l.overlay, P),
         NEW row, row.id \in Placeholders => row.id \in P,
         NEW new \in ToBottom(UpsertLocal(l, row))
  PROVE  Stands(new.overlay, P)
<1> DEFINE put == UpsertLocal(l, row)
<1>1. put.overlay = Put(l.overlay, row) /\ DOMAIN put = Fields
  BY DEF UpsertLocal, Fields
<1> HIDE DEF put
<1>2. new.overlay = put.overlay
  BY <1>1, BottomAlone DEF put
<1>3. Stands(Put(l.overlay, row), P)
  BY PutStands
<1>4. QED
  BY <1>1, <1>2, <1>3 DEF put

-----------------------------------------------------------------------------
(* The source answers within the conversation it is asked for *)

LEMMA AnswerWithin ==
  ASSUME NEW c, NEW call, CallWithin(call, c)
  PROVE  Within(AnswerTo(call).rows, c)
<1> DEFINE rows == RowsOf(call.query.conversation)
<1>1. Within(rows, c)
  BY DEF RowsOf, Within, CallWithin
<1> HIDE DEF rows
<1>2. ASSUME NEW edge \in Edges, NEW cursor
      PROVE  Slice(rows, edge, cursor).rows \subseteq rows
  BY DEF Slice, Newest, Oldest, Edges
<1>3. ASSUME NEW seq
      PROVE  Around(rows, seq).rows \subseteq rows
  BY DEF Around, Newest, Oldest
<1>4. AnswerTo(call).rows \subseteq rows
  <2>1. CASE call.kind = "targets"
    <3>1. AnswerTo(call) = [NoAnswer EXCEPT !.rows = {r \in rows : r.id \in call.targets}]
      BY <2>1 DEF AnswerTo, rows, Edges
    <3>2. QED
      BY <3>1 DEF NoAnswer
  <2>2. CASE call.kind = "first" /\ call.query.around # NoMessage
    <3>1. AnswerTo(call) = Around(rows, server[call.query.around])
      BY <2>2 DEF AnswerTo, rows, Edges
    <3>2. QED
      BY <1>3, <3>1
  <2>3. CASE call.kind = "first" /\ call.query.around = NoMessage
    <3>1. AnswerTo(call) = Slice(rows, "old", 0)
      BY <2>3 DEF AnswerTo, rows, Edges
    <3>2. QED
      BY <1>2, <3>1 DEF Edges
  <2>4. CASE call.kind \in Edges
    <3>1. AnswerTo(call) = Slice(rows, call.kind, call.cursor)
      BY <2>4 DEF AnswerTo, rows, Edges
    <3>2. QED
      BY <1>2, <2>4, <3>1
  <2>5. QED
    BY <2>1, <2>2, <2>3, <2>4 DEF CallWithin, Kinds
<1>5. QED
  BY <1>1, <1>4 DEF Within

\* A call is given an answer: the list has the same fields but for that call.
LEMMA GivenKeeps ==
  ASSUME NEW l, Keeps(l), NEW i, NEW state, NEW answer,
         i \in DOMAIN l.calls => Within(answer.rows, l.query.conversation)
  PROVE  Keeps([l EXCEPT !.calls[i].state = state, !.calls[i].answer = answer])
<1> DEFINE new == [l EXCEPT !.calls[i].state = state, !.calls[i].answer = answer]
           call == [l.calls[i] EXCEPT !.state = state, !.answer = answer]
<1>1. /\ DOMAIN new = Fields
      /\ new.query = l.query /\ new.window = l.window
  BY DEF Keeps, Fields
<1>2. new.calls = [[l.calls EXCEPT ![i].state = state] EXCEPT ![i].answer = answer]
  BY DEF Keeps, Fields
<1>3. CASE i \notin DOMAIN l.calls
  <2>1. l.calls = [j \in DOMAIN l.calls |-> l.calls[j]]
    BY DEF Keeps, CallsWithin
  <2>2. new.calls = l.calls
    BY <1>2, <1>3, <2>1
  <2>3. QED
    BY <1>1, <2>2 DEF Keeps
<1>4. CASE i \in DOMAIN l.calls
  <2>1. CallWithin(call, l.query.conversation)
    BY <1>4 DEF Keeps, CallsWithin, CallWithin
  <2>2. new.calls = [l.calls EXCEPT ![i] = call]
    BY <1>2, <1>4
  <2>3. CallsWithin(new.calls, l.query.conversation)
    BY <1>4, <2>1, <2>2, AnsweredWithin DEF Keeps
  <2>4. QED
    BY <1>1, <2>3 DEF Keeps
<1>5. QED
  BY <1>3, <1>4

-----------------------------------------------------------------------------
(* The steps of the host *)

\* The inductive invariant of the list.
ListOK == Remembers(list) /\ Keeps(list)

LEMMA InitOK ==
  ASSUME Init
  PROVE  ListOK
<1>1. PICK c \in Conversations :
        list = Reset(NewList([conversation |-> c, around |-> NoMessage]),
                     [conversation |-> c, around |-> NoMessage])
  BY DEF Init
<1> DEFINE query == [conversation |-> c, around |-> NoMessage]
<1>2. query \in Queries
  BY HostAssumption
<1>3. IsList(NewList(query)) /\ DOMAIN NewList(query) = Fields
  BY NewListIsList DEF IsList
<1> HIDE DEF query
<1>4. QED
  BY <1>1, <1>2, <1>3, ResetRemembers, ResetKeeps DEF ListOK, query

LEMMA ServeOK ==
  ASSUME ListOK, Serve
  PROVE  ListOK'
<1> DEFINE i == Min(Unanswered)
           call == list.calls[i]
           state == IF Refused(call) THEN "failed" ELSE "answered"
           answer == IF Refused(call) THEN NoAnswer ELSE AnswerTo(call)
<1>1. list' = [list EXCEPT !.calls[i].state = state, !.calls[i].answer = answer]
  BY DEF Serve
<1>2. i \in DOMAIN list.calls => Within(answer.rows, list.query.conversation)
  <2>1. i \in DOMAIN list.calls => CallWithin(call, list.query.conversation)
    BY DEF ListOK, Keeps, CallsWithin
  <2>2. Within(NoAnswer.rows, list.query.conversation)
    BY DEF Within, NoAnswer
  <2>3. QED
    BY <2>1, <2>2, AnswerWithin
<1> HIDE DEF i, call, state, answer
<1>3. Keeps(list')
  BY <1>1, <1>2, GivenKeeps DEF ListOK
<1>4. Remembers(list')
  BY <1>1 DEF ListOK, Remembers, IsList, Fields
<1>5. QED
  BY <1>3, <1>4 DEF ListOK

LEMMA FailCallOK ==
  ASSUME ListOK, FailCall
  PROVE  ListOK'
<1>1. list' = [list EXCEPT !.calls[1].state = "failed", !.calls[1].answer = NoAnswer]
  BY DEF FailCall
<1>2. Within(NoAnswer.rows, list.query.conversation)
  BY DEF Within, NoAnswer
<1>3. Keeps(list')
  BY <1>1, <1>2, GivenKeeps DEF ListOK
<1>4. Remembers(list')
  BY <1>1 DEF ListOK, Remembers, IsList, Fields
<1>5. QED
  BY <1>3, <1>4 DEF ListOK

LEMMA LandOK ==
  ASSUME ListOK, Land
  PROVE  ListOK'
<1> DEFINE left == [list EXCEPT !.calls = Tail(@)]
           call == Head(list.calls)
<1>1. list.calls # <<>> /\ list' \in Landed(left, call)
  BY DEF Land, Show
<1>2. /\ DOMAIN left = Fields
      /\ left.query = list.query /\ left.window = list.window
      /\ left.calls = Tail(list.calls)
  BY DEF ListOK, Keeps, Fields
<1>3. CallsWithin(Tail(list.calls), list.query.conversation)
      /\ CallWithin(call, list.query.conversation)
  BY <1>1, LandingWithin DEF ListOK, Keeps
<1>4. Keeps(left)
  BY <1>2, <1>3 DEF ListOK, Keeps
<1>5. Remembers(left)
  BY DEF ListOK, Remembers, IsList, Fields
<1> HIDE DEF left, call
<1>6. Keeps(list')
  BY <1>1, <1>2, <1>3, <1>4, LandedKeeps
<1>7. call.kind \in {"first", "targets"} \cup Edges
  BY <1>3 DEF CallWithin, Kinds
<1>8. Remembers(list')
  BY <1>1, <1>5, <1>7, LandedRemembers
<1>9. QED
  BY <1>6, <1>8 DEF ListOK

LEMMA NoticesOK ==
  ASSUME ListOK, Notices \/ DecideFrame
  PROVE  ListOK'
<1>1. CASE NoticeChanged
  BY <1>1, InvalidateRemembers, InvalidateKeeps DEF NoticeChanged, ListOK
<1>2. CASE NoticeDeleted
  BY <1>2, RemoveLocalRemembers, RemoveLocalKeeps DEF NoticeDeleted, ListOK
<1>3. CASE Disconnect
  BY <1>3 DEF Disconnect, ListOK, Remembers, IsList, Keeps
<1>4. CASE Reconnect
  BY <1>4, InvalidateRemembers, InvalidateKeeps DEF Reconnect, ListOK
<1>5. CASE DecideFrame
  <2>1. list' = Decide(list, host = "messages" => active)
    BY <1>5 DEF DecideFrame, Show
  <2>2. (host = "messages" => active) \in BOOLEAN
    OBVIOUS
  <2>3. QED
    BY <2>1, <2>2, DecideRemembers, DecideKeeps DEF ListOK
<1>6. QED
  BY <1>1, <1>2, <1>3, <1>4, <1>5 DEF Notices

LEMMA UserOK ==
  ASSUME ListOK, User
  PROVE  ListOK'
<1>1. CASE Scroll
  BY <1>1, ScrolledRemembers, ScrolledKeeps DEF Scroll, ListOK
<1>2. CASE Reach
  BY <1>2, LoadPageRemembers, LoadPageKeeps DEF Reach, Show, ListOK
<1>3. CASE ClickPill
  BY <1>3, CatchUpRemembers, CatchUpKeeps DEF ClickPill, Show, ListOK
<1>4. CASE SwitchView
  BY <1>4, InvalidateRemembers, InvalidateKeeps DEF SwitchView, ListOK
<1>5. CASE OpenConversation
  <2>1. PICK c \in Conversations :
          list' = Reset(list, [conversation |-> c, around |-> NoMessage])
    BY <1>5 DEF OpenConversation
  <2>2. [conversation |-> c, around |-> NoMessage] \in Queries
    BY HostAssumption
  <2>3. QED
    BY <2>1, <2>2, ResetRemembers, ResetKeeps DEF ListOK, Remembers, Keeps
<1>6. CASE JumpToMessage
  <2>1. PICK m \in Messages :
          list' = Reset(list, [conversation |-> Open, around |-> m])
    BY <1>6 DEF JumpToMessage, Show
  <2>2. [conversation |-> Open, around |-> m] \in Queries
    BY HostAssumption DEF ListOK, Keeps, Open
  <2>3. QED
    BY <2>1, <2>2, ResetRemembers, ResetKeeps DEF ListOK, Remembers, Keeps
<1>7. CASE Send
  <2>1. PICK p \in Placeholders :
          list' \in ToBottom(UpsertLocal(list, [id |-> p, seq |-> 0]))
    BY <1>7 DEF Send
  <2>2. QED
    BY <2>1, UpsertLocalRemembers, UpsertLocalKeeps, BottomKeeps DEF ListOK
<1>8. QED
  BY <1>1, <1>2, <1>3, <1>4, <1>5, <1>6, <1>7 DEF User

LEMMA StepOK ==
  ASSUME ListOK, [Next]_vars
  PROVE  ListOK'
<1>1. CASE Serve
  BY <1>1, ServeOK
<1>2. CASE Land
  BY <1>2, LandOK
<1>3. CASE FailCall
  BY <1>3, FailCallOK
<1>4. CASE ServeSend
  BY <1>4 DEF ServeSend, ListOK, Remembers, IsList, Keeps
<1>5. CASE SendAnswered
  <2>1. PICK s \in sends : \E l \in RemoveLocal(list, s.placeholder) :
          list' \in ToBottom(UpsertLocal(l, [id |-> s.message, seq |-> server[s.message]]))
    BY <1>5 DEF SendAnswered
  <2>2. PICK l \in RemoveLocal(list, s.placeholder) :
          list' \in ToBottom(UpsertLocal(l, [id |-> s.message, seq |-> server[s.message]]))
    BY <2>1
  <2>3. Remembers(l) /\ Keeps(l)
    BY RemoveLocalRemembers, RemoveLocalKeeps DEF ListOK
  <2>4. QED
    BY <2>2, <2>3, UpsertLocalRemembers, UpsertLocalKeeps, BottomKeeps DEF ListOK
<1>6. CASE SendFails
  <2>1. PICK s \in sends : \E l \in RemoveLocal(list, s.placeholder) : list' \in ToBottom(l)
    BY <1>6 DEF SendFails
  <2>2. PICK l \in RemoveLocal(list, s.placeholder) : list' \in ToBottom(l)
    BY <2>1
  <2>3. Remembers(l) /\ Keeps(l)
    BY RemoveLocalRemembers, RemoveLocalKeeps DEF ListOK
  <2>4. QED
    BY <2>2, <2>3, BottomKeeps DEF ListOK
<1>7. CASE Write \/ Delete \/ UNCHANGED vars
  <2>1. list' = list
    BY <1>7 DEF Write, Delete, vars
  <2>2. QED
    BY <2>1 DEF ListOK, Remembers, IsList, Keeps
<1>8. QED
  BY <1>1, <1>2, <1>3, <1>4, <1>5, <1>6, <1>7, NoticesOK, UserOK DEF Next, Network

-----------------------------------------------------------------------------
(* The sends behind the placeholders *)

Standing == {s.placeholder : s \in sends}

\* The inductive invariant of the overlay.
SendsOK ==
  /\ sends \subseteq [placeholder : Placeholders, conversation : Conversations,
                      message : Messages \cup {NoMessage}]
  /\ Stands(list.overlay, Standing)

LEMMA InitSendsOK ==
  ASSUME Init
  PROVE  SendsOK
<1>1. PICK c \in Conversations :
        list = Reset(NewList([conversation |-> c, around |-> NoMessage]),
                     [conversation |-> c, around |-> NoMessage])
  BY DEF Init
<1>2. DOMAIN NewList([conversation |-> c, around |-> NoMessage]) = Fields
  BY NewListIsList DEF IsList
<1>3. QED
  BY <1>1, <1>2, ResetStands DEF Init, SendsOK

\* A step that leaves the sends alone keeps what their placeholders stand for.
LEMMA SameSends ==
  ASSUME SendsOK, sends' = sends, Stands(list'.overlay, Standing)
  PROVE  SendsOK'
BY DEF SendsOK, Standing

LEMMA NetworkSendsOK ==
  ASSUME ListOK, SendsOK, Network
  PROVE  SendsOK'
<1> USE DEF ListOK, Keeps
<1>1. CASE Serve \/ FailCall
  <2>1. list'.overlay = list.overlay /\ sends' = sends
    BY <1>1 DEF Serve, FailCall, Fields
  <2>2. QED
    BY <2>1, SameSends DEF SendsOK
<1>2. CASE Land
  <2> DEFINE left == [list EXCEPT !.calls = Tail(@)]
  <2>1. /\ DOMAIN left = Fields /\ left.overlay = list.overlay
        /\ sends' = sends
        /\ list.calls # <<>> /\ list' \in Landed(left, Head(list.calls))
    BY <1>2 DEF Land, Show, Fields
  <2>2. Head(list.calls).kind \in Kinds
    BY <2>1, LandingWithin DEF CallWithin
  <2> HIDE DEF left
  <2>3. QED
    BY <2>1, <2>2, LandedStands, SameSends DEF SendsOK
<1>3. CASE ServeSend
  <2>1. PICK s \in sends, m \in Messages :
          sends' = (sends \ {s}) \cup {[s EXCEPT !.message = m]}
    BY <1>3 DEF ServeSend
  <2>2. /\ [s EXCEPT !.message = m] \in [placeholder : Placeholders,
                                         conversation : Conversations,
                                         message : Messages \cup {NoMessage}]
        /\ [s EXCEPT !.message = m].placeholder = s.placeholder
    BY DEF SendsOK
  <2>3. Standing' = Standing
    BY <2>1, <2>2 DEF Standing
  <2>4. list' = list
    BY <1>3 DEF ServeSend
  <2>5. QED
    BY <2>1, <2>2, <2>3, <2>4 DEF SendsOK
<1>4. ASSUME NEW s \in sends, sends' = sends \ {s}, NEW gone \in RemoveLocal(list, s.placeholder)
      PROVE  Stands(gone.overlay, Standing') /\ DOMAIN gone = Fields
  <2>1. Standing \subseteq Standing' \cup {s.placeholder}
    BY <1>4 DEF Standing
  <2>2. Stands(list.overlay, Standing' \cup {s.placeholder})
    BY <2>1 DEF SendsOK, Stands
  <2>3. QED
    BY <2>1, <2>2, GoneStands
<1>5. CASE SendAnswered
  <2>1. PICK s \in sends :
          /\ s.message # NoMessage
          /\ sends' = sends \ {s}
          /\ \E l \in RemoveLocal(list, s.placeholder) :
               list' \in ToBottom(UpsertLocal(l, [id |-> s.message, seq |-> server[s.message]]))
    BY <1>5 DEF SendAnswered
  <2>2. s.message \notin Placeholders
    BY <2>1 DEF SendsOK, Messages
  <2>3. PICK l \in RemoveLocal(list, s.placeholder) :
          list' \in ToBottom(UpsertLocal(l, [id |-> s.message, seq |-> server[s.message]]))
    BY <2>1
  <2>4. Stands(l.overlay, Standing') /\ DOMAIN l = Fields
    BY <1>4, <2>1
  <2>5. Stands(list'.overlay, Standing')
    BY <2>2, <2>3, <2>4, PutToBottomStands
  <2>6. QED
    BY <2>1, <2>5 DEF SendsOK
<1>6. CASE SendFails
  <2>1. PICK s \in sends :
          sends' = sends \ {s} /\ \E l \in RemoveLocal(list, s.placeholder) : list' \in ToBottom(l)
    BY <1>6 DEF SendFails
  <2>2. PICK gone \in RemoveLocal(list, s.placeholder) : list' \in ToBottom(gone)
    BY <2>1
  <2>3. Stands(gone.overlay, Standing') /\ DOMAIN gone = Fields
    BY <1>4, <2>1
  <2>4. list'.overlay = gone.overlay
    BY <2>2, <2>3, BottomAlone
  <2>5. QED
    BY <2>1, <2>3, <2>4 DEF SendsOK
<1>7. QED
  BY <1>1, <1>2, <1>3, <1>5, <1>6 DEF Network

LEMMA NoticesSendsOK ==
  ASSUME ListOK, SendsOK, Notices \/ DecideFrame
  PROVE  SendsOK'
<1> USE DEF ListOK, Keeps
<1>1. CASE NoticeChanged
  BY <1>1, OverlayAlone, SameSends DEF NoticeChanged, SendsOK
<1>2. CASE NoticeDeleted
  <2>1. PICK n \in notices : list' \in RemoveLocal(list, n.id)
    BY <1>2 DEF NoticeDeleted
  <2>2. Stands(list.overlay, Standing \cup {n.id})
    BY DEF SendsOK, Stands
  <2>3. Stands(list'.overlay, Standing)
    BY <2>1, <2>2, GoneStands
  <2>4. QED
    BY <1>2, <2>3, SameSends DEF NoticeDeleted
<1>3. CASE Disconnect
  BY <1>3, SameSends DEF Disconnect, SendsOK
<1>4. CASE Reconnect
  BY <1>4, OverlayAlone, SameSends DEF Reconnect, SendsOK
<1>5. CASE DecideFrame
  <2>1. list' = Decide(list, host = "messages" => active) /\ sends' = sends
    BY <1>5 DEF DecideFrame, Show
  <2>2. (host = "messages" => active) \in BOOLEAN
    OBVIOUS
  <2>3. QED
    BY <2>1, <2>2, DecideStands, SameSends DEF SendsOK
<1>6. QED
  BY <1>1, <1>2, <1>3, <1>4, <1>5 DEF Notices

LEMMA UserSendsOK ==
  ASSUME ListOK, SendsOK, User
  PROVE  SendsOK'
<1> USE DEF ListOK, Keeps
<1>1. CASE Scroll
  BY <1>1, OverlayAlone, SameSends DEF Scroll, SendsOK
<1>2. CASE Reach
  BY <1>2, OverlayAlone, SameSends DEF Reach, Show, SendsOK
<1>3. CASE ClickPill
  BY <1>3, CatchUpStands, SameSends DEF ClickPill, Show, SendsOK
<1>4. CASE SwitchView
  BY <1>4, OverlayAlone, SameSends DEF SwitchView, SendsOK
<1>5. CASE OpenConversation
  BY <1>5, ResetStands, SameSends DEF OpenConversation
<1>6. CASE JumpToMessage
  BY <1>6, ResetStands, SameSends DEF JumpToMessage, Show
<1>7. CASE Send
  <2>1. PICK p \in Placeholders :
          /\ list' \in ToBottom(UpsertLocal(list, [id |-> p, seq |-> 0]))
          /\ sends' = sends \cup {[placeholder |-> p, conversation |-> Open,
                                   message |-> NoMessage]}
    BY <1>7 DEF Send
  <2> DEFINE new == [placeholder |-> p, conversation |-> Open, message |-> NoMessage]
  <2>2. Standing' = Standing \cup {p}
    <3>1. new.placeholder = p /\ sends' = sends \cup {new}
      BY <2>1
    <3> HIDE DEF new
    <3>2. QED
      BY <3>1 DEF Standing
  <2>3. Stands(list.overlay, Standing')
    BY <2>2 DEF SendsOK, Stands
  <2>4. Stands(list'.overlay, Standing')
    BY <2>1, <2>2, <2>3, PutToBottomStands
  <2>5. Open \in Conversations
    BY HostAssumption DEF Open
  <2>6. QED
    BY <2>1, <2>4, <2>5 DEF SendsOK
<1>8. QED
  BY <1>1, <1>2, <1>3, <1>4, <1>5, <1>6, <1>7 DEF User

LEMMA StepSendsOK ==
  ASSUME ListOK, SendsOK, [Next]_vars
  PROVE  SendsOK'
<1>1. CASE Write \/ Delete \/ UNCHANGED vars
  <2>1. list' = list /\ sends' = sends
    BY <1>1 DEF Write, Delete, vars
  <2>2. QED
    BY <2>1, SameSends DEF SendsOK
<1>2. QED
  BY <1>1, NetworkSendsOK, NoticesSendsOK, UserSendsOK DEF Next

-----------------------------------------------------------------------------
(* What the window owes to its source *)

\* A notice names a message; the one of a deletion comes after it.
NoticeOK(n) == n.kind = "deleted" => host = "messages" /\ n.id \in deleted

\* What was taken from a send is there until it is deleted.
Taken(m) == server[m] > 0 \/ m \in deleted

\* The host's variables have their types, a source has finitely many rows, and only
\* messages are sent and deleted.
HostOK ==
  /\ host \in Hosts
  /\ server \in [Messages -> Nat] /\ IsFiniteSet({m \in Messages : server[m] > 0})
  /\ deleted \subseteq Messages /\ unread \subseteq Conversations
  /\ notices \subseteq [kind : {"changed", "deleted"}, id : Messages]
  /\ connected \in BOOLEAN /\ active \in BOOLEAN
  /\ spent \in [events : Nat, intents : Nat, faults : Nat]
  /\ \A m \in deleted : server[m] = 0
  /\ \A n \in notices : NoticeOK(n)
  /\ host # "messages" => deleted = {} /\ acked = {} /\ sends = {}
  /\ \A m \in acked \cap Messages : Taken(m)
  /\ \A s \in sends : s.message \in Messages => Taken(s.message)

IsPageCall(call) == call.kind # "targets"

\* One call for a page at most is out, the one that loading names, and the query is
\* that of the list.
CallOK(h, l, call) ==
  /\ call.query = l.query
  /\ IsPageCall(call) => call.kind = l.loading
  /\ call.kind = "targets" => h # "messages" /\ l.stale /\ l.loading # "first"
  /\ call.kind \in Edges => /\ call.cursor = CursorFor(l.window, call.kind) /\ call.cursor # 0
                            /\ HasMore(l.window, call.kind)

OneCall(h, l) ==
  /\ \A i \in DOMAIN l.calls : CallOK(h, l, l.calls[i])
  /\ \A i, j \in DOMAIN l.calls :
       IsPageCall(l.calls[i]) /\ IsPageCall(l.calls[j]) => i = j
  /\ l.loading # "none" => \E i \in DOMAIN l.calls : IsPageCall(l.calls[i])

\* A list that is stale has been loaded, and one that has not is about to be.
Stages(l) ==
  /\ ~l.loaded => l.loading = "first"
  /\ l.stale => l.loaded
  /\ l.loading = "first" => ~l.failed

Anchored(query) == query.around # NoMessage => ConversationOf[query.around] = query.conversation

Control(h, l) ==
  /\ l \in List /\ IsFiniteSet(l.window.pages)
  /\ OneCall(h, l) /\ Stages(l) /\ Anchored(l.query)
  /\ l.targets \subseteq Messages /\ (h = "messages" => l.targets = {})

\* A record in the overlay is of one row, or of one that is gone.
OverlayOK(gone, overlay) ==
  \A e \in overlay : /\ \A r \in e.row : r.id = e.id
                     /\ e.row = {} /\ e.id \in Messages => e.id \in gone

\* Its pages are intervals of seqs, disjoint, between its two cursors.
WithinPage(p) == p.start <= p.end /\ \A r \in p.rows : p.start <= r.seq /\ r.seq <= p.end

Apart(p, q) == p.end < q.start \/ q.end < p.start

PagesOK(w) ==
  /\ w.oldCursor <= w.freshCursor
  /\ w.oldCursor = 0 => w.pages = {} /\ w.freshCursor = 0
  /\ \A p \in w.pages : w.oldCursor <= p.start /\ p.end <= w.freshCursor /\ WithinPage(p)
  /\ \A p, q \in w.pages : p = q \/ Apart(p, q)

InRange(w, n) == (w.moreOld => n >= w.oldCursor) /\ (w.moreFresh => n <= w.freshCursor)

\* The row that the source has of m when its seq is n.
RowAt(c, m, n) == IF ConversationOf[m] = c /\ n > 0 THEN {[id |-> m, seq |-> n]} ELSE {}

\* Of m the window holds what the source has, as far as it reaches.
Shows(w, m, rows) == {r \in RowsIn(w) : r.id = m} = {r \in rows : InRange(w, r.seq)}

Beyond(edge, cursor, n) == IF edge = "old" THEN n < cursor ELSE n > cursor

More(edge, answer) == answer.rows # {} /\ IF edge = "old" THEN answer.moreOld ELSE answer.moreFresh

Reaches(edge, answer, n) ==
  More(edge, answer) => IF edge = "old" THEN n >= StartOf(answer.rows) ELSE n <= EndOf(answer.rows)

\* Of m the answer of a call at an edge has what the source has, as far as it reaches.
Tells(edge, cursor, answer, m, rows) ==
  {r \in answer.rows : r.id = m} =
    {r \in rows : Beyond(edge, cursor, r.seq) /\ Reaches(edge, answer, r.seq)}

\* The list itself knows of no change that it does not show or ask for.
ListHeard(l) == ~l.dirty /\ ~l.failed /\ (l.stale => l.loading = "first")

\* Every change of the source is covered by the first page that was asked for last.
Heard ==
  /\ connected /\ \A n \in notices : n.kind # "changed"
  /\ ListHeard(list)

\* m was sent from here and is not deleted, so that it is where it always was.
Sent(m) == host = "messages" /\ m \in acked /\ server[m] > 0

\* Nothing has happened to m that the first page does not cover.
Unchanged(m) == Heard /\ [kind |-> "deleted", id |-> m] \notin notices

Certain(m) == Sent(m) \/ Unchanged(m)

Own(m) == RowAt(Open, m, server[m])

LocalIds(overlay) == {e.id : e \in overlay}

\* The window shows, and is not about to be replaced by, the page that covers every change.
Current == Heard /\ list.loading # "first"

WindowOK ==
  /\ host = "messages" \/ Current => PagesOK(list.window)
  /\ \A m \in Messages \ LocalIds(list.overlay) :
       \/ Sent(m) /\ list.window.oldCursor # 0
       \/ Unchanged(m) /\ Current
       => Shows(list.window, m, Own(m))

AnswerOK(call) ==
  /\ IsFiniteSet(call.answer.rows)
  /\ \A r \in call.answer.rows :
       r.seq > 0 /\ (call.kind \in Edges => Beyond(call.kind, call.cursor, r.seq))
  /\ call.kind = "first" /\ call.query.around = NoMessage => ~call.answer.moreFresh
  /\ call.kind = "first" => \A m \in Messages \ LocalIds(Settled(list.overlay)) :
       Certain(m) => Shows(FirstPage(call.answer), m, Own(m))
  /\ call.kind \in Edges => \A m \in Messages \ LocalIds(list.overlay) :
       Certain(m) => Tells(call.kind, call.cursor, call.answer, m, Own(m))

AnswersOK ==
  \A i \in DOMAIN list.calls : list.calls[i].state = "answered" => AnswerOK(list.calls[i])

SliceOK == HostOK /\ Control(host, list) /\ OverlayOK(deleted, list.overlay) /\ WindowOK /\ AnswersOK

-----------------------------------------------------------------------------
(* Extremes of finite sets of numbers *)

LEMMA HasMax ==
  ASSUME NEW S \in SUBSET Nat, S # {}, IsFiniteSet(S)
  PROVE  \E x \in S : \A y \in S : y <= x
<1> DEFINE Above(x) == {y \in S : y > x}
           Sizes == {Cardinality(Above(x)) : x \in S}
<1>1. \A x \in S : IsFiniteSet(Above(x)) /\ Cardinality(Above(x)) \in Nat
  BY FS_Subset, FS_CardinalityType
<1>2. Sizes \in SUBSET Nat /\ Sizes # {}
  BY <1>1
<1>3. PICK n \in Sizes : \A k \in Sizes : <<k, n>> \notin OpToRel(<, Nat)
  BY <1>2, NatLessThanWellFounded, WFMin
<1>4. \A k \in Sizes : ~(k < n)
  BY <1>2, <1>3 DEF OpToRel
<1>5. PICK x \in S : n = Cardinality(Above(x))
  BY <1>3
<1>6. ASSUME NEW y \in S, y > x
      PROVE  FALSE
  <2>0. S \subseteq Nat /\ x \in Nat /\ y \in Nat
    OBVIOUS
  <2>1. Above(y) \subseteq Above(x) /\ y \in Above(x) /\ y \notin Above(y)
    <3>1. \A z \in S : z > y => z > x
      BY <1>6, <2>0
    <3>2. ~(y > y)
      BY <2>0
    <3> QED
      BY <1>6, <3>1, <3>2
  <2>2. Cardinality(Above(y)) <= Cardinality(Above(x))
        /\ (Above(y) # Above(x) => Cardinality(Above(y)) # Cardinality(Above(x)))
    <3> HIDE DEF Above
    <3> QED
      BY <1>1, <2>1, FS_Subset
  <2>3. Cardinality(Above(y)) < Cardinality(Above(x))
    <3>1. Above(y) # Above(x)
      BY <2>1
    <3> HIDE DEF Above
    <3> QED
      BY <1>1, <2>2, <3>1
  <2>4. Cardinality(Above(y)) \in Sizes
    OBVIOUS
  <2> HIDE DEF Above, Sizes
  <2> QED
    BY <1>4, <1>5, <2>3, <2>4
<1>7. \A y \in S : y <= x
  BY <1>6
<1> QED
  BY <1>7

LEMMA HasMin ==
  ASSUME NEW S \in SUBSET Nat, S # {}
  PROVE  \E x \in S : \A y \in S : x <= y
<1>1. PICK x \in S : \A y \in S : <<y, x>> \notin OpToRel(<, Nat)
  BY NatLessThanWellFounded, WFMin
<1>2. \A y \in S : y \in Nat /\ ~(y < x) /\ x \in Nat
  BY <1>1 DEF OpToRel
<1> QED
  BY <1>2

LEMMA MaxIs ==
  ASSUME NEW S \in SUBSET Nat, S # {}, IsFiniteSet(S)
  PROVE  Max(S) \in S /\ \A y \in S : y <= Max(S)
BY HasMax DEF Max

LEMMA MinIs ==
  ASSUME NEW S \in SUBSET Nat, S # {}
  PROVE  Min(S) \in S /\ \A y \in S : Min(S) <= y
BY HasMin DEF Min

\* A page starts and ends with rows of its own.
LEMMA StartIs ==
  ASSUME NEW rows \in SUBSET Row, rows # {}
  PROVE  /\ StartOf(rows) \in Nat
         /\ \E r \in rows : r.seq = StartOf(rows)
         /\ \A r \in rows : StartOf(rows) <= r.seq
<1> DEFINE S == {r.seq : r \in rows}
<1>1. S \in SUBSET Nat /\ S # {}
  BY DEF Row
<1>2. StartOf(rows) = Min(S)
  BY DEF StartOf
<1>3. Min(S) \in S /\ \A y \in S : Min(S) <= y
  BY <1>1, MinIs
<1> QED
  BY <1>1, <1>2, <1>3

LEMMA EndIs ==
  ASSUME NEW rows \in SUBSET Row, rows # {}, IsFiniteSet(rows)
  PROVE  /\ EndOf(rows) \in Nat
         /\ \E r \in rows : r.seq = EndOf(rows)
         /\ \A r \in rows : r.seq <= EndOf(rows)
<1> DEFINE S == {r.seq : r \in rows}
<1>1. S \in SUBSET Nat /\ S # {}
  BY DEF Row
<1>2. EndOf(rows) = Max(S)
  BY DEF EndOf
<1>3. IsFiniteSet(S)
  <2> DEFINE F == [r \in rows |-> r.seq]
  <2>1. F \in Surjection(rows, S)
    BY DEF Surjection
  <2> QED
    BY <2>1, FS_Surjection
<1>4. Max(S) \in S /\ \A y \in S : y <= Max(S)
  BY <1>1, <1>3, MaxIs
<1> QED
  BY <1>1, <1>2, <1>4

-----------------------------------------------------------------------------
(* What the source answers *)

\* A full page of the newest rows has all the rows from where it starts.
LEMMA NewestIs ==
  ASSUME NEW rows \in SUBSET Row, IsFiniteSet(rows), NEW n \in Nat \ {0}
  PROVE  /\ Newest(rows, n) \subseteq rows /\ IsFiniteSet(Newest(rows, n))
         /\ rows # {} => Newest(rows, n) # {}
         /\ \A r \in rows : Newest(rows, n) # {} /\ StartOf(Newest(rows, n)) <= r.seq
              => r \in Newest(rows, n)
<1> DEFINE page == Newest(rows, n)
           Above(r) == {q \in rows : q.seq > r.seq}
<1>1. page = {r \in rows : Cardinality(Above(r)) < n}
  BY DEF Newest
<1>2. page \subseteq rows /\ IsFiniteSet(page)
  BY <1>1, FS_Subset
<1>3. \A r \in rows : IsFiniteSet(Above(r)) /\ Cardinality(Above(r)) \in Nat
  BY FS_Subset, FS_CardinalityType
<1>4. ASSUME rows # {}
      PROVE  page # {}
  <2>1. PICK r \in rows : r.seq = EndOf(rows)
    BY <1>4, EndIs
  <2>2. \A q \in rows : q.seq <= r.seq /\ q.seq \in Nat
    BY <1>4, <2>1, EndIs DEF Row
  <2>3. Above(r) = {}
    BY <2>2
  <2>4. Cardinality(Above(r)) = 0
    BY <2>3, FS_EmptySet
  <2> QED
    BY <1>1, <2>4
<1>5. ASSUME NEW r \in rows, page # {}, StartOf(page) <= r.seq
      PROVE  r \in page
  <2>1. PICK q \in page : q.seq = StartOf(page)
    BY <1>2, <1>5, StartIs
  <2>2. \A x \in rows : x.seq \in Nat
    BY DEF Row
  <2>3. Above(r) \subseteq Above(q)
    BY <1>2, <1>5, <2>1, <2>2
  <2>4. Cardinality(Above(r)) <= Cardinality(Above(q))
    <3> HIDE DEF Above
    <3> QED
      BY <1>2, <1>3, <2>3, FS_Subset
  <2>5. Cardinality(Above(q)) < n
    BY <1>1
  <2>6. Cardinality(Above(r)) \in Nat /\ Cardinality(Above(q)) \in Nat
    BY <1>2, <1>3
  <2> HIDE DEF Above, page
  <2>7. Cardinality(Above(r)) < n
    BY <2>4, <2>5, <2>6
  <2> QED
    BY <1>1, <2>7
<1> QED
  BY <1>2, <1>4, <1>5

\* The same of the oldest rows, of which there may be none in the page.
LEMMA OldestIs ==
  ASSUME NEW rows \in SUBSET Row, IsFiniteSet(rows), NEW n \in Nat
  PROVE  /\ Oldest(rows, n) \subseteq rows /\ IsFiniteSet(Oldest(rows, n))
         /\ rows # {} /\ n # 0 => Oldest(rows, n) # {}
         /\ \A r \in rows : \A q \in Oldest(rows, n) : r.seq <= q.seq => r \in Oldest(rows, n)
<1> DEFINE page == Oldest(rows, n)
           Below(r) == {q \in rows : q.seq < r.seq}
<1>1. page = {r \in rows : Cardinality(Below(r)) < n}
  BY DEF Oldest
<1>2. page \subseteq rows /\ IsFiniteSet(page)
  BY <1>1, FS_Subset
<1>3. \A r \in rows : IsFiniteSet(Below(r)) /\ Cardinality(Below(r)) \in Nat
  BY FS_Subset, FS_CardinalityType
<1>4. ASSUME rows # {}, n # 0
      PROVE  page # {}
  <2>1. PICK r \in rows : r.seq = StartOf(rows)
    BY <1>4, StartIs
  <2>2. \A q \in rows : r.seq <= q.seq /\ q.seq \in Nat
    BY <1>4, <2>1, StartIs DEF Row
  <2>3. Below(r) = {}
    BY <2>2
  <2>4. Cardinality(Below(r)) = 0
    BY <2>3, FS_EmptySet
  <2> QED
    BY <1>1, <1>4, <2>4
<1>5. ASSUME NEW r \in rows, NEW q \in page, r.seq <= q.seq
      PROVE  r \in page
  <2>1. \A x \in rows : x.seq \in Nat
    BY DEF Row
  <2>2. Below(r) \subseteq Below(q)
    BY <1>2, <1>5, <2>1
  <2>3. Cardinality(Below(r)) <= Cardinality(Below(q))
    <3> HIDE DEF Below
    <3> QED
      BY <1>2, <1>3, <2>2, FS_Subset
  <2>4. Cardinality(Below(q)) < n
    BY <1>1
  <2>5. Cardinality(Below(r)) \in Nat /\ Cardinality(Below(q)) \in Nat
    BY <1>2, <1>3
  <2> HIDE DEF Below, page
  <2>6. Cardinality(Below(r)) < n
    BY <2>3, <2>4, <2>5
  <2> QED
    BY <1>1, <2>6
<1> QED
  BY <1>2, <1>4, <1>5

\* A list's first page, from the newest row on.
LEMMA NewestAnswer ==
  ASSUME NEW rows \in SUBSET Row, IsFiniteSet(rows), NEW answer, answer = Slice(rows, "old", 0)
  PROVE  /\ answer \in Answers /\ answer.rows \subseteq rows /\ IsFiniteSet(answer.rows)
         /\ ~answer.moreFresh
         /\ \A r \in rows : r \in answer.rows <=> InRange(FirstPage(answer), r.seq)
<1> DEFINE page == Newest(rows, PageSize)
<1>1. answer = [rows |-> page, moreOld |-> page # rows, moreFresh |-> FALSE]
  BY DEF Slice
<1>2. /\ page \subseteq rows /\ IsFiniteSet(page) /\ (rows # {} => page # {})
      /\ \A r \in rows : page # {} /\ StartOf(page) <= r.seq => r \in page
  BY NewestIs, PageAssumption
<1>3. page # {} => \A r \in page : StartOf(page) <= r.seq
  BY <1>2, StartIs
<1> HIDE DEF page
<1> DEFINE b == page # rows
<1>8. /\ b \in BOOLEAN /\ answer.moreOld = b /\ answer.moreFresh = FALSE /\ answer.rows = page
      /\ answer.moreOld \in BOOLEAN /\ answer.moreFresh \in BOOLEAN
      /\ answer = [rows |-> answer.rows, moreOld |-> answer.moreOld,
                   moreFresh |-> answer.moreFresh]
  <2>1. answer.rows = page /\ answer.moreOld = b
    BY <1>1
  <2>2. answer.moreFresh = FALSE
    BY <1>1
  <2>4. b \in BOOLEAN
    OBVIOUS
  <2>3. answer = [rows |-> answer.rows, moreOld |-> answer.moreOld,
                   moreFresh |-> answer.moreFresh]
    BY <1>1
  <2> QED
    BY <2>1, <2>2, <2>3, <2>4
<1> HIDE DEF b
<1>9. answer \in Answers
  BY <1>2, <1>8 DEF Answers
<1>10. /\ FirstPage(answer).moreOld = b /\ FirstPage(answer).moreFresh = FALSE
       /\ FirstPage(answer).oldCursor = StartOf(page)
  BY <1>8 DEF FirstPage
<1>4. \A n \in Nat : InRange(FirstPage(answer), n) <=> (page # rows => n >= StartOf(page))
  BY <1>8, <1>10 DEF InRange, b
<1>5. StartOf(page) \in Nat
  BY <1>2, StartIs DEF StartOf
<1>6. \A r \in rows : r.seq \in Nat
  BY DEF Row
<1>7. ASSUME NEW r \in rows
      PROVE  r \in page <=> (page # rows => r.seq >= StartOf(page))
  BY <1>2, <1>3, <1>5, <1>6
<1> QED
  BY <1>2, <1>4, <1>6, <1>7, <1>8, <1>9

\* A first page around a message, which goes on at both ends.
LEMMA AroundAnswer ==
  ASSUME NEW rows \in SUBSET Row, IsFiniteSet(rows), NEW anchor \in rows,
         NEW answer, answer = Around(rows, anchor.seq)
  PROVE  /\ answer \in Answers /\ answer.rows \subseteq rows /\ IsFiniteSet(answer.rows)
         /\ \A r \in rows : r \in answer.rows <=> InRange(FirstPage(answer), r.seq)
<1> DEFINE upto == {r \in rows : r.seq <= anchor.seq}
           after == {r \in rows : r.seq > anchor.seq}
           old == Newest(upto, (PageSize + 1) \div 2)
           fresh == Oldest(after, PageSize \div 2)
           page == old \cup fresh
<1>1. answer = [rows |-> page, moreOld |-> page # {}, moreFresh |-> page # {}]
  BY DEF Around
<1>2. (PageSize + 1) \div 2 \in Nat \ {0} /\ PageSize \div 2 \in Nat
  BY PageAssumption
<1>3. \A r \in rows : r.seq \in Nat
  BY DEF Row
<1>4. upto \subseteq rows /\ after \subseteq rows /\ IsFiniteSet(upto) /\ IsFiniteSet(after)
      /\ anchor \in upto
  BY <1>3, FS_Subset
<1>5. /\ old \subseteq upto /\ IsFiniteSet(old) /\ old # {}
      /\ \A r \in upto : old # {} /\ StartOf(old) <= r.seq => r \in old
  <2> HIDE DEF upto
  <2> QED
    BY <1>2, <1>4, NewestIs
<1>6. /\ fresh \subseteq after /\ IsFiniteSet(fresh)
      /\ \A r \in after : \A q \in fresh : r.seq <= q.seq => r \in fresh
  <2> HIDE DEF after
  <2> QED
    BY <1>2, <1>4, OldestIs
<1>7. \A r \in upto : r \in rows /\ r.seq <= anchor.seq
  OBVIOUS
<1>8. \A r \in after : r \in rows /\ r.seq > anchor.seq
  OBVIOUS
<1>9. \A r \in rows : r \in upto \/ r \in after
  BY <1>3
<1> HIDE DEF upto, after, old, fresh
<1>10. page \subseteq rows /\ IsFiniteSet(page) /\ page # {}
  BY <1>4, <1>5, <1>6, FS_Union
<1>11. /\ StartOf(page) \in Nat /\ EndOf(page) \in Nat
       /\ \E r \in page : r.seq = StartOf(page)
       /\ \E r \in page : r.seq = EndOf(page)
       /\ \A r \in page : StartOf(page) <= r.seq /\ r.seq <= EndOf(page)
  <2> HIDE DEF page
  <2> QED
    BY <1>10, StartIs, EndIs
<1>12. StartOf(old) \in Nat /\ (\E r \in old : r.seq = StartOf(old))
       /\ \A r \in old : StartOf(old) <= r.seq
  BY <1>4, <1>5, StartIs
<1>13. ASSUME NEW r \in rows, StartOf(page) <= r.seq, r.seq <= EndOf(page)
       PROVE  r \in page
  <2>1. CASE r \in upto
    <3>1. PICK q \in page : q.seq = StartOf(page)
      BY <1>11
    <3>2. q \in old
      BY <1>3, <1>6, <1>7, <1>8, <1>13, <2>1, <3>1
    <3>3. StartOf(old) <= r.seq
      BY <1>3, <1>4, <1>5, <1>12, <1>13, <3>1, <3>2
    <3> QED
      BY <1>5, <2>1, <3>3
  <2>2. CASE r \in after
    <3>1. PICK q \in page : q.seq = EndOf(page)
      BY <1>11
    <3>2. q \in fresh
      BY <1>3, <1>5, <1>7, <1>8, <1>13, <2>2, <3>1
    <3> QED
      BY <1>6, <1>13, <2>2, <3>1, <3>2
  <2> QED
    BY <1>9, <2>1, <2>2
<1> HIDE DEF page
<1>16. answer = [rows |-> page, moreOld |-> TRUE, moreFresh |-> TRUE]
  BY <1>1, <1>10
<1>17. answer \in Answers /\ answer.rows = page
  BY <1>10, <1>16 DEF Answers
<1>18. /\ FirstPage(answer).moreOld = TRUE /\ FirstPage(answer).moreFresh = TRUE
       /\ FirstPage(answer).oldCursor = StartOf(page) /\ FirstPage(answer).freshCursor = EndOf(page)
  BY <1>16 DEF FirstPage
<1>14. \A n \in Nat :
         InRange(FirstPage(answer), n) <=> (n >= StartOf(page) /\ n <= EndOf(page))
  BY <1>18 DEF InRange
<1>15. ASSUME NEW r \in rows
       PROVE  r \in page <=> (r.seq >= StartOf(page) /\ r.seq <= EndOf(page))
  BY <1>3, <1>11, <1>13
<1> QED
  BY <1>3, <1>10, <1>14, <1>15, <1>17

\* A page at an edge goes on from its cursor.
LEMMA EdgeAnswer ==
  ASSUME NEW rows \in SUBSET Row, IsFiniteSet(rows), NEW edge \in Edges, NEW cursor \in Nat,
         cursor # 0, NEW answer, answer = Slice(rows, edge, cursor)
  PROVE  /\ answer \in Answers /\ answer.rows \subseteq rows /\ IsFiniteSet(answer.rows)
         /\ \A r \in rows : r \in answer.rows <=>
                              Beyond(edge, cursor, r.seq) /\ Reaches(edge, answer, r.seq)
<1>1. \A r \in rows : r.seq \in Nat
  BY DEF Row
<1>2. CASE edge = "old"
  <2> DEFINE beyond == {r \in rows : r.seq < cursor}
             page == Newest(beyond, PageSize)
  <2>1. answer = [rows |-> page, moreOld |-> page # beyond, moreFresh |-> TRUE]
    BY <1>2 DEF Slice
  <2>2. beyond \subseteq rows /\ IsFiniteSet(beyond)
    BY FS_Subset
  <2>3. /\ page \subseteq beyond /\ IsFiniteSet(page) /\ (beyond # {} => page # {})
        /\ \A r \in beyond : page # {} /\ StartOf(page) <= r.seq => r \in page
    <3> HIDE DEF beyond
    <3> QED
      BY <2>2, NewestIs, PageAssumption
  <2>4. \A r \in rows : r \in beyond <=> r.seq < cursor
    OBVIOUS
  <2> HIDE DEF beyond, page
  <2>5. page # {} => \A r \in page : StartOf(page) <= r.seq
    BY <2>2, <2>3, StartIs
  <2>6. StartOf(page) \in Nat
    BY <2>2, <2>3, StartIs DEF StartOf
  <2> DEFINE b == page # beyond
  <2>10. /\ b \in BOOLEAN /\ answer.moreOld = b /\ answer.rows = page
         /\ answer.moreOld \in BOOLEAN /\ answer.moreFresh \in BOOLEAN
         /\ answer = [rows |-> answer.rows, moreOld |-> answer.moreOld,
                      moreFresh |-> answer.moreFresh]
    BY <2>1
  <2> HIDE DEF b
  <2>7. \A n \in Nat :
          Reaches(edge, answer, n) <=> (page # {} /\ page # beyond => n >= StartOf(page))
    BY <1>2, <2>10 DEF Reaches, More, b
  <2>11. answer \in Answers
    BY <2>2, <2>3, <2>10 DEF Answers
  <2>8. \A n : Beyond(edge, cursor, n) <=> n < cursor
    BY <1>2 DEF Beyond
  <2>9. ASSUME NEW r \in rows
        PROVE  r \in page <=> r \in beyond /\ (page # {} /\ page # beyond => r.seq >= StartOf(page))
    BY <1>1, <2>3, <2>5, <2>6
  <2> QED
    BY <1>1, <2>2, <2>3, <2>4, <2>7, <2>8, <2>9, <2>10, <2>11
<1>3. CASE edge = "fresh"
  <2> DEFINE beyond == {r \in rows : r.seq > cursor}
             page == Oldest(beyond, PageSize)
  <2>1. answer = [rows |-> page, moreOld |-> TRUE, moreFresh |-> page # beyond]
    BY <1>3 DEF Slice
  <2>2. beyond \subseteq rows /\ IsFiniteSet(beyond)
    BY FS_Subset
  <2>3. /\ page \subseteq beyond /\ IsFiniteSet(page) /\ (beyond # {} => page # {})
        /\ \A r \in beyond : \A q \in page : r.seq <= q.seq => r \in page
    <3> HIDE DEF beyond
    <3> QED
      BY <2>2, OldestIs, PageAssumption
  <2>4. \A r \in rows : r \in beyond <=> r.seq > cursor
    OBVIOUS
  <2> HIDE DEF beyond, page
  <2>5. page # {} => /\ EndOf(page) \in Nat /\ (\E r \in page : r.seq = EndOf(page))
                     /\ \A r \in page : r.seq <= EndOf(page)
    BY <2>2, <2>3, EndIs
  <2> DEFINE b == page # beyond
  <2>10. /\ b \in BOOLEAN /\ answer.moreFresh = b /\ answer.rows = page
         /\ answer.moreOld \in BOOLEAN /\ answer.moreFresh \in BOOLEAN
         /\ answer = [rows |-> answer.rows, moreOld |-> answer.moreOld,
                      moreFresh |-> answer.moreFresh]
    BY <2>1
  <2> HIDE DEF b
  <2>7. \A n \in Nat :
          Reaches(edge, answer, n) <=> (page # {} /\ page # beyond => n <= EndOf(page))
    BY <1>3, <2>10 DEF Reaches, More, b
  <2>11. answer \in Answers
    BY <2>2, <2>3, <2>10 DEF Answers
  <2>8. \A n : Beyond(edge, cursor, n) <=> n > cursor
    BY <1>3 DEF Beyond
  <2>9. ASSUME NEW r \in rows
        PROVE  r \in page <=> r \in beyond /\ (page # {} /\ page # beyond => r.seq <= EndOf(page))
    BY <1>1, <2>3, <2>5
  <2> QED
    BY <1>1, <2>2, <2>3, <2>4, <2>7, <2>8, <2>9, <2>10, <2>11
<1> QED
  BY <1>2, <1>3 DEF Edges

-----------------------------------------------------------------------------
(* Windows *)

Pages == [rows : SUBSET Row, start : Nat, end : Nat]

Windows ==
  [pages : SUBSET Pages, moreOld : BOOLEAN, moreFresh : BOOLEAN,
   oldCursor : Nat, freshCursor : Nat]

IsWindow(w) == w \in Windows /\ IsFiniteSet(w.pages)

LEMMA ImageFinite ==
  ASSUME NEW S, IsFiniteSet(S), NEW F, DOMAIN F = S
  PROVE  IsFiniteSet({F[x] : x \in S})
<1>1. [x \in S |-> F[x]] \in Surjection(S, {F[x] : x \in S})
  BY DEF Surjection
<1> QED
  BY <1>1, FS_Surjection

LEMMA PageIs ==
  ASSUME NEW rows \in SUBSET Row, rows # {}, IsFiniteSet(rows)
  PROVE  /\ PageOf(rows) \in Pages
         /\ PageOf(rows).rows = rows /\ WithinPage(PageOf(rows))
         /\ PageOf(rows).start = StartOf(rows) /\ PageOf(rows).end = EndOf(rows)
         /\ \E r \in rows : r.seq = StartOf(rows)
         /\ \E r \in rows : r.seq = EndOf(rows)
<1>1. /\ PageOf(rows).rows = rows
      /\ PageOf(rows).start = StartOf(rows) /\ PageOf(rows).end = EndOf(rows)
      /\ PageOf(rows) = [rows |-> rows, start |-> StartOf(rows), end |-> EndOf(rows)]
  BY DEF PageOf
<1>2. /\ StartOf(rows) \in Nat /\ EndOf(rows) \in Nat
      /\ \A r \in rows : StartOf(rows) <= r.seq /\ r.seq <= EndOf(rows)
      /\ \E r \in rows : r.seq = StartOf(rows)
      /\ \E r \in rows : r.seq = EndOf(rows)
  BY StartIs, EndIs
<1>3. StartOf(rows) <= EndOf(rows)
  BY <1>2
<1>4. PageOf(rows) \in Pages
  BY <1>1, <1>2 DEF Pages
<1> QED
  BY <1>1, <1>2, <1>3, <1>4 DEF WithinPage

LEMMA EmptyIsWindow == IsWindow(EmptyWindow) /\ PagesOK(EmptyWindow)
BY FS_EmptySet DEF IsWindow, EmptyWindow, Windows, PagesOK

LEMMA FirstPageIsWindow ==
  ASSUME NEW answer \in Answers, IsFiniteSet(answer.rows)
  PROVE  IsWindow(FirstPage(answer)) /\ RowsIn(FirstPage(answer)) = answer.rows
<1> DEFINE w == FirstPage(answer)
<1>1. answer.rows \in SUBSET Row /\ answer.moreOld \in BOOLEAN /\ answer.moreFresh \in BOOLEAN
  BY DEF Answers
<1>2. /\ w.pages = IF answer.rows = {} THEN {} ELSE {PageOf(answer.rows)}
      /\ w = [pages |-> w.pages, moreOld |-> answer.moreOld, moreFresh |-> answer.moreFresh,
              oldCursor |-> StartOf(answer.rows), freshCursor |-> EndOf(answer.rows)]
  BY DEF FirstPage
<1>3. CASE answer.rows = {}
  <2>1. w.pages = {} /\ StartOf(answer.rows) = 0 /\ EndOf(answer.rows) = 0
    BY <1>2, <1>3 DEF StartOf, EndOf
  <2>2. RowsIn(w) = answer.rows
    BY <1>3, <2>1 DEF RowsIn
  <2>3. w \in Windows
    BY <1>1, <1>2, <2>1 DEF Windows
  <2> QED
    BY <2>1, <2>2, <2>3, FS_EmptySet DEF IsWindow
<1>4. CASE answer.rows # {}
  <2>1. w.pages = {PageOf(answer.rows)} /\ PageOf(answer.rows) \in Pages
        /\ PageOf(answer.rows).rows = answer.rows
    BY <1>1, <1>2, <1>4, PageIs
  <2>2. StartOf(answer.rows) \in Nat /\ EndOf(answer.rows) \in Nat
    BY <1>1, <1>4, StartIs, EndIs
  <2>3. RowsIn(w) = answer.rows
    BY <2>1 DEF RowsIn
  <2>4. w \in Windows
    BY <1>1, <1>2, <2>1, <2>2 DEF Windows
  <2>5. IsFiniteSet(w.pages)
    BY <2>1, FS_Singleton
  <2> QED
    BY <2>3, <2>4, <2>5 DEF IsWindow
<1> QED
  BY <1>3, <1>4

LEMMA FirstPageOrdered ==
  ASSUME NEW answer \in Answers, IsFiniteSet(answer.rows), \A r \in answer.rows : r.seq > 0
  PROVE  PagesOK(FirstPage(answer))
<1> DEFINE w == FirstPage(answer)
<1>1. answer.rows \in SUBSET Row
  BY DEF Answers
<1>2. /\ w.pages = IF answer.rows = {} THEN {} ELSE {PageOf(answer.rows)}
      /\ w.oldCursor = StartOf(answer.rows) /\ w.freshCursor = EndOf(answer.rows)
  BY DEF FirstPage
<1>3. CASE answer.rows = {}
  BY <1>2, <1>3 DEF PagesOK, StartOf, EndOf
<1>4. CASE answer.rows # {}
  <2> DEFINE p == PageOf(answer.rows)
  <2>1. /\ p \in Pages /\ WithinPage(p) /\ p.start = w.oldCursor /\ p.end = w.freshCursor
        /\ \E r \in answer.rows : r.seq = w.oldCursor
    BY <1>1, <1>2, <1>4, PageIs
  <2>2. w.pages = {p}
    BY <1>2, <1>4
  <2>3. p.start \in Nat /\ p.end \in Nat /\ p.start <= p.end /\ w.oldCursor # 0
    BY <2>1 DEF Pages, WithinPage
  <2> HIDE DEF p, w
  <2>4. \A q \in w.pages : q = p
    BY <2>2
  <2>5. w.oldCursor <= w.freshCursor /\ w.oldCursor <= p.start /\ p.end <= w.freshCursor
    BY <2>1, <2>3
  <2>6. PagesOK(w)
    BY <2>1, <2>3, <2>4, <2>5 DEF PagesOK
  <2> QED
    BY <2>6 DEF w
<1> QED
  BY <1>3, <1>4

\* A page that starts last, and one that starts first.
LEMMA LastPage ==
  ASSUME NEW pages \in SUBSET Pages, IsFiniteSet(pages), pages # {}
  PROVE  /\ \E p \in pages : \A q \in pages : q.start <= p.start
         /\ \E p \in pages : \A q \in pages : p.start <= q.start
<1> DEFINE F == [p \in pages |-> p.start]
           S == {F[p] : p \in pages}
<1>1. S \in SUBSET Nat /\ S # {} /\ IsFiniteSet(S)
  <2>1. IsFiniteSet(S)
    BY ImageFinite
  <2> QED
    BY <2>1 DEF Pages
<1>2. (\E x \in S : \A y \in S : y <= x) /\ (\E x \in S : \A y \in S : x <= y)
  <2> HIDE DEF S
  <2> QED
    BY <1>1, HasMax, HasMin
<1> QED
  BY <1>2

LEMMA EndsOf ==
  ASSUME NEW pages \in SUBSET Pages, IsFiniteSet(pages), pages # {}
  PROVE  /\ Max({p.end : p \in pages}) \in Nat
         /\ \E p \in pages : p.end = Max({q.end : q \in pages})
         /\ \A p \in pages : p.end <= Max({q.end : q \in pages})
         /\ Min({p.start : p \in pages}) \in Nat
         /\ \E p \in pages : p.start = Min({q.start : q \in pages})
         /\ \A p \in pages : Min({q.start : q \in pages}) <= p.start
<1> DEFINE E == {p.end : p \in pages}
           B == {p.start : p \in pages}
           F == [p \in pages |-> p.end]
<1>1. E = {F[p] : p \in pages}
  OBVIOUS
<1>2. IsFiniteSet(E)
  <2>1. IsFiniteSet({F[p] : p \in pages})
    BY ImageFinite
  <2> QED
    BY <1>1, <2>1
<1>3. E \in SUBSET Nat /\ E # {} /\ B \in SUBSET Nat /\ B # {}
  BY DEF Pages
<1>4. /\ Max(E) \in E /\ (\A y \in E : y <= Max(E))
      /\ Min(B) \in B /\ (\A y \in B : Min(B) <= y)
  <2> HIDE DEF E, B
  <2> QED
    BY <1>2, <1>3, MaxIs, MinIs
<1>5. (\A p \in pages : p.end \in E /\ p.start \in B) /\ Max(E) \in Nat /\ Min(B) \in Nat
  BY <1>3, <1>4
<1>6. (\E p \in pages : p.end = Max(E)) /\ \E p \in pages : p.start = Min(B)
  BY <1>4
<1> QED
  BY <1>4, <1>5, <1>6

\* What eviction does: nothing, or it takes the page that is last at the other edge.
EvictsLast(w, new) ==
  \E last \in w.pages :
    /\ \A q \in w.pages : q.start <= last.start
    /\ w.pages \ {last} # {}
    /\ new = [w EXCEPT !.pages = w.pages \ {last}, !.moreFresh = TRUE,
                       !.freshCursor = Max({p.end : p \in w.pages \ {last}})]

EvictsFirst(w, new) ==
  \E first \in w.pages :
    /\ \A q \in w.pages : first.start <= q.start
    /\ w.pages \ {first} # {}
    /\ new = [w EXCEPT !.pages = w.pages \ {first}, !.moreOld = TRUE,
                       !.oldCursor = Min({p.start : p \in w.pages \ {first}})]

LEMMA EvictedIs ==
  ASSUME NEW w, IsWindow(w), NEW edge \in Edges
  PROVE  LET new == Evicted(w, edge) IN new = w \/ EvictsLast(w, new) \/ EvictsFirst(w, new)
<1>1. CASE Cardinality(w.pages) <= MaxPages
  BY <1>1 DEF Evicted
<1>2. CASE ~(Cardinality(w.pages) <= MaxPages)
  <2>1. w.pages \in SUBSET Pages /\ IsFiniteSet(w.pages) /\ Cardinality(w.pages) \in Nat
    BY FS_CardinalityType DEF IsWindow, Windows
  <2>2. ASSUME NEW p \in w.pages
        PROVE  w.pages \ {p} # {}
    <3>1. SUFFICES ASSUME w.pages \ {p} = {} PROVE FALSE
      OBVIOUS
    <3>2. w.pages = {p}
      BY <3>1
    <3>3. Cardinality(w.pages) = 1
      BY <3>2, FS_Singleton
    <3> QED
      BY <1>2, <3>3, PageAssumption
  <2>3. w.pages # {}
    <3>1. SUFFICES ASSUME w.pages = {} PROVE FALSE
      OBVIOUS
    <3>2. Cardinality(w.pages) = 0
      BY <3>1, FS_EmptySet
    <3> QED
      BY <1>2, <3>2, PageAssumption
  <2>4. CASE edge = "old"
    <3> DEFINE last == CHOOSE p \in w.pages : \A q \in w.pages : q.start <= p.start
    <3>1. last \in w.pages /\ \A q \in w.pages : q.start <= last.start
      <4>1. \E p \in w.pages : \A q \in w.pages : q.start <= p.start
        BY <2>1, <2>3, LastPage
      <4> QED
        BY <4>1
    <3>2. Evicted(w, edge) =
            [w EXCEPT !.pages = w.pages \ {last}, !.moreFresh = TRUE,
                      !.freshCursor = Max({p.end : p \in w.pages \ {last}})]
      BY <1>2, <2>4 DEF Evicted
    <3> HIDE DEF last
    <3> QED
      BY <2>2, <3>1, <3>2 DEF EvictsLast
  <2>5. CASE edge = "fresh"
    <3> DEFINE first == CHOOSE p \in w.pages : \A q \in w.pages : p.start <= q.start
    <3>1. first \in w.pages /\ \A q \in w.pages : first.start <= q.start
      <4>1. \E p \in w.pages : \A q \in w.pages : p.start <= q.start
        BY <2>1, <2>3, LastPage
      <4> QED
        BY <4>1
    <3>2. Evicted(w, edge) =
            [w EXCEPT !.pages = w.pages \ {first}, !.moreOld = TRUE,
                      !.oldCursor = Min({p.start : p \in w.pages \ {first}})]
      BY <1>2, <2>5 DEF Evicted
    <3> HIDE DEF first
    <3> QED
      BY <2>2, <3>1, <3>2 DEF EvictsFirst
  <2> QED
    BY <2>4, <2>5 DEF Edges
<1> QED
  BY <1>1, <1>2

LEMMA EvictedIsWindow ==
  ASSUME NEW w, IsWindow(w), NEW edge \in Edges
  PROVE  IsWindow(Evicted(w, edge))
<1> DEFINE new == Evicted(w, edge)
<1>1. w.pages \in SUBSET Pages /\ IsFiniteSet(w.pages)
  BY DEF IsWindow, Windows
<1>2. ASSUME EvictsLast(w, new)
      PROVE  IsWindow(new)
  <2>1. PICK last \in w.pages :
          /\ w.pages \ {last} # {}
          /\ new = [w EXCEPT !.pages = w.pages \ {last}, !.moreFresh = TRUE,
                             !.freshCursor = Max({p.end : p \in w.pages \ {last}})]
    BY <1>2 DEF EvictsLast
  <2>2. IsFiniteSet(w.pages \ {last}) /\ Max({p.end : p \in w.pages \ {last}}) \in Nat
    BY <1>1, <2>1, FS_Subset, EndsOf
  <2> QED
    BY <2>1, <2>2 DEF IsWindow, Windows
<1>3. ASSUME EvictsFirst(w, new)
      PROVE  IsWindow(new)
  <2>1. PICK first \in w.pages :
          /\ w.pages \ {first} # {}
          /\ new = [w EXCEPT !.pages = w.pages \ {first}, !.moreOld = TRUE,
                             !.oldCursor = Min({p.start : p \in w.pages \ {first}})]
    BY <1>3 DEF EvictsFirst
  <2>2. IsFiniteSet(w.pages \ {first}) /\ Min({p.start : p \in w.pages \ {first}}) \in Nat
    BY <1>1, <2>1, FS_Subset, EndsOf
  <2> QED
    BY <2>1, <2>2 DEF IsWindow, Windows
<1> QED
  BY <1>2, <1>3, EvictedIs

\* Eviction takes whole pages, and the cursor goes to where the others end.
LEMMA EvictedOrdered ==
  ASSUME NEW w, IsWindow(w), PagesOK(w), NEW edge \in Edges
  PROVE  PagesOK(Evicted(w, edge))
<1> DEFINE new == Evicted(w, edge)
<1>1. /\ w.pages \in SUBSET Pages /\ IsFiniteSet(w.pages)
      /\ w.oldCursor \in Nat /\ w.freshCursor \in Nat
      /\ \A p \in w.pages : p.start \in Nat /\ p.end \in Nat
  BY DEF IsWindow, Windows, Pages
<1>2. ASSUME EvictsLast(w, new)
      PROVE  PagesOK(new)
  <2>1. PICK last \in w.pages :
          /\ w.pages \ {last} # {}
          /\ new = [w EXCEPT !.pages = w.pages \ {last}, !.moreFresh = TRUE,
                             !.freshCursor = Max({p.end : p \in w.pages \ {last}})]
    BY <1>2 DEF EvictsLast
  <2> DEFINE kept == w.pages \ {last}
             edgeOf == Max({p.end : p \in kept})
  <2>2. new.pages = kept /\ new.oldCursor = w.oldCursor /\ new.freshCursor = edgeOf
    BY <2>1 DEF IsWindow, Windows
  <2>3. /\ edgeOf \in Nat /\ (\A p \in kept : p.end <= edgeOf)
        /\ \E p \in kept : p.end = edgeOf
    <3>1. kept \in SUBSET Pages /\ IsFiniteSet(kept) /\ kept # {}
      BY <1>1, <2>1, FS_Subset
    <3> HIDE DEF kept
    <3> QED
      BY <3>1, EndsOf
  <2> HIDE DEF edgeOf
  <2>4. w.oldCursor # 0 /\ w.oldCursor <= edgeOf
    BY <1>1, <2>3 DEF PagesOK, WithinPage
  <2> HIDE DEF new
  <2> QED
    BY <1>1, <2>2, <2>3, <2>4 DEF PagesOK
<1>3. ASSUME EvictsFirst(w, new)
      PROVE  PagesOK(new)
  <2>1. PICK first \in w.pages :
          /\ w.pages \ {first} # {}
          /\ new = [w EXCEPT !.pages = w.pages \ {first}, !.moreOld = TRUE,
                             !.oldCursor = Min({p.start : p \in w.pages \ {first}})]
    BY <1>3 DEF EvictsFirst
  <2> DEFINE kept == w.pages \ {first}
             edgeOf == Min({p.start : p \in kept})
  <2>2. new.pages = kept /\ new.oldCursor = edgeOf /\ new.freshCursor = w.freshCursor
    BY <2>1 DEF IsWindow, Windows
  <2>3. /\ edgeOf \in Nat /\ (\A p \in kept : edgeOf <= p.start)
        /\ \E p \in kept : p.start = edgeOf
    <3>1. kept \in SUBSET Pages /\ IsFiniteSet(kept) /\ kept # {}
      BY <1>1, <2>1, FS_Subset
    <3> HIDE DEF kept
    <3> QED
      BY <3>1, EndsOf
  <2> HIDE DEF edgeOf
  <2>4. edgeOf # 0 /\ edgeOf <= w.freshCursor
    BY <1>1, <2>3 DEF PagesOK, WithinPage
  <2> HIDE DEF new
  <2> QED
    BY <1>1, <2>2, <2>3, <2>4 DEF PagesOK
<1> QED
  BY <1>2, <1>3, EvictedIs

\* What is left of a row's place is what the window still reaches.
LEMMA EvictedShows ==
  ASSUME NEW w, IsWindow(w), PagesOK(w), NEW edge \in Edges, NEW m, NEW rows \in SUBSET Row,
         Shows(w, m, rows)
  PROVE  Shows(Evicted(w, edge), m, rows)
<1> DEFINE new == Evicted(w, edge)
<1>1. /\ w.pages \in SUBSET Pages /\ IsFiniteSet(w.pages)
      /\ w.oldCursor \in Nat /\ w.freshCursor \in Nat
      /\ \A p \in w.pages : p.start \in Nat /\ p.end \in Nat /\ \A r \in p.rows : r.seq \in Nat
      /\ w.moreOld \in BOOLEAN /\ w.moreFresh \in BOOLEAN
  BY DEF IsWindow, Windows, Pages, Row
<1>2. \A r \in rows : r.seq \in Nat
  BY DEF Row
<1>3. ASSUME NEW N, \A r \in RowsIn(new) : r \in RowsIn(w) /\ N[r.seq],
             \A r \in RowsIn(w) : N[r.seq] => r \in RowsIn(new),
             \A r \in rows : InRange(w, r.seq) => (InRange(new, r.seq) <=> N[r.seq]),
             \A r \in rows : InRange(new, r.seq) => InRange(w, r.seq)
      PROVE  Shows(new, m, rows)
  <2> HIDE DEF new
  <2> QED
    BY <1>3 DEF Shows
<1>4. ASSUME EvictsLast(w, new)
      PROVE  Shows(new, m, rows)
  <2>1. PICK last \in w.pages :
          /\ \A q \in w.pages : q.start <= last.start
          /\ w.pages \ {last} # {}
          /\ new = [w EXCEPT !.pages = w.pages \ {last}, !.moreFresh = TRUE,
                             !.freshCursor = Max({p.end : p \in w.pages \ {last}})]
    BY <1>4 DEF EvictsLast
  <2> DEFINE kept == w.pages \ {last}
             edgeOf == Max({p.end : p \in kept})
             N == [n \in Nat |-> n <= edgeOf]
  <2>2. /\ new.pages = kept /\ new.oldCursor = w.oldCursor /\ new.freshCursor = edgeOf
        /\ new.moreOld = w.moreOld /\ new.moreFresh = TRUE
    BY <2>1 DEF IsWindow, Windows
  <2>3. /\ edgeOf \in Nat /\ (\A p \in kept : p.end <= edgeOf)
        /\ \E p \in kept : p.end = edgeOf
    <3>1. kept \in SUBSET Pages /\ IsFiniteSet(kept) /\ kept # {}
      BY <1>1, <2>1, FS_Subset
    <3> HIDE DEF kept
    <3> QED
      BY <3>1, EndsOf
  <2>4. \A p \in kept : p \in w.pages /\ p # last
    OBVIOUS
  <2>5. \A p \in w.pages : p \in kept \/ p = last
    OBVIOUS
  <2> HIDE DEF edgeOf, kept, new
  <2>6. edgeOf <= w.freshCursor
    BY <1>1, <2>3, <2>4 DEF PagesOK
  <2>7. \A p \in kept : p.end < last.start
    <3> TAKE p \in kept
    <3>1. Apart(p, last) /\ p.start <= last.start /\ last.start <= last.end
      BY <2>1, <2>4 DEF PagesOK, WithinPage
    <3> QED
      BY <1>1, <2>4, <3>1 DEF Apart
  <2>8. ASSUME NEW r \in RowsIn(new)
        PROVE  r \in RowsIn(w) /\ N[r.seq]
    <3>1. PICK p \in kept : r \in p.rows
      BY <2>2 DEF RowsIn
    <3>2. r.seq <= p.end /\ p.end <= edgeOf /\ r.seq \in Nat /\ p.end \in Nat
      BY <1>1, <2>3, <2>4, <3>1 DEF PagesOK, WithinPage
    <3>3. r.seq <= edgeOf
      BY <2>3, <3>2
    <3>4. N[r.seq]
      BY <3>2, <3>3
    <3> QED
      BY <2>4, <3>1, <3>4 DEF RowsIn
  <2>9. ASSUME NEW r \in RowsIn(w), N[r.seq]
        PROVE  r \in RowsIn(new)
    <3>1. PICK p \in w.pages : r \in p.rows
      BY DEF RowsIn
    <3>2. r.seq \in Nat /\ r.seq <= edgeOf
      BY <1>1, <2>9, <3>1
    <3>3. CASE p = last
      <4>1. last.start <= r.seq
        BY <3>1, <3>3 DEF PagesOK, WithinPage
      <4> QED
        BY <1>1, <2>3, <2>4, <2>7, <3>2, <4>1
    <3>4. CASE p \in kept
      BY <2>2, <3>1, <3>4 DEF RowsIn
    <3> QED
      BY <2>5, <3>3, <3>4
  <2>10. \A n \in Nat : InRange(new, n) <=> ((w.moreOld => n >= w.oldCursor) /\ n <= edgeOf)
    BY <2>2 DEF InRange
  <2>11. \A n \in Nat : N[n] <=> n <= edgeOf
    OBVIOUS
  <2>12. \A n \in Nat : (InRange(w, n) => (InRange(new, n) <=> N[n]))
                        /\ (InRange(new, n) => InRange(w, n))
    BY <1>1, <2>3, <2>6, <2>10, <2>11 DEF InRange
  <2> HIDE DEF N
  <2> QED
    BY <1>2, <1>3, <2>8, <2>9, <2>12
<1>5. ASSUME EvictsFirst(w, new)
      PROVE  Shows(new, m, rows)
  <2>1. PICK first \in w.pages :
          /\ \A q \in w.pages : first.start <= q.start
          /\ w.pages \ {first} # {}
          /\ new = [w EXCEPT !.pages = w.pages \ {first}, !.moreOld = TRUE,
                             !.oldCursor = Min({p.start : p \in w.pages \ {first}})]
    BY <1>5 DEF EvictsFirst
  <2> DEFINE kept == w.pages \ {first}
             edgeOf == Min({p.start : p \in kept})
             N == [n \in Nat |-> n >= edgeOf]
  <2>2. /\ new.pages = kept /\ new.freshCursor = w.freshCursor /\ new.oldCursor = edgeOf
        /\ new.moreFresh = w.moreFresh /\ new.moreOld = TRUE
    BY <2>1 DEF IsWindow, Windows
  <2>3. /\ edgeOf \in Nat /\ (\A p \in kept : edgeOf <= p.start)
        /\ \E p \in kept : p.start = edgeOf
    <3>1. kept \in SUBSET Pages /\ IsFiniteSet(kept) /\ kept # {}
      BY <1>1, <2>1, FS_Subset
    <3> HIDE DEF kept
    <3> QED
      BY <3>1, EndsOf
  <2>4. \A p \in kept : p \in w.pages /\ p # first
    OBVIOUS
  <2>5. \A p \in w.pages : p \in kept \/ p = first
    OBVIOUS
  <2> HIDE DEF edgeOf, kept, new
  <2>6. edgeOf >= w.oldCursor
    BY <1>1, <2>3, <2>4 DEF PagesOK
  <2>7. \A p \in kept : first.end < p.start
    <3> TAKE p \in kept
    <3>1. Apart(p, first) /\ first.start <= p.start /\ p.start <= p.end
      BY <2>1, <2>4 DEF PagesOK, WithinPage
    <3> QED
      BY <1>1, <2>4, <3>1 DEF Apart
  <2>8. ASSUME NEW r \in RowsIn(new)
        PROVE  r \in RowsIn(w) /\ N[r.seq]
    <3>1. PICK p \in kept : r \in p.rows
      BY <2>2 DEF RowsIn
    <3>2. p.start <= r.seq /\ edgeOf <= p.start /\ r.seq \in Nat /\ p.start \in Nat
      BY <1>1, <2>3, <2>4, <3>1 DEF PagesOK, WithinPage
    <3>3. r.seq >= edgeOf
      BY <2>3, <3>2
    <3>4. N[r.seq]
      BY <3>2, <3>3
    <3> QED
      BY <2>4, <3>1, <3>4 DEF RowsIn
  <2>9. ASSUME NEW r \in RowsIn(w), N[r.seq]
        PROVE  r \in RowsIn(new)
    <3>1. PICK p \in w.pages : r \in p.rows
      BY DEF RowsIn
    <3>2. r.seq \in Nat /\ r.seq >= edgeOf
      BY <1>1, <2>9, <3>1
    <3>3. CASE p = first
      <4>1. r.seq <= first.end
        BY <3>1, <3>3 DEF PagesOK, WithinPage
      <4> QED
        BY <1>1, <2>3, <2>4, <2>7, <3>2, <4>1
    <3>4. CASE p \in kept
      BY <2>2, <3>1, <3>4 DEF RowsIn
    <3> QED
      BY <2>5, <3>3, <3>4
  <2>10. \A n \in Nat : InRange(new, n) <=> ((w.moreFresh => n <= w.freshCursor) /\ n >= edgeOf)
    BY <2>2 DEF InRange
  <2>11. \A n \in Nat : N[n] <=> n >= edgeOf
    OBVIOUS
  <2>12. \A n \in Nat : (InRange(w, n) => (InRange(new, n) <=> N[n]))
                        /\ (InRange(new, n) => InRange(w, n))
    BY <1>1, <2>3, <2>6, <2>10, <2>11 DEF InRange
  <2> HIDE DEF N
  <2> QED
    BY <1>2, <1>3, <2>8, <2>9, <2>12
<1> QED
  BY <1>4, <1>5, EvictedIs

\* The window that an answer at an edge makes, before the other edge is evicted.
Grown(w, edge, answer) ==
  LET empty == answer.rows = {}
      pages == Dropped(w.pages, IdsOf(answer.rows))
               \cup (IF empty THEN {} ELSE {PageOf(answer.rows)})
  IN  IF edge = "old"
      THEN [w EXCEPT !.pages = pages, !.moreOld = ~empty /\ answer.moreOld,
                     !.oldCursor = IF empty THEN @ ELSE StartOf(answer.rows)]
      ELSE [w EXCEPT !.pages = pages, !.moreFresh = ~empty /\ answer.moreFresh,
                     !.freshCursor = IF empty THEN @ ELSE EndOf(answer.rows)]

LEMMA ExtendedIs ==
  ASSUME NEW w, NEW edge, NEW answer
  PROVE  Extended(w, edge, answer) = Evicted(Grown(w, edge, answer), edge)
BY DEF Extended, Grown

\* A page without the rows of ids.
Without(page, ids) == [page EXCEPT !.rows = {r \in @ : r.id \notin ids}]

LEMMA DroppedPage ==
  ASSUME NEW pages \in SUBSET Pages, NEW ids, NEW p \in Dropped(pages, ids)
  PROVE  \E q \in pages :
           /\ p.start = q.start /\ p.end = q.end
           /\ p.rows = {r \in q.rows : r.id \notin ids}
           /\ p = Without(q, ids)
<1>1. PICK q \in pages : p = Without(q, ids)
  BY DEF Dropped, Without
<1>2. q \in Pages
  OBVIOUS
<1> QED
  BY <1>1, <1>2 DEF Pages, Without

LEMMA DroppedIs ==
  ASSUME NEW w, IsWindow(w), NEW ids
  PROVE  LET left == Dropped(w.pages, ids) IN
         /\ left \in SUBSET Pages /\ IsFiniteSet(left)
         /\ \A p \in left : \E q \in w.pages :
              /\ p.start = q.start /\ p.end = q.end
              /\ p.rows = {r \in q.rows : r.id \notin ids}
              /\ p = Without(q, ids)
         /\ UNION {p.rows : p \in left} = {r \in RowsIn(w) : r.id \notin ids}
<1> DEFINE Cut(q) == Without(q, ids)
           F == [q \in w.pages |-> Cut(q)]
           all == {Cut(q) : q \in w.pages}
           left == Dropped(w.pages, ids)
<1>1. left = {p \in all : p.rows # {}}
  BY DEF Dropped, Without
<1>2. IsFiniteSet(all)
  <2>1. IsFiniteSet({F[q] : q \in w.pages})
    <3>1. IsFiniteSet(w.pages) /\ DOMAIN F = w.pages
      BY DEF IsWindow
    <3> HIDE DEF F
    <3> QED
      BY <3>1, ImageFinite
  <2>2. {F[q] : q \in w.pages} = all
    OBVIOUS
  <2> QED
    BY <2>1, <2>2
<1>3. ASSUME NEW q \in w.pages
      PROVE  /\ Cut(q) \in Pages /\ Cut(q).start = q.start /\ Cut(q).end = q.end
             /\ Cut(q).rows = {r \in q.rows : r.id \notin ids}
  BY DEF IsWindow, Windows, Pages, Without
<1>4. left \in SUBSET Pages /\ IsFiniteSet(left)
  <2>1. left \subseteq all
    BY <1>1
  <2>2. IsFiniteSet(left)
    <3> HIDE DEF left, all
    <3> QED
      BY <1>2, <2>1, FS_Subset
  <2> QED
    BY <1>3, <2>1, <2>2
<1>5. ASSUME NEW p \in left
      PROVE  \E q \in w.pages :
               /\ p.start = q.start /\ p.end = q.end
               /\ p.rows = {r \in q.rows : r.id \notin ids} /\ p = Cut(q)
  BY <1>1, <1>3
<1>6. ASSUME NEW q \in w.pages, NEW r \in q.rows, r.id \notin ids
      PROVE  \E p \in left : r \in p.rows
  BY <1>1, <1>3, <1>6
<1> HIDE DEF Cut, left
<1>7. UNION {p.rows : p \in left} = {r \in RowsIn(w) : r.id \notin ids}
  BY <1>5, <1>6 DEF RowsIn
<1> QED
  BY <1>4, <1>5, <1>7 DEF Cut, left

LEMMA GrownIs ==
  ASSUME NEW w, IsWindow(w), NEW edge \in Edges, NEW answer \in Answers,
         IsFiniteSet(answer.rows)
  PROVE  LET new == Grown(w, edge, answer)
             left == Dropped(w.pages, IdsOf(answer.rows))
         IN
         /\ IsWindow(new)
         /\ new.pages = left \cup (IF answer.rows = {} THEN {} ELSE {PageOf(answer.rows)})
         /\ RowsIn(new) = {r \in RowsIn(w) : r.id \notin IdsOf(answer.rows)} \cup answer.rows
         /\ edge = "old" =>
              /\ new.moreOld = More(edge, answer) /\ new.moreFresh = w.moreFresh
              /\ new.oldCursor = (IF answer.rows = {} THEN w.oldCursor ELSE StartOf(answer.rows))
              /\ new.freshCursor = w.freshCursor
         /\ edge = "fresh" =>
              /\ new.moreFresh = More(edge, answer) /\ new.moreOld = w.moreOld
              /\ new.freshCursor = (IF answer.rows = {} THEN w.freshCursor ELSE EndOf(answer.rows))
              /\ new.oldCursor = w.oldCursor
<1> DEFINE left == Dropped(w.pages, IdsOf(answer.rows))
           added == IF answer.rows = {} THEN {} ELSE {PageOf(answer.rows)}
           pages == left \cup added
           new == Grown(w, edge, answer)
<1>1. answer.rows \in SUBSET Row /\ answer.moreOld \in BOOLEAN /\ answer.moreFresh \in BOOLEAN
  BY DEF Answers
<1>2. /\ left \in SUBSET Pages /\ IsFiniteSet(left)
      /\ UNION {p.rows : p \in left} = {r \in RowsIn(w) : r.id \notin IdsOf(answer.rows)}
  BY DroppedIs
<1>3. /\ added \in SUBSET Pages /\ IsFiniteSet(added)
      /\ UNION {p.rows : p \in added} = answer.rows
      /\ answer.rows # {} => StartOf(answer.rows) \in Nat /\ EndOf(answer.rows) \in Nat
  <2>1. CASE answer.rows = {}
    BY <2>1, FS_EmptySet
  <2>2. CASE answer.rows # {}
    <3>1. PageOf(answer.rows) \in Pages /\ PageOf(answer.rows).rows = answer.rows
      BY <1>1, <2>2, PageIs
    <3>2. StartOf(answer.rows) \in Nat /\ EndOf(answer.rows) \in Nat
      BY <1>1, <2>2, StartIs, EndIs
    <3>3. added = {PageOf(answer.rows)}
      BY <2>2
    <3> QED
      BY <3>1, <3>2, <3>3, FS_Singleton
  <2> QED
    BY <2>1, <2>2
<1> HIDE DEF left, added
<1>4. pages \in SUBSET Pages /\ IsFiniteSet(pages)
  BY <1>2, <1>3, FS_Union
<1>5. UNION {p.rows : p \in pages} =
        (UNION {p.rows : p \in left}) \cup (UNION {p.rows : p \in added})
  OBVIOUS
<1> DEFINE more == More(edge, answer)
<1>6. more \in BOOLEAN
  BY DEF More
<1>7. CASE edge = "old"
  <2> DEFINE cursor == IF answer.rows = {} THEN w.oldCursor ELSE StartOf(answer.rows)
  <2>1. more = (answer.rows # {} /\ answer.moreOld)
    BY <1>7 DEF More
  <2>2. new = [w EXCEPT !.pages = pages, !.moreOld = more, !.oldCursor = cursor]
    BY <1>7, <2>1 DEF Grown, left, added
  <2>3. cursor \in Nat
    BY <1>3 DEF IsWindow, Windows
  <2> HIDE DEF pages, more, cursor, new
  <2>4. /\ new.pages = pages /\ new.moreOld = more /\ new.oldCursor = cursor
        /\ new.moreFresh = w.moreFresh /\ new.freshCursor = w.freshCursor
        /\ new \in Windows
    BY <1>4, <1>6, <2>2, <2>3 DEF IsWindow, Windows
  <2>5. RowsIn(new) = {r \in RowsIn(w) : r.id \notin IdsOf(answer.rows)} \cup answer.rows
    BY <1>2, <1>3, <1>5, <2>4 DEF RowsIn, pages
  <2> QED
    BY <1>4, <1>7, <2>4, <2>5 DEF IsWindow, pages, more, cursor, new, left, added
<1>8. CASE edge = "fresh"
  <2> DEFINE cursor == IF answer.rows = {} THEN w.freshCursor ELSE EndOf(answer.rows)
  <2>1. more = (answer.rows # {} /\ answer.moreFresh)
    BY <1>8 DEF More
  <2>2. new = [w EXCEPT !.pages = pages, !.moreFresh = more, !.freshCursor = cursor]
    BY <1>8, <2>1 DEF Grown, left, added
  <2>3. cursor \in Nat
    BY <1>3 DEF IsWindow, Windows
  <2> HIDE DEF pages, more, cursor, new
  <2>4. /\ new.pages = pages /\ new.moreFresh = more /\ new.freshCursor = cursor
        /\ new.moreOld = w.moreOld /\ new.oldCursor = w.oldCursor
        /\ new \in Windows
    BY <1>4, <1>6, <2>2, <2>3 DEF IsWindow, Windows
  <2>5. RowsIn(new) = {r \in RowsIn(w) : r.id \notin IdsOf(answer.rows)} \cup answer.rows
    BY <1>2, <1>3, <1>5, <2>4 DEF RowsIn, pages
  <2> QED
    BY <1>4, <1>8, <2>4, <2>5 DEF IsWindow, pages, more, cursor, new, left, added
<1> QED
  BY <1>7, <1>8 DEF Edges

\* What an answer at an edge adds lies beyond it.
LEMMA GrownOrdered ==
  ASSUME NEW w, IsWindow(w), PagesOK(w), NEW edge \in Edges, NEW answer \in Answers,
         IsFiniteSet(answer.rows), CursorFor(w, edge) # 0,
         \A r \in answer.rows : r.seq > 0 /\ Beyond(edge, CursorFor(w, edge), r.seq)
  PROVE  PagesOK(Grown(w, edge, answer))
<1> DEFINE new == Grown(w, edge, answer)
           left == Dropped(w.pages, IdsOf(answer.rows))
           page == PageOf(answer.rows)
<1>1. /\ new.pages = left \cup (IF answer.rows = {} THEN {} ELSE {page})
      /\ edge = "old" =>
           /\ new.oldCursor = (IF answer.rows = {} THEN w.oldCursor ELSE StartOf(answer.rows))
           /\ new.freshCursor = w.freshCursor
      /\ edge = "fresh" =>
           /\ new.freshCursor = (IF answer.rows = {} THEN w.freshCursor ELSE EndOf(answer.rows))
           /\ new.oldCursor = w.oldCursor
  BY GrownIs
<1>2. /\ w.oldCursor \in Nat /\ w.freshCursor \in Nat /\ left \in SUBSET Pages
      /\ \A q \in w.pages : q.start \in Nat /\ q.end \in Nat /\ \A r \in q.rows : r.seq \in Nat
  BY DroppedIs DEF IsWindow, Windows, Pages, Row
<1>3. ASSUME NEW p \in left
      PROVE  \E q \in w.pages :
               /\ p.start = q.start /\ p.end = q.end /\ p.rows \subseteq q.rows
               /\ p = Without(q, IdsOf(answer.rows))
  <2> DEFINE ids == IdsOf(answer.rows)
           pages == w.pages
  <2>1. pages \in SUBSET Pages /\ p \in Dropped(pages, ids)
    BY DEF IsWindow, Windows
  <2> HIDE DEF ids, pages
  <2>2. PICK q \in pages :
          /\ p.start = q.start /\ p.end = q.end
          /\ p.rows = {r \in q.rows : r.id \notin ids}
          /\ p = Without(q, ids)
    BY <2>1, DroppedPage
  <2> QED
    BY <2>2 DEF ids, pages
<1>4. \A p \in left : /\ p.start \in Nat /\ p.end \in Nat /\ WithinPage(p)
                      /\ w.oldCursor <= p.start /\ p.end <= w.freshCursor
  BY <1>2, <1>3 DEF PagesOK, WithinPage
<1>5. ASSUME NEW p \in left, NEW q \in left, p # q
      PROVE  Apart(p, q)
  <2> DEFINE Cut(x) == Without(x, IdsOf(answer.rows))
  <2>1. PICK a \in w.pages : p.start = a.start /\ p.end = a.end /\ p = Cut(a)
    BY <1>3
  <2>2. PICK b \in w.pages : q.start = b.start /\ q.end = b.end /\ q = Cut(b)
    BY <1>3
  <2>3. a # b
    BY <1>5, <2>1, <2>2
  <2>4. Apart(a, b)
    BY <2>3 DEF PagesOK
  <2> QED
    BY <2>1, <2>2, <2>4 DEF Apart
<1>6. w.oldCursor # 0 /\ w.oldCursor <= w.freshCursor
  BY <1>2 DEF PagesOK, CursorFor
<1> HIDE DEF new, left, page
<1>7. CASE answer.rows = {}
  <2>1. new.pages = left /\ new.oldCursor = w.oldCursor /\ new.freshCursor = w.freshCursor
    BY <1>1, <1>7 DEF Edges
  <2>2. PagesOK(new)
    BY <1>4, <1>5, <1>6, <2>1 DEF PagesOK
  <2> QED
    BY <2>2 DEF new
<1>8. CASE answer.rows # {}
  <2>1. /\ page.start = StartOf(answer.rows) /\ page.end = EndOf(answer.rows)
        /\ page.start \in Nat /\ page.end \in Nat /\ WithinPage(page)
        /\ \E r \in answer.rows : r.seq = page.start
        /\ \E r \in answer.rows : r.seq = page.end
    BY <1>8, PageIs DEF page, Pages, Answers
  <2>2. new.pages = left \cup {page}
    BY <1>1, <1>8
  <2>3. page.start # 0 /\ page.start <= page.end
        /\ Beyond(edge, CursorFor(w, edge), page.start) /\ Beyond(edge, CursorFor(w, edge), page.end)
    BY <2>1 DEF WithinPage
  <2>4. \A p \in new.pages : p \in left \/ p = page
    BY <2>2
  <2>5. CASE edge = "old"
    <3>1. page.end < w.oldCursor /\ new.oldCursor = page.start /\ new.freshCursor = w.freshCursor
      BY <1>1, <1>8, <2>1, <2>3, <2>5 DEF Beyond, CursorFor
    <3>2. \A p \in left : Apart(page, p) /\ Apart(p, page)
      BY <1>2, <1>4, <2>1, <3>1 DEF Apart
    <3>3. \A p \in new.pages :
            new.oldCursor <= p.start /\ p.end <= new.freshCursor /\ WithinPage(p)
      BY <1>2, <1>4, <1>6, <2>1, <2>3, <2>4, <3>1
    <3>4. \A p, q \in new.pages : p = q \/ Apart(p, q)
      BY <1>5, <2>4, <3>2
    <3>5. new.oldCursor <= new.freshCursor /\ new.oldCursor # 0
      BY <1>2, <1>6, <2>1, <2>3, <3>1
    <3> QED
      BY <3>3, <3>4, <3>5 DEF PagesOK, new
  <2>6. CASE edge = "fresh"
    <3>1. page.start > w.freshCursor /\ new.freshCursor = page.end /\ new.oldCursor = w.oldCursor
      BY <1>1, <1>8, <2>1, <2>3, <2>6 DEF Beyond, CursorFor
    <3>2. \A p \in left : Apart(page, p) /\ Apart(p, page)
      BY <1>2, <1>4, <2>1, <3>1 DEF Apart
    <3>3. \A p \in new.pages :
            new.oldCursor <= p.start /\ p.end <= new.freshCursor /\ WithinPage(p)
      BY <1>2, <1>4, <1>6, <2>1, <2>3, <2>4, <3>1
    <3>4. \A p, q \in new.pages : p = q \/ Apart(p, q)
      BY <1>5, <2>4, <3>2
    <3>5. new.oldCursor <= new.freshCursor /\ new.oldCursor # 0
      BY <1>2, <1>6, <2>1, <2>3, <3>1
    <3> QED
      BY <3>3, <3>4, <3>5 DEF PagesOK, new
  <2> QED
    BY <2>5, <2>6 DEF Edges
<1> QED
  BY <1>7, <1>8

\* The source has one row at most of m, and the window with the answer has it.
LEMMA GrownShows ==
  ASSUME NEW w, IsWindow(w), PagesOK(w), NEW edge \in Edges, NEW answer \in Answers,
         IsFiniteSet(answer.rows), CursorFor(w, edge) # 0, HasMore(w, edge),
         \A r \in answer.rows : r.seq > 0 /\ Beyond(edge, CursorFor(w, edge), r.seq),
         NEW m, NEW rows \in SUBSET Row, \A r, q \in rows : r = q, \A r \in rows : r.id = m,
         Shows(w, m, rows), Tells(edge, CursorFor(w, edge), answer, m, rows)
  PROVE  Shows(Grown(w, edge, answer), m, rows)
<1> DEFINE new == Grown(w, edge, answer)
           cursor == CursorFor(w, edge)
<1>1. /\ RowsIn(new) = {r \in RowsIn(w) : r.id \notin IdsOf(answer.rows)} \cup answer.rows
      /\ edge = "old" =>
           /\ new.moreOld = More(edge, answer) /\ new.moreFresh = w.moreFresh
           /\ new.oldCursor = (IF answer.rows = {} THEN w.oldCursor ELSE StartOf(answer.rows))
           /\ new.freshCursor = w.freshCursor
      /\ edge = "fresh" =>
           /\ new.moreFresh = More(edge, answer) /\ new.moreOld = w.moreOld
           /\ new.freshCursor = (IF answer.rows = {} THEN w.freshCursor ELSE EndOf(answer.rows))
           /\ new.oldCursor = w.oldCursor
  BY GrownIs
<1>2. /\ w.oldCursor \in Nat /\ w.freshCursor \in Nat /\ cursor \in Nat
      /\ w.moreOld \in BOOLEAN /\ w.moreFresh \in BOOLEAN /\ w.oldCursor <= w.freshCursor
  BY DEF IsWindow, Windows, PagesOK, CursorFor
<1>3. \A r \in rows : r.seq \in Nat
  BY DEF Row
<1>4. answer.rows # {} => /\ StartOf(answer.rows) \in Nat /\ EndOf(answer.rows) \in Nat
                          /\ Beyond(edge, cursor, StartOf(answer.rows))
                          /\ Beyond(edge, cursor, EndOf(answer.rows))
  BY StartIs, EndIs DEF Answers
<1>5. ASSUME NEW r \in rows
      PROVE  /\ InRange(w, r.seq) => ~Beyond(edge, cursor, r.seq)
             /\ InRange(new, r.seq) <=>
                  \/ InRange(w, r.seq)
                  \/ Beyond(edge, cursor, r.seq) /\ Reaches(edge, answer, r.seq)
  <2> DEFINE n == r.seq
  <2>1. n \in Nat
    BY <1>3
  <2> HIDE DEF n
  <2>2. CASE edge = "old"
    <3>1. cursor = w.oldCursor /\ w.moreOld
      BY <2>2 DEF CursorFor, HasMore
    <3>2. InRange(w, n) <=> n >= w.oldCursor /\ (w.moreFresh => n <= w.freshCursor)
      BY <3>1 DEF InRange
    <3>3. Beyond(edge, cursor, n) <=> n < w.oldCursor
      BY <2>2, <3>1 DEF Beyond
    <3>4. More(edge, answer) => answer.rows # {}
      BY DEF More
    <3>5. InRange(new, n) <=> Reaches(edge, answer, n) /\ (w.moreFresh => n <= w.freshCursor)
      BY <1>1, <2>2, <3>4 DEF InRange, Reaches
    <3>6. n >= w.oldCursor => Reaches(edge, answer, n)
      <4>1. answer.rows # {} => StartOf(answer.rows) < w.oldCursor
        BY <1>4, <2>2, <3>1 DEF Beyond
      <4> QED
        BY <1>2, <1>4, <2>1, <2>2, <3>4, <4>1 DEF Reaches
    <3>7. n < w.oldCursor => n <= w.freshCursor
      BY <1>2, <2>1
    <3> QED
      BY <1>2, <2>1, <3>2, <3>3, <3>5, <3>6, <3>7 DEF n
  <2>3. CASE edge = "fresh"
    <3>0. edge # "old"
      BY <2>3
    <3>1. cursor = w.freshCursor /\ w.moreFresh
      BY <2>3 DEF CursorFor, HasMore
    <3>2. InRange(w, n) <=> n <= w.freshCursor /\ (w.moreOld => n >= w.oldCursor)
      BY <3>1 DEF InRange
    <3>3. Beyond(edge, cursor, n) <=> n > w.freshCursor
      BY <3>0, <3>1 DEF Beyond
    <3>4. More(edge, answer) => answer.rows # {}
      BY DEF More
    <3>5. InRange(new, n) <=> Reaches(edge, answer, n) /\ (w.moreOld => n >= w.oldCursor)
      BY <1>1, <2>3, <3>0, <3>4 DEF InRange, Reaches
    <3>6. n <= w.freshCursor => Reaches(edge, answer, n)
      <4>1. answer.rows # {} => EndOf(answer.rows) > w.freshCursor
        BY <1>4, <3>0, <3>1 DEF Beyond
      <4> QED
        BY <1>2, <1>4, <2>1, <3>0, <3>4, <4>1 DEF Reaches
    <3>7. n > w.freshCursor => n >= w.oldCursor
      BY <1>2, <2>1
    <3> QED
      BY <1>2, <2>1, <3>2, <3>3, <3>5, <3>6, <3>7 DEF n
  <2> QED
    BY <2>2, <2>3 DEF Edges
<1> HIDE DEF new, cursor
<1>6. {r \in answer.rows : r.id = m} =
        {r \in rows : Beyond(edge, cursor, r.seq) /\ Reaches(edge, answer, r.seq)}
  BY DEF Tells, cursor
<1>7. {r \in RowsIn(w) : r.id = m} = {r \in rows : InRange(w, r.seq)}
  BY DEF Shows
<1>8. CASE m \in IdsOf(answer.rows)
  <2>1. PICK a \in answer.rows : a.id = m
    BY <1>8 DEF IdsOf
  <2>2. a \in rows /\ Beyond(edge, cursor, a.seq) /\ Reaches(edge, answer, a.seq)
    BY <1>6, <2>1
  <2>3. \A r \in rows : r = a
    BY <2>2
  <2>4. ~InRange(w, a.seq) /\ InRange(new, a.seq)
    BY <1>5, <2>2
  <2>5. {r \in RowsIn(new) : r.id = m} = {a}
    BY <1>1, <1>6, <1>7, <1>8, <2>1, <2>2, <2>3, <2>4
  <2>6. {r \in rows : InRange(new, r.seq)} = {a}
    BY <2>2, <2>3, <2>4
  <2> QED
    BY <2>5, <2>6 DEF Shows, new
<1>9. CASE m \notin IdsOf(answer.rows)
  <2>1. {r \in answer.rows : r.id = m} = {}
    BY <1>9 DEF IdsOf
  <2>2. {r \in RowsIn(new) : r.id = m} = {r \in RowsIn(w) : r.id = m}
    BY <1>1, <1>9, <2>1
  <2>3. \A r \in rows : InRange(new, r.seq) <=> InRange(w, r.seq)
    BY <1>5, <1>6, <2>1
  <2> QED
    BY <1>7, <2>2, <2>3 DEF Shows, new
<1> QED
  BY <1>8, <1>9

\* A page that lands at an edge keeps the window ordered and true.
LEMMA ExtendedIsWindow ==
  ASSUME NEW w, IsWindow(w), NEW edge \in Edges, NEW answer \in Answers,
         IsFiniteSet(answer.rows)
  PROVE  IsWindow(Extended(w, edge, answer))
BY GrownIs, EvictedIsWindow, ExtendedIs

LEMMA ExtendedOrdered ==
  ASSUME NEW w, IsWindow(w), PagesOK(w), NEW edge \in Edges, NEW answer \in Answers,
         IsFiniteSet(answer.rows), CursorFor(w, edge) # 0,
         \A r \in answer.rows : r.seq > 0 /\ Beyond(edge, CursorFor(w, edge), r.seq)
  PROVE  PagesOK(Extended(w, edge, answer))
<1>1. IsWindow(Grown(w, edge, answer)) /\ PagesOK(Grown(w, edge, answer))
  BY GrownIs, GrownOrdered
<1> QED
  BY <1>1, EvictedOrdered, ExtendedIs

LEMMA ExtendedShows ==
  ASSUME NEW w, IsWindow(w), PagesOK(w), NEW edge \in Edges, NEW answer \in Answers,
         IsFiniteSet(answer.rows), CursorFor(w, edge) # 0, HasMore(w, edge),
         \A r \in answer.rows : r.seq > 0 /\ Beyond(edge, CursorFor(w, edge), r.seq),
         NEW m, NEW rows \in SUBSET Row, \A r, q \in rows : r = q, \A r \in rows : r.id = m,
         Shows(w, m, rows), Tells(edge, CursorFor(w, edge), answer, m, rows)
  PROVE  Shows(Extended(w, edge, answer), m, rows)
<1>1. IsWindow(Grown(w, edge, answer)) /\ PagesOK(Grown(w, edge, answer))
  BY GrownIs, GrownOrdered
<1>2. Shows(Grown(w, edge, answer), m, rows)
  BY GrownShows
<1> QED
  BY <1>1, <1>2, EvictedShows, ExtendedIs

\* A targeted refresh leaves a window.
LEMMA RefreshedIsWindow ==
  ASSUME NEW w, IsWindow(w), NEW ids, NEW found \in SUBSET Row
  PROVE  IsWindow(Refreshed(w, ids, found))
<1> DEFINE Now(r) == IF r.id \in ids THEN {f \in found : f.id = r.id} ELSE {r}
           Cut(q) == [q EXCEPT !.rows = UNION {Now(r) : r \in @}]
           F == [q \in w.pages |-> Cut(q)]
           all == {Cut(q) : q \in w.pages}
           left == {p \in all : p.rows # {}}
<1>1. Refreshed(w, ids, found) = [w EXCEPT !.pages = left]
  BY DEF Refreshed
<1>2. IsFiniteSet(left)
  <2>1. IsFiniteSet({F[q] : q \in w.pages})
    <3>1. IsFiniteSet(w.pages) /\ DOMAIN F = w.pages
      BY DEF IsWindow
    <3> HIDE DEF F
    <3> QED
      BY <3>1, ImageFinite
  <2>2. {F[q] : q \in w.pages} = all
    OBVIOUS
  <2>3. left \subseteq all
    OBVIOUS
  <2> HIDE DEF left, all
  <2> QED
    BY <2>1, <2>2, <2>3, FS_Subset
<1>3. ASSUME NEW q \in w.pages
      PROVE  Cut(q) \in Pages
  <2>1. q \in Pages
    BY DEF IsWindow, Windows
  <2>2. \A r \in q.rows : Now(r) \subseteq Row
    BY <2>1 DEF Pages
  <2> HIDE DEF Now
  <2>3. UNION {Now(r) : r \in q.rows} \subseteq Row
    BY <2>2
  <2> QED
    BY <2>1, <2>3 DEF Pages
<1>4. left \in SUBSET Pages
  BY <1>3
<1> HIDE DEF left
<1> QED
  BY <1>1, <1>2, <1>4 DEF IsWindow, Windows

-----------------------------------------------------------------------------
(* What the source answers *)

LEMMA RowsAre ==
  ASSUME HostOK, NEW c
  PROVE  /\ RowsOf(c) \in SUBSET Row /\ IsFiniteSet(RowsOf(c))
         /\ \A r \in RowsOf(c) : r.id \in Messages /\ r.seq > 0
         /\ \A m \in Messages : {r \in RowsOf(c) : r.id = m} = RowAt(c, m, server[m])
<1> DEFINE S == {m \in Messages : server[m] > 0}
           T == {k \in Messages : ConversationOf[k] = c /\ server[k] > 0}
           F == [m \in T |-> [id |-> m, seq |-> server[m]]]
<1>1. \A m \in Messages : m \in Ids /\ server[m] \in Nat
  BY DEF HostOK, Messages
<1>2. \A m \in T : [id |-> m, seq |-> server[m]] \in Row
  BY <1>1 DEF Row
<1>3. IsFiniteSet(RowsOf(c))
  <2>1. IsFiniteSet(S) /\ T \subseteq S
    BY DEF HostOK
  <2>2. DOMAIN F = T
    OBVIOUS
  <2>3. {F[m] : m \in T} = RowsOf(c)
    BY DEF RowsOf
  <2> HIDE DEF S, T, F
  <2>4. IsFiniteSet(T)
    BY <2>1, FS_Subset
  <2> QED
    BY <2>2, <2>3, <2>4, ImageFinite
<1>4. ASSUME NEW r \in RowsOf(c)
      PROVE  r.id \in T /\ r = [id |-> r.id, seq |-> server[r.id]]
  BY DEF RowsOf
<1>5. ASSUME NEW m \in Messages
      PROVE  {r \in RowsOf(c) : r.id = m} = RowAt(c, m, server[m])
  <2> DEFINE row == [id |-> m, seq |-> server[m]]
  <2>1. CASE ConversationOf[m] = c /\ server[m] > 0
    <3>1. row \in RowsOf(c) /\ row.id = m
      BY <2>1 DEF RowsOf
    <3>2. \A r \in RowsOf(c) : r.id = m => r = row
      BY <1>4
    <3>3. RowAt(c, m, server[m]) = {row}
      BY <2>1 DEF RowAt
    <3> HIDE DEF row
    <3> QED
      BY <3>1, <3>2, <3>3
  <2>2. CASE ~(ConversationOf[m] = c /\ server[m] > 0)
    <3>1. \A r \in RowsOf(c) : r.id # m
      BY <1>4, <2>2
    <3> QED
      BY <2>2, <3>1 DEF RowAt
  <2> QED
    BY <2>1, <2>2
<1>6. \A r \in RowsOf(c) : r.id \in Messages /\ r.seq > 0
  BY <1>4
<1>7. RowsOf(c) \in SUBSET Row
  BY <1>2, <1>4
<1> QED
  BY <1>3, <1>5, <1>6, <1>7

\* A source has one row of m at most.
LEMMA RowAtIs ==
  ASSUME NEW c, NEW m \in Messages, NEW n \in Nat
  PROVE  /\ RowAt(c, m, n) \in SUBSET Row
         /\ \A r, q \in RowAt(c, m, n) : r = q
         /\ \A r \in RowAt(c, m, n) : r.id = m /\ r.seq = n
<1>1. [id |-> m, seq |-> n] \in Row
  BY DEF Row, Messages
<1> QED
  BY <1>1 DEF RowAt

\* The rows of a page that are of m are the ones that the source has of it.
LEMMA PageShows ==
  ASSUME HostOK, NEW c, NEW m \in Messages, NEW answer \in Answers, IsFiniteSet(answer.rows),
         answer.rows \subseteq RowsOf(c),
         \A r \in RowsOf(c) : r \in answer.rows <=> InRange(FirstPage(answer), r.seq)
  PROVE  Shows(FirstPage(answer), m, RowAt(c, m, server[m]))
<1>1. {r \in RowsOf(c) : r.id = m} = RowAt(c, m, server[m])
  BY RowsAre
<1>2. RowsIn(FirstPage(answer)) = answer.rows
  BY FirstPageIsWindow
<1> QED
  BY <1>1, <1>2 DEF Shows

\* What AnswerTo says is what the source has.
LEMMA AnswersTell ==
  ASSUME HostOK, NEW call \in Call, Anchored(call.query), ~Refused(call),
         call.kind \in Edges => call.cursor # 0
  PROVE  LET c == call.query.conversation
             answer == AnswerTo(call)
         IN
         /\ answer \in Answers /\ IsFiniteSet(answer.rows)
         /\ \A r \in answer.rows :
              r.seq > 0 /\ (call.kind \in Edges => Beyond(call.kind, call.cursor, r.seq))
         /\ call.kind = "first" /\ call.query.around = NoMessage => ~answer.moreFresh
         /\ call.kind = "first" => \A m \in Messages :
              Shows(FirstPage(answer), m, RowAt(c, m, server[m]))
         /\ call.kind \in Edges => \A m \in Messages :
              Tells(call.kind, call.cursor, answer, m, RowAt(c, m, server[m]))
<1> DEFINE c == call.query.conversation
           answer == AnswerTo(call)
           rows == RowsOf(c)
<1>1. /\ rows \in SUBSET Row /\ IsFiniteSet(rows)
      /\ \A r \in rows : r.id \in Messages /\ r.seq > 0
      /\ \A m \in Messages : {r \in rows : r.id = m} = RowAt(c, m, server[m])
  BY RowsAre
<1>2. /\ call.kind \in {"first", "targets"} \cup Edges /\ call.cursor \in Nat
      /\ call.query \in Queries
  BY DEF Call
<1>3. "first" \notin Edges /\ "targets" \notin Edges
  BY DEF Edges
<1> HIDE DEF rows, c
<1>4. CASE call.kind = "targets"
  <2>1. answer = [NoAnswer EXCEPT !.rows = {r \in rows : r.id \in call.targets}]
    <3>1. call.kind = "targets" /\ ~(call.kind = "first") /\ call.kind \notin Edges
      BY <1>3, <1>4
    <3> QED
      BY <3>1, Zenon DEF AnswerTo, rows, c
  <2> DEFINE found == {r \in rows : r.id \in call.targets}
  <2>2. found \in SUBSET Row /\ found \subseteq rows
    BY <1>1
  <2>3. IsFiniteSet(found)
    <3> HIDE DEF found
    <3> QED
      BY <1>1, <2>2, FS_Subset
  <2> HIDE DEF found
  <2>4. answer \in Answers /\ answer.rows = found
    BY <2>1, <2>2 DEF Answers, NoAnswer, found
  <2> QED
    BY <1>1, <1>3, <1>4, <2>2, <2>3, <2>4
<1>5. CASE call.kind = "first" /\ call.query.around # NoMessage
  <2> DEFINE a == call.query.around
             anchor == [id |-> a, seq |-> server[a]]
  <2>1. a \in Messages /\ ConversationOf[a] = c /\ server[a] \in Nat /\ server[a] # 0
    BY <1>2, <1>5, HostAssumption DEF Anchored, Refused, c, HostOK
  <2>2. anchor \in rows
    BY <2>1 DEF rows, RowsOf
  <2>3. answer = Around(rows, anchor.seq)
    BY <1>3, <1>5 DEF AnswerTo, rows, c
  <2> HIDE DEF anchor, answer
  <2>4. /\ answer \in Answers /\ answer.rows \subseteq rows /\ IsFiniteSet(answer.rows)
        /\ \A r \in rows : r \in answer.rows <=> InRange(FirstPage(answer), r.seq)
    BY <1>1, <2>2, <2>3, AroundAnswer
  <2>5. \A m \in Messages : Shows(FirstPage(answer), m, RowAt(c, m, server[m]))
    BY <2>4, PageShows DEF rows
  <2> QED
    BY <1>1, <1>3, <1>5, <2>4, <2>5 DEF c, answer
<1>6. CASE call.kind = "first" /\ call.query.around = NoMessage
  <2>1. answer = Slice(rows, "old", 0)
    BY <1>3, <1>6 DEF AnswerTo, rows, c
  <2> HIDE DEF answer
  <2>2. /\ answer \in Answers /\ answer.rows \subseteq rows /\ IsFiniteSet(answer.rows)
        /\ ~answer.moreFresh
        /\ \A r \in rows : r \in answer.rows <=> InRange(FirstPage(answer), r.seq)
    BY <1>1, <2>1, NewestAnswer
  <2>3. \A m \in Messages : Shows(FirstPage(answer), m, RowAt(c, m, server[m]))
    BY <2>2, PageShows DEF rows
  <2> QED
    BY <1>1, <1>3, <1>6, <2>2, <2>3 DEF c, answer
<1>7. CASE call.kind \in Edges
  <2> DEFINE edge == call.kind
             cursor == call.cursor
  <2>1. answer = Slice(rows, edge, cursor)
    BY <1>3, <1>7 DEF AnswerTo, rows, c
  <2>2. edge \in Edges /\ cursor \in Nat /\ cursor # 0
    BY <1>2, <1>7
  <2> HIDE DEF answer, edge, cursor
  <2>3. /\ answer \in Answers /\ answer.rows \subseteq rows /\ IsFiniteSet(answer.rows)
        /\ \A r \in rows : r \in answer.rows <=>
                             Beyond(edge, cursor, r.seq) /\ Reaches(edge, answer, r.seq)
    BY <1>1, <2>1, <2>2, EdgeAnswer
  <2>4. ASSUME NEW m \in Messages
        PROVE  Tells(edge, cursor, answer, m, RowAt(c, m, server[m]))
    <3>1. {r \in rows : r.id = m} = RowAt(c, m, server[m])
      BY <1>1
    <3> QED
      BY <2>3, <3>1 DEF Tells
  <2> QED
    BY <1>1, <1>3, <1>7, <2>3, <2>4 DEF c, answer, edge, cursor
<1> QED
  BY <1>2, <1>4, <1>5, <1>6, <1>7

-----------------------------------------------------------------------------
(* Every method keeps the list in control of its calls *)

\* A list and its calls: what the methods keep besides the window's rows.
LEMMA CallsSame ==
  ASSUME NEW h, NEW l, OneCall(h, l), NEW new,
         new.query = l.query, new.loading = l.loading, new.calls = l.calls,
         l.stale => new.stale,
         \A edge \in Edges : /\ CursorFor(new.window, edge) = CursorFor(l.window, edge)
                             /\ HasMore(new.window, edge) = HasMore(l.window, edge)
  PROVE  OneCall(h, new)
<1>1. ASSUME NEW i \in DOMAIN l.calls
      PROVE  CallOK(h, new, l.calls[i])
  <2>1. CallOK(h, l, l.calls[i])
    BY DEF OneCall
  <2> QED
    BY <2>1 DEF CallOK
<1> QED
  BY <1>1 DEF OneCall

\* A call that is out, and what it was called for.
NewCall(l, kind, cursor, targets) ==
  [kind |-> kind, query |-> l.query, cursor |-> cursor, targets |-> targets,
   state |-> "sent", answer |-> NoAnswer]

LEMMA NewCallIs ==
  ASSUME NEW l \in List, NEW kind \in {"first", "targets"} \cup Edges, NEW cursor \in Nat,
         NEW targets \in SUBSET Ids
  PROVE  LET call == NewCall(l, kind, cursor, targets) IN
         /\ call \in Call /\ call.kind = kind /\ call.cursor = cursor
         /\ call.query = l.query /\ call.state = "sent"
BY DEF NewCall, Call, NoAnswer, Answers, List

LEMMA IssuedIs ==
  ASSUME NEW l \in List, NEW kind \in {"first", "targets"} \cup Edges, NEW cursor \in Nat,
         NEW targets \in SUBSET Ids
  PROVE  LET new == Issued(l, kind, cursor, targets)
             n == Len(l.calls)
         IN
         /\ new \in Seq(Call) /\ DOMAIN new = 1..(n + 1) /\ DOMAIN l.calls = 1..n /\ n \in Nat
         /\ \A i \in 1..n : new[i] = l.calls[i]
         /\ new[n + 1] = NewCall(l, kind, cursor, targets)
<1> DEFINE call == NewCall(l, kind, cursor, targets)
<1>1. call \in Call
  BY NewCallIs
<1>2. Issued(l, kind, cursor, targets) = Append(l.calls, call)
  BY DEF Issued, NewCall
<1>3. l.calls \in Seq(Call)
  BY DEF List
<1> HIDE DEF call
<1>4. QED
  BY <1>1, <1>2, <1>3 DEF call

\* A list has a window and an overlay.
LEMMA ListHas ==
  ASSUME NEW l
  PROVE  /\ l \in List => l.window \in Windows /\ l.overlay \in SUBSET Entry
                          /\ l.calls \in Seq(Call) /\ l.query \in Queries /\ DOMAIN l = Fields
         /\ List = [query : Queries, window : Windows, overlay : SUBSET Entry, calls : Seq(Call),
                    loading : {"none", "first"} \cup Edges, blocked : SUBSET Edges,
                    targets : SUBSET Ids, loaded : BOOLEAN, failed : BOOLEAN,
                    dirty : BOOLEAN, stale : BOOLEAN, scheduled : BOOLEAN,
                    near : BOOLEAN, slid : BOOLEAN, stuck : BOOLEAN, pin : BOOLEAN]
BY DEF List, Windows, Pages, Fields

LEMMA CoveredIs ==
  ASSUME NEW overlay \in SUBSET Entry
  PROVE  /\ Covered(overlay) \in SUBSET Entry
         /\ LocalIds(Covered(overlay)) = LocalIds(overlay)
         /\ Settled(Covered(overlay)) = {}
<1>1. ASSUME NEW e \in Entry
      PROVE  LET c == [e EXCEPT !.covered = TRUE] IN c \in Entry /\ c.id = e.id /\ c.covered
  BY DEF Entry
<1>2. Covered(overlay) = {[e EXCEPT !.covered = TRUE] : e \in overlay}
  BY DEF Covered
<1>3. Covered(overlay) \in SUBSET Entry
  BY <1>1, <1>2
<1>4. ASSUME NEW c \in Covered(overlay)
      PROVE  c.covered /\ \E e \in overlay : c.id = e.id
  <2>1. PICK e \in overlay : c = [e EXCEPT !.covered = TRUE]
    BY <1>2
  <2> QED
    BY <1>1, <2>1
<1>5. ASSUME NEW e \in overlay
      PROVE  \E c \in Covered(overlay) : c.id = e.id
  BY <1>1, <1>2
<1> QED
  BY <1>3, <1>4, <1>5 DEF LocalIds, Settled

LEMMA MarkedIs ==
  ASSUME NEW l \in List, NEW calls \in Seq(Call), NEW pin \in BOOLEAN, NEW stuck \in BOOLEAN
  PROVE  [l EXCEPT !.calls = calls, !.loading = "first",
                   !.pin = pin, !.blocked = {}, !.targets = {},
                   !.dirty = FALSE, !.failed = FALSE, !.slid = FALSE,
                   !.stuck = stuck] \in List
BY DEF List

\* A first page is the one call that is left.
LEMMA FirstPageIs ==
  ASSUME NEW l \in List, NEW clear \in BOOLEAN, NEW pin \in BOOLEAN
  PROVE  LET new == RunFirstPage(l, clear, pin) IN
         /\ new \in List
         /\ new.query = l.query /\ new.loading = "first"
         /\ new.calls = <<NewCall(l, "first", 0, {})>>
         /\ new.window = (IF clear THEN EmptyWindow ELSE l.window)
         /\ new.overlay = (IF clear THEN {} ELSE Covered(l.overlay))
         /\ ~new.dirty /\ ~new.failed /\ new.targets = {}
         /\ clear => ~new.loaded /\ ~new.stale
         /\ ~clear => new.loaded = l.loaded /\ new.stale = l.stale
<1> DEFINE kept == IF clear
                   THEN [l EXCEPT !.window = EmptyWindow, !.overlay = {},
                                  !.loaded = FALSE, !.stale = FALSE, !.near = TRUE]
                   ELSE [l EXCEPT !.overlay = Covered(@)]
           next == [kept EXCEPT !.calls = Outdated(@), !.loading = "first",
                                !.pin = pin, !.blocked = {}, !.targets = {},
                                !.dirty = FALSE, !.failed = FALSE, !.slid = FALSE,
                                !.stuck = pin \/ l.near]
           new == RunFirstPage(l, clear, pin)
           call == NewCall(l, "first", 0, {})
<1>1. new = [next EXCEPT !.calls = Issued(next, "first", 0, {})]
  BY DEF RunFirstPage
<1>2. EmptyWindow \in Windows /\ Covered(l.overlay) \in SUBSET Entry
  BY EmptyIsWindow, ListHas, CoveredIs DEF IsWindow
<1>3. kept \in List
  <2>1. [l EXCEPT !.window = EmptyWindow, !.overlay = {},
                  !.loaded = FALSE, !.stale = FALSE, !.near = TRUE] \in List
    BY <1>2 DEF List, Windows, Pages
  <2>2. [l EXCEPT !.overlay = Covered(@)] \in List
    BY <1>2 DEF List, Windows, Pages
  <2> QED
    BY <2>1, <2>2
<1>4. /\ kept.query = l.query
      /\ kept.window = (IF clear THEN EmptyWindow ELSE l.window)
      /\ kept.overlay = (IF clear THEN {} ELSE Covered(l.overlay))
      /\ clear => ~kept.loaded /\ ~kept.stale
      /\ ~clear => kept.loaded = l.loaded /\ kept.stale = l.stale
  BY DEF List
<1> HIDE DEF kept
<1>5. next \in List
  <2> DEFINE stuck == pin \/ l.near
             none == Outdated(kept.calls)
  <2>1. stuck \in BOOLEAN /\ none \in Seq(Call)
    BY DEF Outdated
  <2>2. next = [kept EXCEPT !.calls = none, !.loading = "first",
                            !.pin = pin, !.blocked = {}, !.targets = {},
                            !.dirty = FALSE, !.failed = FALSE, !.slid = FALSE,
                            !.stuck = stuck]
    OBVIOUS
  <2> HIDE DEF stuck, none, next
  <2> QED
    BY <1>3, <2>1, <2>2, MarkedIs
<1>6. /\ next.query = kept.query /\ next.window = kept.window /\ next.overlay = kept.overlay
      /\ next.loading = "first" /\ next.calls = <<>>
      /\ ~next.dirty /\ ~next.failed /\ next.targets = {}
      /\ next.loaded = kept.loaded /\ next.stale = kept.stale
  BY <1>3 DEF List, Outdated
<1> HIDE DEF next
<1>7. Issued(next, "first", 0, {}) = Append(<<>>, call)
  BY <1>4, <1>6 DEF Issued, NewCall
<1>8. call \in Call
  BY NewCallIs
<1> HIDE DEF call
<1>9. Append(<<>>, call) = <<call>> /\ <<call>> \in Seq(Call)
  BY <1>8
<1>10. new \in List /\ new.calls = <<call>>
  <2>1. new = [next EXCEPT !.calls = <<call>>]
    BY <1>1, <1>7, <1>9
  <2> HIDE DEF new
  <2> QED
    BY <1>5, <1>9, <2>1 DEF List
<1>11. /\ new.query = next.query /\ new.window = next.window /\ new.overlay = next.overlay
       /\ new.loading = "first"
       /\ ~new.dirty /\ ~new.failed /\ new.targets = {}
       /\ new.loaded = next.loaded /\ new.stale = next.stale
  BY <1>1, <1>5, <1>6 DEF List
<1> HIDE DEF new
<1>12. new.window = (IF clear THEN EmptyWindow ELSE l.window)
       /\ new.overlay = (IF clear THEN {} ELSE Covered(l.overlay))
  BY <1>4, <1>6, <1>11
<1>13. /\ clear => ~new.loaded /\ ~new.stale
       /\ ~clear => new.loaded = l.loaded /\ new.stale = l.stale
  BY <1>4, <1>6, <1>11
<1> QED
  BY <1>4, <1>6, <1>10, <1>11, <1>12, <1>13 DEF new, call

\* One call for a first page is out, and the list waits for it.
LEMMA FirstPageControl ==
  ASSUME NEW h, NEW l \in List, IsFiniteSet(l.window.pages), Anchored(l.query),
         NEW clear \in BOOLEAN, NEW pin \in BOOLEAN, clear \/ Stages(l)
  PROVE  Control(h, RunFirstPage(l, clear, pin))
<1> DEFINE new == RunFirstPage(l, clear, pin)
           call == NewCall(l, "first", 0, {})
<1>1. /\ new \in List
      /\ new.query = l.query /\ new.loading = "first" /\ new.calls = <<call>>
      /\ new.window = (IF clear THEN EmptyWindow ELSE l.window)
      /\ ~new.failed /\ new.targets = {}
      /\ clear => ~new.loaded /\ ~new.stale
      /\ ~clear => new.loaded = l.loaded /\ new.stale = l.stale
  BY FirstPageIs
<1>2. call \in Call /\ call.kind = "first" /\ call.query = l.query
  BY NewCallIs
<1> HIDE DEF new, call
<1>3. DOMAIN new.calls = {1} /\ new.calls[1] = call
  BY <1>1
<1>4. OneCall(h, new)
  <2>1. IsPageCall(call) /\ CallOK(h, new, call)
    BY <1>1, <1>2 DEF IsPageCall, CallOK, Edges
  <2> QED
    BY <1>3, <2>1 DEF OneCall
<1>5. Stages(new)
  BY <1>1 DEF Stages
<1>6. IsFiniteSet(new.window.pages)
  BY <1>1, EmptyIsWindow DEF IsWindow
<1> QED
  BY <1>1, <1>4, <1>5, <1>6 DEF Control, new

-----------------------------------------------------------------------------
(* The steps of a list that leave its window *)

\* The window stays, nothing is answered, and nothing is forgotten.
Steady(l, new) ==
  /\ new.query = l.query /\ new.window = l.window
  /\ LocalIds(l.overlay) \subseteq LocalIds(new.overlay)
  /\ LocalIds(Settled(l.overlay)) \subseteq LocalIds(Settled(new.overlay))
  /\ \A i \in DOMAIN new.calls :
       new.calls[i].state = "answered" => \E j \in DOMAIN l.calls : l.calls[j] = new.calls[i]
  /\ ListHeard(new) => ListHeard(l) /\ (new.loading # "first" => l.loading # "first")

LEMMA SteadyTwice ==
  ASSUME NEW l, NEW mid, NEW new, Steady(l, mid), Steady(mid, new)
  PROVE  Steady(l, new)
<1>1. ASSUME NEW i \in DOMAIN new.calls, new.calls[i].state = "answered"
      PROVE  \E j \in DOMAIN l.calls : l.calls[j] = new.calls[i]
  <2>1. PICK j \in DOMAIN mid.calls : mid.calls[j] = new.calls[i]
    BY <1>1 DEF Steady
  <2> QED
    BY <1>1, <2>1 DEF Steady
<1> QED
  BY <1>1 DEF Steady

\* A first page is asked for: no call is answered, and the window is to be replaced.
Restarted(l, new) ==
  /\ new.loading = "first"
  /\ \A i \in DOMAIN new.calls : new.calls[i].state = "sent"
  /\ \/ new.window = EmptyWindow
     \/ /\ new.window = l.window /\ new.query = l.query
        /\ LocalIds(l.overlay) \subseteq LocalIds(new.overlay)

\* A change of the flags leaves the calls in control.
LEMMA SameControl ==
  ASSUME NEW h, NEW l, Control(h, l), NEW new \in List, Stages(new),
         new.query = l.query, new.loading = l.loading, new.calls = l.calls, l.stale => new.stale,
         new.window = l.window,
         new.targets \subseteq Messages, h = "messages" => new.targets = {}
  PROVE  Control(h, new)
<1>1. OneCall(h, new)
  BY CallsSame DEF Control
<1> QED
  BY <1>1 DEF Control

LEMMA SameSteady ==
  ASSUME NEW l, NEW new, new.query = l.query, new.window = l.window, new.calls = l.calls,
         LocalIds(l.overlay) \subseteq LocalIds(new.overlay),
         LocalIds(Settled(l.overlay)) \subseteq LocalIds(Settled(new.overlay)),
         ListHeard(new) => ListHeard(l) /\ (new.loading # "first" => l.loading # "first")
  PROVE  Steady(l, new)
BY DEF Steady

LEMMA InvalidateSteady ==
  ASSUME NEW h, NEW l, Control(h, l), NEW targets \in SUBSET Messages,
         h = "messages" => targets = {}
  PROVE  LET new == Invalidate(l, targets) IN
         Control(h, new) /\ Steady(l, new) /\ new.overlay = l.overlay /\ new.dirty
<1> DEFINE new == Invalidate(l, targets)
<1>1. l \in List /\ Stages(l) /\ l.targets \subseteq Messages
  BY DEF Control
<1>2. new \in List
  BY <1>1 DEF Invalidate, List, Messages
<1>3. /\ new.query = l.query /\ new.loading = l.loading /\ new.calls = l.calls
      /\ new.stale = l.stale /\ new.window = l.window /\ new.overlay = l.overlay
      /\ new.targets = l.targets \cup targets /\ new.dirty
      /\ new.loaded = l.loaded /\ new.failed = l.failed
  BY <1>1 DEF Invalidate, List
<1> HIDE DEF new
<1>4. Stages(new)
  BY <1>1, <1>3 DEF Stages
<1>5. new.targets \subseteq Messages /\ (h = "messages" => new.targets = {})
  BY <1>3 DEF Control
<1>6. Control(h, new)
  BY <1>2, <1>3, <1>4, <1>5, SameControl
<1>7. Steady(l, new)
  BY <1>3, SameSteady DEF ListHeard
<1> QED
  BY <1>3, <1>6, <1>7 DEF new

LEMMA ScrolledSteady ==
  ASSUME NEW h, NEW l, Control(h, l), NEW near \in BOOLEAN, NEW unblocked
  PROVE  LET new == Scrolled(l, near, unblocked) IN
         Control(h, new) /\ Steady(l, new) /\ new.overlay = l.overlay
<1> DEFINE new == Scrolled(l, near, unblocked)
           due == l.scheduled \/ (near /\ l.dirty)
           stuck == Stuck(l, near)
<1>1. l \in List /\ Stages(l) /\ l.targets \subseteq Messages /\ (h = "messages" => l.targets = {})
  BY DEF Control
<1>2. due \in BOOLEAN /\ stuck \in BOOLEAN
  BY <1>1 DEF List, Stuck
<1>3. new = [l EXCEPT !.near = near, !.slid = FALSE, !.stuck = stuck, !.blocked = @ \ unblocked,
                      !.scheduled = due]
  BY DEF Scrolled
<1> HIDE DEF new, due, stuck
<1>4. new \in List
  BY <1>1, <1>2, <1>3 DEF List
<1>5. /\ new.query = l.query /\ new.loading = l.loading /\ new.calls = l.calls
      /\ new.stale = l.stale /\ new.window = l.window /\ new.overlay = l.overlay
      /\ new.targets = l.targets /\ new.dirty = l.dirty
      /\ new.loaded = l.loaded /\ new.failed = l.failed
  BY <1>1, <1>3 DEF List
<1>6. Stages(new)
  BY <1>1, <1>5 DEF Stages
<1>7. Control(h, new)
  BY <1>1, <1>4, <1>5, <1>6, SameControl
<1>8. Steady(l, new)
  BY <1>5, SameSteady DEF ListHeard
<1> QED
  BY <1>5, <1>7, <1>8 DEF new

\* A record is added, and one of the same identity replaced.
LEMMA RecordedIs ==
  ASSUME NEW overlay \in SUBSET Entry, NEW id \in Ids, NEW row \in SUBSET Row
  PROVE  LET new == Recorded(overlay, id, row) IN
         /\ new \in SUBSET Entry
         /\ LocalIds(new) = LocalIds(overlay) \cup {id}
         /\ LocalIds(Settled(new)) = LocalIds(Settled(overlay)) \cup {id}
<1> DEFINE e == [id |-> id, row |-> row, covered |-> FALSE]
           new == Recorded(overlay, id, row)
<1>1. e \in Entry /\ e.id = id /\ ~e.covered
  BY DEF Entry
<1>2. new = {x \in overlay : x.id # id} \cup {e}
  BY DEF Recorded
<1> HIDE DEF e, new
<1>3. new \in SUBSET Entry
  BY <1>1, <1>2
<1>4. LocalIds(new) = LocalIds(overlay) \cup {id}
  BY <1>1, <1>2 DEF LocalIds
<1>5. Settled(new) = {x \in Settled(overlay) : x.id # id} \cup {e}
  BY <1>1, <1>2 DEF Settled
<1>6. LocalIds(Settled(new)) = LocalIds(Settled(overlay)) \cup {id}
  BY <1>1, <1>5 DEF LocalIds
<1> QED
  BY <1>3, <1>4, <1>6 DEF new

LEMMA UpsertLocalSteady ==
  ASSUME NEW h, NEW l, Control(h, l), NEW row \in Row
  PROVE  LET new == UpsertLocal(l, row) IN
         /\ Control(h, new) /\ Steady(l, new)
         /\ row.id \in LocalIds(Settled(new.overlay)) /\ new.overlay = Put(l.overlay, row)
<1> DEFINE new == UpsertLocal(l, row)
           stuck == Stuck(l, l.near)
           overlay == Put(l.overlay, row)
<1>1. l \in List /\ Stages(l) /\ l.targets \subseteq Messages /\ (h = "messages" => l.targets = {})
  BY DEF Control
<1>2. stuck \in BOOLEAN
  BY <1>1 DEF List, Stuck
<1>3. /\ overlay \in SUBSET Entry
      /\ LocalIds(overlay) = LocalIds(l.overlay) \cup {row.id}
      /\ LocalIds(Settled(overlay)) = LocalIds(Settled(l.overlay)) \cup {row.id}
  <2>1. row.id \in Ids /\ {row} \in SUBSET Row /\ l.overlay \in SUBSET Entry
    BY <1>1 DEF Row, List
  <2> QED
    BY <2>1, RecordedIs DEF Put
<1>4. new = [l EXCEPT !.overlay = overlay, !.targets = @ \ {row.id}, !.stuck = stuck]
  BY DEF UpsertLocal
<1> HIDE DEF new, stuck, overlay
<1>5. new \in List
  BY <1>1, <1>2, <1>3, <1>4 DEF List
<1>6. /\ new.query = l.query /\ new.loading = l.loading /\ new.calls = l.calls
      /\ new.stale = l.stale /\ new.window = l.window /\ new.overlay = overlay
      /\ new.targets = l.targets \ {row.id} /\ new.dirty = l.dirty
      /\ new.loaded = l.loaded /\ new.failed = l.failed
  BY <1>1, <1>4 DEF List
<1>7. Stages(new) /\ new.targets \subseteq Messages /\ (h = "messages" => new.targets = {})
  BY <1>1, <1>6 DEF Stages
<1>8. Control(h, new)
  BY <1>5, <1>6, <1>7, SameControl
<1>9. Steady(l, new)
  BY <1>3, <1>6, SameSteady DEF ListHeard
<1> QED
  BY <1>3, <1>6, <1>8, <1>9 DEF new, overlay

LEMMA RemoveLocalSteady ==
  ASSUME NEW h, NEW l, Control(h, l), NEW id \in Ids, NEW new \in RemoveLocal(l, id)
  PROVE  /\ Control(h, new) /\ Steady(l, new)
         /\ id \in LocalIds(Settled(new.overlay)) /\ new.overlay = Drop(l.overlay, id)
<1> DEFINE overlay == Drop(l.overlay, id)
<1>1. l \in List /\ Stages(l) /\ l.targets \subseteq Messages /\ (h = "messages" => l.targets = {})
  BY DEF Control
<1>2. /\ overlay \in SUBSET Entry
      /\ LocalIds(overlay) = LocalIds(l.overlay) \cup {id}
      /\ LocalIds(Settled(overlay)) = LocalIds(Settled(l.overlay)) \cup {id}
  <2>1. {} \in SUBSET Row /\ l.overlay \in SUBSET Entry
    BY <1>1 DEF List
  <2> QED
    BY <2>1, RecordedIs DEF Drop
<1>10. PICK near \in {l.near, TRUE} : new = Removed(l, id, near)
  BY RemovedIs
<1> DEFINE slid == l.slid \/ (near /\ ~l.near)
<1>3. new = [l EXCEPT !.overlay = overlay, !.targets = @ \ {id}, !.near = near, !.slid = slid]
  BY <1>10 DEF Removed
<1>11. near \in BOOLEAN /\ slid \in BOOLEAN
  BY <1>1 DEF List
<1> HIDE DEF overlay, slid
<1>4. new \in List
  BY <1>1, <1>2, <1>3, <1>11 DEF List
<1>5. /\ new.query = l.query /\ new.loading = l.loading /\ new.calls = l.calls
      /\ new.stale = l.stale /\ new.window = l.window /\ new.overlay = overlay
      /\ new.targets = l.targets \ {id} /\ new.dirty = l.dirty
      /\ new.loaded = l.loaded /\ new.failed = l.failed
  BY <1>1, <1>3 DEF List
<1>6. Stages(new) /\ new.targets \subseteq Messages /\ (h = "messages" => new.targets = {})
  BY <1>1, <1>5 DEF Stages
<1>7. Control(h, new)
  BY <1>4, <1>5, <1>6, SameControl
<1>8. Steady(l, new)
  BY <1>2, <1>5, SameSteady DEF ListHeard
<1> QED
  BY <1>2, <1>5, <1>7, <1>8 DEF overlay

-----------------------------------------------------------------------------
(* The steps of a list that ask for a page or decide *)

\* No record is added to the overlay.
Weathered(l, new) == new.overlay \in {l.overlay, Covered(l.overlay), Settled(l.overlay), {}}

\* A list that waits for nothing has no call for a page out.
LEMMA NoPageCall ==
  ASSUME NEW h, NEW l, Control(h, l), l.loading = "none"
  PROVE  \A i \in DOMAIN l.calls : ~IsPageCall(l.calls[i])
<1>1. l \in List /\ \A i \in DOMAIN l.calls : CallOK(h, l, l.calls[i])
  BY DEF Control, OneCall
<1>2. l.calls \in Seq(Call)
  BY <1>1 DEF List
<1>3. \A call \in Call : call.kind # "none"
  BY DEF Call, Edges
<1>4. \A i \in DOMAIN l.calls : l.calls[i].kind # "none"
  BY <1>2, <1>3
<1> QED
  BY <1>1, <1>4 DEF CallOK

LEMMA LoadPageSteady ==
  ASSUME NEW h, NEW l, Control(h, l), NEW edge \in Edges, MayLoadPage(l, edge)
  PROVE  LET new == LoadPage(l, edge) IN
         Control(h, new) /\ Steady(l, new) /\ new.overlay = l.overlay
<1> DEFINE new == LoadPage(l, edge)
           cursor == CursorFor(l.window, edge)
           call == NewCall(l, edge, cursor, {})
           calls == Issued(l, edge, cursor, {})
           n == Len(l.calls)
<1>1. /\ l \in List /\ Stages(l) /\ IsFiniteSet(l.window.pages) /\ Anchored(l.query)
      /\ l.targets \subseteq Messages /\ (h = "messages" => l.targets = {})
      /\ OneCall(h, l)
  BY DEF Control
<1>2. cursor \in Nat /\ cursor # 0 /\ HasMore(l.window, edge) /\ l.loading = "none" /\ l.loaded
  BY <1>1 DEF MayLoadPage, List, CursorFor
<1>3. /\ calls \in Seq(Call) /\ DOMAIN calls = 1..(n + 1) /\ DOMAIN l.calls = 1..n /\ n \in Nat
      /\ \A i \in 1..n : calls[i] = l.calls[i]
      /\ calls[n + 1] = call
      /\ call.kind = edge /\ call.cursor = cursor /\ call.query = l.query /\ call.state = "sent"
  <2> HIDE DEF cursor
  <2> QED
    BY <1>1, <1>2, IssuedIs, NewCallIs DEF Edges
<1>4. new = [l EXCEPT !.loading = edge, !.calls = calls]
  BY DEF LoadPage
<1> HIDE DEF new, calls, call
<1>5. new \in List
  BY <1>1, <1>3, <1>4 DEF List
<1>6. /\ new.query = l.query /\ new.loading = edge /\ new.calls = calls
      /\ new.stale = l.stale /\ new.window = l.window /\ new.overlay = l.overlay
      /\ new.targets = l.targets /\ new.dirty = l.dirty
      /\ new.loaded = l.loaded /\ new.failed = l.failed
  BY <1>1, <1>4 DEF List
<1>7. edge # "first" /\ edge # "none" /\ edge # "targets"
  BY DEF Edges
<1>8. Stages(new)
  BY <1>1, <1>2, <1>6, <1>7 DEF Stages
<1>9. \A i \in 1..n : ~IsPageCall(l.calls[i])
  BY <1>2, <1>3, NoPageCall
<1>10. \A i \in DOMAIN calls : i = n + 1 \/ i \in 1..n
  BY <1>3
<1>11. ASSUME NEW i \in 1..n
       PROVE  CallOK(h, new, calls[i]) /\ ~IsPageCall(calls[i])
  <2>1. CallOK(h, l, l.calls[i])
    BY <1>1, <1>3 DEF OneCall
  <2> QED
    BY <1>3, <1>6, <1>7, <1>9, <2>1 DEF CallOK, IsPageCall, Edges
<1>12. CallOK(h, new, calls[n + 1]) /\ IsPageCall(calls[n + 1])
  BY <1>2, <1>3, <1>6, <1>7 DEF CallOK, IsPageCall, cursor
<1>13. OneCall(h, new)
  BY <1>3, <1>6, <1>10, <1>11, <1>12 DEF OneCall
<1>14. Control(h, new)
  BY <1>1, <1>5, <1>6, <1>8, <1>13 DEF Control
<1>15. ASSUME NEW i \in DOMAIN new.calls, new.calls[i].state = "answered"
       PROVE  \E j \in DOMAIN l.calls : l.calls[j] = new.calls[i]
  BY <1>3, <1>6, <1>10, <1>15
<1>16. Steady(l, new)
  BY <1>2, <1>6, <1>7, <1>15 DEF Steady, ListHeard
<1> QED
  BY <1>6, <1>14, <1>16 DEF new

\* Nothing is asked for by identity in the list of messages.
LEMMA RefreshIdentitiesSteady ==
  ASSUME NEW h, NEW l, Control(h, l), l.stale, l.loading = "none"
  PROVE  LET new == RefreshIdentities(l) IN
         Control(h, new) /\ Steady(l, new) /\ new.overlay = l.overlay
<1> DEFINE new == RefreshIdentities(l)
           targets == l.targets \cap IdsOf(RowsIn(l.window))
           call == NewCall(l, "targets", 0, targets)
           issued == Issued(l, "targets", 0, targets)
           calls == IF targets = {} THEN l.calls ELSE issued
           n == Len(l.calls)
<1>1. /\ l \in List /\ Stages(l) /\ IsFiniteSet(l.window.pages) /\ Anchored(l.query)
      /\ l.targets \subseteq Messages /\ (h = "messages" => l.targets = {})
      /\ OneCall(h, l)
  BY DEF Control
<1>2. targets \in SUBSET Ids /\ (targets # {} => h # "messages")
  BY <1>1 DEF Messages
<1> HIDE DEF targets
<1>3. /\ issued \in Seq(Call) /\ DOMAIN issued = 1..(n + 1) /\ DOMAIN l.calls = 1..n /\ n \in Nat
      /\ \A i \in 1..n : issued[i] = l.calls[i]
      /\ issued[n + 1] = call
      /\ call.kind = "targets" /\ call.query = l.query /\ call.state = "sent"
  BY <1>1, <1>2, IssuedIs, NewCallIs
<1>4. new = [l EXCEPT !.targets = {}, !.calls = calls]
  BY DEF RefreshIdentities, targets
<1> HIDE DEF new, issued, call
<1>5. calls \in Seq(Call)
  BY <1>1, <1>3 DEF List
<1>6. new \in List
  <2> HIDE DEF calls
  <2> QED
    BY <1>1, <1>4, <1>5 DEF List
<1>7. /\ new.query = l.query /\ new.loading = l.loading /\ new.calls = calls
      /\ new.stale = l.stale /\ new.window = l.window /\ new.overlay = l.overlay
      /\ new.targets = {} /\ new.dirty = l.dirty
      /\ new.loaded = l.loaded /\ new.failed = l.failed
  <2> HIDE DEF calls
  <2> QED
    BY <1>1, <1>4 DEF List
<1>8. Stages(new)
  BY <1>1, <1>7 DEF Stages
<1>9. \A i \in 1..n : ~IsPageCall(l.calls[i])
  BY <1>3, NoPageCall
<1>10. ASSUME NEW i \in DOMAIN calls
       PROVE  \/ i \in 1..n /\ calls[i] = l.calls[i]
              \/ calls[i] = call /\ targets # {}
  <2>1. CASE targets = {}
    BY <1>3, <2>1
  <2>2. CASE targets # {}
    BY <1>3, <2>2
  <2> QED
    BY <2>1, <2>2
<1>11. ASSUME NEW i \in DOMAIN calls
       PROVE  CallOK(h, new, calls[i]) /\ ~IsPageCall(calls[i])
  <2>1. CASE i \in 1..n /\ calls[i] = l.calls[i]
    <3>1. CallOK(h, l, l.calls[i])
      BY <1>1, <1>3, <2>1 DEF OneCall
    <3> QED
      BY <1>7, <1>9, <2>1, <3>1 DEF CallOK
  <2>2. CASE calls[i] = call /\ targets # {}
    BY <1>2, <1>3, <1>7, <2>2 DEF CallOK, IsPageCall, Edges
  <2> QED
    BY <1>10, <2>1, <2>2
<1>12. OneCall(h, new)
  BY <1>7, <1>11 DEF OneCall
<1>13. Control(h, new)
  BY <1>1, <1>6, <1>7, <1>8, <1>12 DEF Control
<1>14. ASSUME NEW i \in DOMAIN new.calls, new.calls[i].state = "answered"
       PROVE  \E j \in DOMAIN l.calls : l.calls[j] = new.calls[i]
  BY <1>3, <1>7, <1>10, <1>14
<1>15. Steady(l, new)
  BY <1>7, <1>14 DEF Steady, ListHeard
<1> QED
  BY <1>7, <1>13, <1>15 DEF new

LEMMA RestartedByFirstPage ==
  ASSUME NEW h, NEW l, Control(h, l), NEW clear \in BOOLEAN, NEW pin \in BOOLEAN
  PROVE  LET new == RunFirstPage(l, clear, pin) IN
         Control(h, new) /\ Restarted(l, new) /\ Weathered(l, new)
<1> DEFINE new == RunFirstPage(l, clear, pin)
           call == NewCall(l, "first", 0, {})
<1>1. l \in List /\ Stages(l) /\ IsFiniteSet(l.window.pages) /\ Anchored(l.query)
  BY DEF Control
<1>2. Control(h, new)
  BY <1>1, FirstPageControl
<1>3. /\ new.query = l.query /\ new.loading = "first" /\ new.calls = <<call>>
      /\ new.window = (IF clear THEN EmptyWindow ELSE l.window)
      /\ new.overlay = (IF clear THEN {} ELSE Covered(l.overlay))
  BY <1>1, FirstPageIs
<1>4. call.state = "sent"
  BY <1>1, NewCallIs
<1>5. LocalIds(Covered(l.overlay)) = LocalIds(l.overlay)
  BY <1>1, CoveredIs DEF List
<1> HIDE DEF new, call
<1>6. \A i \in DOMAIN new.calls : new.calls[i].state = "sent"
  BY <1>3, <1>4
<1>7. Restarted(l, new)
  BY <1>3, <1>5, <1>6 DEF Restarted
<1>8. Weathered(l, new)
  BY <1>3 DEF Weathered
<1> QED
  BY <1>2, <1>7, <1>8 DEF new

LEMMA ResetRestarts ==
  ASSUME NEW h, NEW l \in List, IsFiniteSet(l.window.pages), NEW query \in Queries, Anchored(query)
  PROVE  LET new == Reset(l, query) IN
         /\ Control(h, new) /\ Restarted(l, new)
         /\ new.query = query /\ new.overlay = {} /\ ~new.stale
<1> DEFINE turned == [l EXCEPT !.query = query]
           new == RunFirstPage(turned, TRUE, TRUE)
           call == NewCall(turned, "first", 0, {})
<1>1. turned \in List
  BY DEF List
<1>2. turned.query = query /\ turned.window = l.window
  BY DEF List
<1> HIDE DEF turned
<1>3. Control(h, new)
  BY <1>1, <1>2, FirstPageControl
<1>4. /\ new.query = query /\ new.loading = "first" /\ new.calls = <<call>>
      /\ new.window = EmptyWindow /\ new.overlay = {} /\ ~new.stale
  BY <1>1, <1>2, FirstPageIs
<1>5. call.state = "sent"
  BY <1>1, NewCallIs
<1>6. new = Reset(l, query)
  BY DEF Reset, turned
<1> HIDE DEF new, call
<1>7. \A i \in DOMAIN new.calls : new.calls[i].state = "sent"
  BY <1>4, <1>5
<1>8. Restarted(l, new)
  BY <1>4, <1>7 DEF Restarted
<1> QED
  BY <1>3, <1>4, <1>6, <1>8

LEMMA RefreshMoves ==
  ASSUME NEW h, NEW l, Control(h, l), NEW pin \in BOOLEAN
  PROVE  LET new == Refresh(l, pin) IN
         Control(h, new) /\ (Steady(l, new) \/ Restarted(l, new)) /\ Weathered(l, new)
<1> DEFINE new == Refresh(l, pin)
           pinned == l.pin \/ pin
<1>1. CASE l.loading = "first"
  <2>1. /\ l \in List /\ Stages(l) /\ l.targets \subseteq Messages
        /\ (h = "messages" => l.targets = {})
    BY DEF Control
  <2>2. pinned \in BOOLEAN
    BY <2>1 DEF List
  <2>3. new = [l EXCEPT !.pin = pinned]
    BY <1>1 DEF Refresh
  <2> HIDE DEF new, pinned
  <2>4. new \in List
    BY <2>1, <2>2, <2>3 DEF List
  <2>5. /\ new.query = l.query /\ new.loading = l.loading /\ new.calls = l.calls
        /\ new.stale = l.stale /\ new.window = l.window /\ new.overlay = l.overlay
        /\ new.targets = l.targets /\ new.dirty = l.dirty
        /\ new.loaded = l.loaded /\ new.failed = l.failed
    BY <2>1, <2>3 DEF List
  <2>6. Stages(new)
    BY <2>1, <2>5 DEF Stages
  <2>7. Control(h, new)
    BY <2>1, <2>4, <2>5, <2>6, SameControl
  <2>8. Steady(l, new)
    BY <2>5, SameSteady DEF ListHeard
  <2> QED
    BY <2>5, <2>7, <2>8 DEF new, Weathered
<1>2. CASE l.loading # "first"
  BY <1>2, RestartedByFirstPage DEF Refresh
<1> QED
  BY <1>1, <1>2

LEMMA CatchUpMoves ==
  ASSUME NEW h, NEW l, Control(h, l)
  PROVE  LET new == CatchUp(l) IN
         Control(h, new) /\ (Steady(l, new) \/ Restarted(l, new)) /\ Weathered(l, new)
<1>1. CASE l.loaded
  BY <1>1, RefreshMoves DEF CatchUp
<1>2. CASE ~l.loaded
  <2>1. l \in List /\ IsFiniteSet(l.window.pages) /\ l.query \in Queries /\ Anchored(l.query)
    BY DEF Control, List
  <2> QED
    BY <1>2, <2>1, ResetRestarts DEF CatchUp, Weathered
<1> QED
  BY <1>1, <1>2

LEMMA DecideMoves ==
  ASSUME NEW h, NEW l, Control(h, l), NEW seen \in BOOLEAN
  PROVE  LET new == Decide(l, seen) IN
         Control(h, new) /\ (Steady(l, new) \/ Restarted(l, new)) /\ Weathered(l, new)
<1> DEFINE due == [l EXCEPT !.scheduled = FALSE]
           shown == [due EXCEPT !.stale = TRUE]
           new == Decide(l, seen)
<1>1. /\ l \in List /\ Stages(l) /\ l.targets \subseteq Messages
      /\ (h = "messages" => l.targets = {})
  BY DEF Control
<1>2. /\ due \in List /\ due.query = l.query /\ due.loading = l.loading /\ due.calls = l.calls
      /\ due.stale = l.stale /\ due.window = l.window /\ due.overlay = l.overlay
      /\ due.targets = l.targets /\ due.dirty = l.dirty
      /\ due.loaded = l.loaded /\ due.failed = l.failed
  BY <1>1 DEF List
<1> HIDE DEF due
<1>3. /\ shown \in List /\ shown.query = l.query /\ shown.loading = l.loading
      /\ shown.calls = l.calls /\ shown.stale /\ shown.window = l.window
      /\ shown.overlay = l.overlay
      /\ shown.targets = l.targets /\ shown.dirty = l.dirty
      /\ shown.loaded = l.loaded /\ shown.failed = l.failed
  BY <1>1, <1>2 DEF List
<1> HIDE DEF shown
<1>4. Control(h, due) /\ Steady(l, due)
  <2>1. Stages(due)
    BY <1>1, <1>2 DEF Stages
  <2>2. Control(h, due)
    BY <1>1, <1>2, <2>1, SameControl
  <2> QED
    BY <1>2, <2>2, SameSteady DEF ListHeard
<1>5. CASE ~l.dirty \/ l.loading # "none"
  <2>1. new = due
    BY <1>5 DEF Decide, due
  <2> QED
    BY <1>2, <1>4, <2>1 DEF Weathered
<1>6. CASE l.dirty /\ l.loading = "none"
  <2>1. l.loaded
    BY <1>1, <1>6 DEF Stages
  <2>2. Control(h, shown) /\ Steady(l, shown)
    <3>1. Stages(shown)
      BY <1>1, <1>3, <2>1 DEF Stages
    <3>2. Control(h, shown)
      BY <1>1, <1>3, <3>1, SameControl
    <3> QED
      BY <1>3, <1>6, <3>2, SameSteady DEF ListHeard
  <2>3. CASE ~seen
    <3>1. new = shown
      BY <1>6, <2>3 DEF Decide, due, shown
    <3> QED
      BY <1>3, <2>2, <3>1 DEF Weathered
  <2>4. CASE seen /\ l.near
    <3>1. new = Refresh(due, FALSE)
      BY <1>6, <2>4 DEF Decide, due
    <3>2. Control(h, new) /\ (Steady(due, new) \/ Restarted(due, new)) /\ Weathered(due, new)
      BY <1>4, <3>1, RefreshMoves
    <3> HIDE DEF new
    <3>3. Restarted(due, new) => Restarted(l, new)
      BY <1>2 DEF Restarted
    <3> QED
      BY <1>2, <1>4, <3>2, <3>3, SteadyTwice DEF Weathered, new
  <2>5. CASE seen /\ ~l.near
    <3>1. new = RefreshIdentities(shown)
      BY <1>6, <2>5 DEF Decide, due, shown
    <3>2. Control(h, new) /\ Steady(shown, new) /\ new.overlay = shown.overlay
      BY <1>3, <1>6, <2>2, <3>1, RefreshIdentitiesSteady
    <3> HIDE DEF new
    <3> QED
      BY <1>3, <2>2, <3>2, SteadyTwice DEF Weathered, new
  <2> QED
    BY <2>3, <2>4, <2>5
<1> QED
  BY <1>5, <1>6

-----------------------------------------------------------------------------
(* The calls that are answered and land *)

\* A call gets its answer, or fails.
Given(l, i, state, answer) ==
  [l EXCEPT !.calls[i].state = state, !.calls[i].answer = answer]

Answered(h, l, i, state, answer, new) ==
  /\ Control(h, new)
  /\ new.query = l.query /\ new.window = l.window /\ new.overlay = l.overlay
  /\ new.dirty = l.dirty /\ new.failed = l.failed /\ new.stale = l.stale
  /\ new.loading = l.loading
  /\ DOMAIN new.calls = DOMAIN l.calls
  /\ new.calls[i] = [l.calls[i] EXCEPT !.state = state, !.answer = answer]
  /\ \A j \in DOMAIN l.calls : j # i => new.calls[j] = l.calls[j]

LEMMA GivenIs ==
  ASSUME NEW h, NEW l, Control(h, l), NEW i \in DOMAIN l.calls,
         NEW state \in {"answered", "failed"}, NEW answer \in Answers
  PROVE  Answered(h, l, i, state, answer, Given(l, i, state, answer))
<1> DEFINE new == Given(l, i, state, answer)
           call == [l.calls[i] EXCEPT !.state = state, !.answer = answer]
           calls == [l.calls EXCEPT ![i] = call]
<1>1. l \in List /\ OneCall(h, l)
  BY DEF Control
<1>2. l.calls \in Seq(Call)
  BY <1>1 DEF List
<1>3. l.calls[i] \in Call
  BY <1>2
<1>4. call \in Call /\ call.kind = l.calls[i].kind /\ call.query = l.calls[i].query
      /\ call.cursor = l.calls[i].cursor
  BY <1>3 DEF Call
<1>5. new.calls = [[l.calls EXCEPT ![i].state = state] EXCEPT ![i].answer = answer]
  BY <1>1 DEF List, Given
<1>6. new.calls = calls
  BY <1>2, <1>5
<1>7. new = [l EXCEPT !.calls = calls]
  <2>1. DOMAIN new = DOMAIN l /\ \A f \in DOMAIN l \ {"calls"} : new[f] = l[f]
    BY <1>1 DEF List, Given
  <2> HIDE DEF calls
  <2> QED
    BY <1>1, <1>6, <2>1 DEF List, Given
<1> HIDE DEF call, new
<1>8. calls \in Seq(Call) /\ DOMAIN calls = DOMAIN l.calls
      /\ calls[i] = call /\ \A j \in DOMAIN l.calls : j # i => calls[j] = l.calls[j]
  BY <1>2, <1>4
<1> HIDE DEF calls
<1>9. new \in List
  BY <1>1, <1>7, <1>8 DEF List
<1>10. /\ new.query = l.query /\ new.window = l.window /\ new.overlay = l.overlay
       /\ new.dirty = l.dirty /\ new.failed = l.failed /\ new.stale = l.stale
       /\ new.loading = l.loading /\ new.loaded = l.loaded /\ new.targets = l.targets
  BY <1>1, <1>7 DEF List
<1>11. OneCall(h, new)
  <2>1. ASSUME NEW j \in DOMAIN l.calls
        PROVE  /\ CallOK(h, new, calls[j])
               /\ IsPageCall(calls[j]) <=> IsPageCall(l.calls[j])
    <3>1. CallOK(h, l, l.calls[j])
      BY <1>1 DEF OneCall
    <3>2. calls[j].kind = l.calls[j].kind /\ calls[j].query = l.calls[j].query
          /\ calls[j].cursor = l.calls[j].cursor
      BY <1>4, <1>8
    <3> QED
      BY <1>10, <3>1, <3>2 DEF CallOK, IsPageCall
  <2> QED
    BY <1>1, <1>6, <1>8, <1>10, <2>1 DEF OneCall
<1>12. Stages(new)
  BY <1>10 DEF Stages, Control
<1>13. Control(h, new)
  BY <1>9, <1>10, <1>11, <1>12 DEF Control
<1> QED
  BY <1>6, <1>8, <1>10, <1>13 DEF new, call, Answered

\* The list without its oldest call.
Popped(l) == [l EXCEPT !.calls = Tail(@)]

\* What is known of the oldest call of a list and of what the list is without it.
PoppedWell(h, l, left, call) ==
  /\ left \in List /\ \A f \in Fields \ {"calls"} : left[f] = l[f]
  /\ call \in Call /\ 1 \in DOMAIN l.calls /\ call = l.calls[1] /\ CallOK(h, l, call)
  /\ \A i \in DOMAIN left.calls : /\ CallOK(h, l, left.calls[i])
                                  /\ \E j \in DOMAIN l.calls : l.calls[j] = left.calls[i]
  /\ IsPageCall(call) => \A i \in DOMAIN left.calls : ~IsPageCall(left.calls[i])
  /\ ~IsPageCall(call) => Control(h, left)

LEMMA PoppedIs ==
  ASSUME NEW h, NEW l, Control(h, l), l.calls # <<>>
  PROVE  PoppedWell(h, l, Popped(l), Head(l.calls))
<1> DEFINE left == Popped(l)
           call == Head(l.calls)
           calls == Tail(l.calls)
<1>1. /\ l \in List /\ OneCall(h, l) /\ Stages(l) /\ IsFiniteSet(l.window.pages)
      /\ Anchored(l.query) /\ l.targets \subseteq Messages /\ (h = "messages" => l.targets = {})
  BY DEF Control
<1>2. l.calls \in Seq(Call)
  BY <1>1 DEF List
<1>3. /\ calls \in Seq(Call) /\ call \in Call /\ call = l.calls[1] /\ 1 \in DOMAIN l.calls
      /\ \A i \in DOMAIN calls : i + 1 \in DOMAIN l.calls /\ calls[i] = l.calls[i + 1] /\ i + 1 # 1
      /\ \A j \in DOMAIN l.calls : j # 1 => \E i \in DOMAIN calls : calls[i] = l.calls[j]
      /\ \A i \in DOMAIN calls : i \in Nat
  <2>1. /\ calls \in Seq(Call) /\ call \in Call /\ call = l.calls[1]
        /\ Len(calls) = Len(l.calls) - 1 /\ Len(l.calls) \in Nat /\ Len(l.calls) > 0
        /\ DOMAIN calls = 1..Len(calls) /\ DOMAIN l.calls = 1..Len(l.calls)
        /\ \A i \in 1..Len(calls) : calls[i] = l.calls[i + 1]
    BY <1>2
  <2> HIDE DEF calls, call
  <2>2. \A i \in DOMAIN calls : i + 1 \in DOMAIN l.calls /\ i + 1 # 1 /\ i \in Nat
    BY <2>1
  <2>3. ASSUME NEW j \in DOMAIN l.calls, j # 1
        PROVE  \E i \in DOMAIN calls : calls[i] = l.calls[j]
    <3>1. j - 1 \in 1..Len(calls) /\ (j - 1) + 1 = j
      BY <2>1, <2>3
    <3> QED
      BY <2>1, <3>1
  <2> QED
    BY <2>1, <2>2, <2>3
<1>4. left = [l EXCEPT !.calls = calls]
  BY DEF Popped
<1> HIDE DEF left, calls, call
<1>5. left \in List
  BY <1>1, <1>3, <1>4 DEF List
<1>6. left.calls = calls /\ \A f \in Fields \ {"calls"} : left[f] = l[f]
  BY <1>1, <1>4 DEF List, Fields
<1>7. CallOK(h, l, call) /\ \A i \in DOMAIN calls : CallOK(h, l, calls[i])
  BY <1>1, <1>3 DEF OneCall
<1>8. ASSUME IsPageCall(call), NEW i \in DOMAIN calls
      PROVE  ~IsPageCall(calls[i])
  BY <1>1, <1>3, <1>8 DEF OneCall
<1>9. ASSUME ~IsPageCall(call)
      PROVE  Control(h, left)
  <2>1. /\ left.query = l.query /\ left.window = l.window /\ left.loading = l.loading
        /\ left.stale = l.stale /\ left.loaded = l.loaded /\ left.failed = l.failed
        /\ left.targets = l.targets
    BY <1>6 DEF Fields
  <2>2. \A i \in DOMAIN calls : CallOK(h, left, calls[i])
    BY <1>7, <2>1 DEF CallOK
  <2>3. \A i, j \in DOMAIN calls : IsPageCall(calls[i]) /\ IsPageCall(calls[j]) => i = j
    <3>1. SUFFICES ASSUME NEW i \in DOMAIN calls, NEW j \in DOMAIN calls,
                          IsPageCall(calls[i]), IsPageCall(calls[j])
                   PROVE  i = j
      OBVIOUS
    <3>2. i + 1 = j + 1
      BY <1>1, <1>3, <3>1 DEF OneCall
    <3> QED
      BY <1>3, <3>2
  <2>4. left.loading # "none" => \E i \in DOMAIN calls : IsPageCall(calls[i])
    <3>1. SUFFICES ASSUME left.loading # "none"
                   PROVE  \E i \in DOMAIN calls : IsPageCall(calls[i])
      OBVIOUS
    <3>2. PICK j \in DOMAIN l.calls : IsPageCall(l.calls[j])
      BY <1>1, <2>1, <3>1 DEF OneCall
    <3>3. j # 1
      BY <1>3, <1>9, <3>2
    <3> QED
      BY <1>3, <3>2, <3>3
  <2>5. OneCall(h, left)
    BY <1>6, <2>2, <2>3, <2>4 DEF OneCall
  <2>6. Stages(left)
    BY <1>1, <2>1 DEF Stages
  <2> QED
    BY <1>1, <1>5, <2>1, <2>5, <2>6 DEF Control
<1>10. \A i \in DOMAIN calls : \E j \in DOMAIN l.calls : l.calls[j] = calls[i]
  BY <1>3
<1>11. PoppedWell(h, l, left, call)
  BY <1>3, <1>5, <1>6, <1>7, <1>8, <1>9, <1>10 DEF PoppedWell
<1> QED
  BY <1>11 DEF left, call

\* A list that waits for nothing is in control of the calls by identity.
LEMMA RestedControl ==
  ASSUME NEW h, NEW l, Control(h, l), NEW new \in List,
         new.loading = "none", new.query = l.query, new.targets = l.targets, Stages(new),
         IsFiniteSet(new.window.pages),
         l.loading # "first" => new.stale = l.stale,
         \A i \in DOMAIN new.calls : CallOK(h, l, new.calls[i]) /\ ~IsPageCall(new.calls[i])
  PROVE  Control(h, new)
<1>1. \A i \in DOMAIN new.calls : CallOK(h, new, new.calls[i])
  BY DEF CallOK, IsPageCall, Edges
<1>2. OneCall(h, new)
  BY <1>1 DEF OneCall
<1> QED
  BY <1>2 DEF Control

LEMMA SettledIs ==
  ASSUME NEW l \in List, NEW failed \in BOOLEAN, NEW due \in BOOLEAN, NEW stale \in BOOLEAN
  PROVE  [l EXCEPT !.loading = "none", !.loaded = TRUE, !.failed = failed,
                   !.stuck = FALSE, !.pin = FALSE, !.scheduled = due, !.stale = stale] \in List
BY DEF List

LEMMA SettledSteps ==
  ASSUME NEW l \in List, NEW failed \in BOOLEAN
  PROVE  LET new == SettleFirstPage(l, failed) IN
         /\ new \in List
         /\ new.query = l.query /\ new.window = l.window /\ new.overlay = l.overlay
         /\ new.calls = l.calls /\ new.loading = "none" /\ new.loaded /\ new.failed = failed
         /\ new.dirty = l.dirty /\ new.stale = (l.stale /\ l.dirty) /\ new.targets = l.targets
<1> DEFINE due == l.scheduled \/ l.dirty
           stale == l.stale /\ l.dirty
           new == SettleFirstPage(l, failed)
<1>1. due \in BOOLEAN /\ stale \in BOOLEAN
  BY DEF List
<1>2. new = [l EXCEPT !.loading = "none", !.loaded = TRUE, !.failed = failed,
                      !.stuck = FALSE, !.pin = FALSE, !.scheduled = due, !.stale = stale]
  BY DEF SettleFirstPage
<1> HIDE DEF due, stale, new
<1>3. new \in List
  BY <1>1, <1>2, SettledIs
<1>4. /\ new.query = l.query /\ new.window = l.window /\ new.overlay = l.overlay
      /\ new.calls = l.calls /\ new.loading = "none" /\ new.loaded /\ new.failed = failed
      /\ new.dirty = l.dirty /\ new.stale = stale /\ new.targets = l.targets
  BY <1>2 DEF List
<1> QED
  BY <1>3, <1>4 DEF new, stale

\* A call that fails leaves what is shown.
LEMMA FailsSteady ==
  ASSUME NEW h, NEW l, Control(h, l), l.calls # <<>>
  PROVE  LET call == Head(l.calls)
             new == Fails(Popped(l), call.kind)
         IN
         /\ Control(h, new) /\ Steady(l, new) /\ new.overlay = l.overlay
         /\ l.stale /\ ~new.stale => new.failed
<1> DEFINE left == Popped(l)
           call == Head(l.calls)
           new == Fails(left, call.kind)
<1>1. /\ left \in List /\ \A f \in Fields \ {"calls"} : left[f] = l[f]
      /\ call \in Call /\ CallOK(h, l, call)
      /\ \A i \in DOMAIN left.calls : /\ CallOK(h, l, left.calls[i])
                                      /\ \E j \in DOMAIN l.calls : l.calls[j] = left.calls[i]
      /\ IsPageCall(call) => \A i \in DOMAIN left.calls : ~IsPageCall(left.calls[i])
      /\ ~IsPageCall(call) => Control(h, left)
  <2>1. PoppedWell(h, l, left, call)
    BY PoppedIs
  <2> HIDE DEF left, call
  <2> QED
    BY <2>1 DEF PoppedWell
<1>2. /\ left.query = l.query /\ left.window = l.window /\ left.loading = l.loading
      /\ left.stale = l.stale /\ left.loaded = l.loaded /\ left.failed = l.failed
      /\ left.targets = l.targets /\ left.overlay = l.overlay /\ left.dirty = l.dirty
  BY <1>1 DEF Fields
<1>3. /\ l \in List /\ Stages(l) /\ IsFiniteSet(l.window.pages)
  BY DEF Control
<1> HIDE DEF left, call
<1>4. CASE call.kind = "first"
  <2> DEFINE settled == SettleFirstPage(left, TRUE)
  <2>1. /\ settled \in List
        /\ settled.query = l.query /\ settled.window = l.window /\ settled.overlay = l.overlay
        /\ settled.calls = left.calls /\ settled.loading = "none" /\ settled.loaded
        /\ settled.failed /\ settled.targets = l.targets
    BY <1>1, <1>2, SettledSteps
  <2> HIDE DEF settled
  <2>2. IsPageCall(call) /\ l.loading = "first"
    BY <1>1, <1>4 DEF CallOK, IsPageCall
  <2>3. Stages(settled)
    BY <2>1 DEF Stages
  <2>4. Control(h, settled)
    BY <1>1, <1>3, <2>1, <2>2, <2>3, RestedControl
  <2>5. Steady(l, settled)
    BY <1>1, <2>1 DEF Steady, ListHeard
  <2>6. new = settled
    <3>1. call.kind # "targets" /\ call.kind \notin Edges
      BY <1>4 DEF Edges
    <3> QED
      BY <1>4, <3>1, Zenon DEF Fails, settled
  <2> QED
    BY <2>1, <2>4, <2>5, <2>6 DEF new, left, call
<1>5. CASE call.kind = "targets"
  <2>1. new = left
    <3>1. call.kind # "first" /\ call.kind \notin Edges
      BY <1>5 DEF Edges
    <3> QED
      BY <1>5, <3>1, Zenon DEF Fails
  <2>2. ~IsPageCall(call)
    BY <1>5 DEF IsPageCall
  <2>3. Steady(l, left)
    BY <1>1, <1>2 DEF Steady, ListHeard
  <2> QED
    BY <1>1, <1>2, <2>1, <2>2, <2>3 DEF left, call
<1>6. CASE call.kind \in Edges
  <2> DEFINE failed == PageFails(left, call.kind)
             due == left.scheduled \/ left.dirty
  <2>1. due \in BOOLEAN
    BY <1>1 DEF List
  <2>2. failed = [left EXCEPT !.loading = "none", !.blocked = @ \cup {call.kind}, !.scheduled = due]
    BY DEF PageFails
  <2> HIDE DEF failed, due
  <2>3. failed \in List
    BY <1>1, <1>6, <2>1, <2>2 DEF List
  <2>4. /\ failed.query = l.query /\ failed.window = l.window /\ failed.overlay = l.overlay
        /\ failed.calls = left.calls /\ failed.loading = "none" /\ failed.loaded = l.loaded
        /\ failed.failed = l.failed /\ failed.targets = l.targets /\ failed.dirty = l.dirty
        /\ failed.stale = l.stale
    BY <1>1, <1>2, <2>2 DEF List
  <2>5. IsPageCall(call) /\ l.loading = call.kind /\ l.loading # "first" /\ l.loading # "none"
    BY <1>1, <1>6 DEF CallOK, IsPageCall, Edges
  <2>6. Stages(failed)
    BY <1>3, <2>4, <2>5 DEF Stages
  <2>7. Control(h, failed)
    BY <1>1, <1>3, <2>3, <2>4, <2>5, <2>6, RestedControl
  <2>8. Steady(l, failed)
    BY <1>1, <2>4, <2>5 DEF Steady, ListHeard
  <2>9. call.kind # "first" /\ call.kind # "targets"
    BY <1>6 DEF Edges
  <2>10. new = failed
    BY <1>6, <2>9 DEF Fails, failed
  <2> QED
    BY <2>4, <2>7, <2>8, <2>10 DEF new, left, call
<1>7. call.kind \in {"first", "targets"} \cup Edges
  BY <1>1 DEF Call
<1> QED
  BY <1>4, <1>5, <1>6, <1>7

\* A first page replaces the window and settles what it covers; nothing else is out.
LEMMA FirstPageLanded ==
  ASSUME NEW h, NEW l, Control(h, l), l.calls # <<>>, Head(l.calls).kind = "first",
         NEW answer \in Answers, IsFiniteSet(answer.rows),
         NEW new \in FirstPageLands(Popped(l), answer)
  PROVE  /\ Control(h, new) /\ l.loading = "first" /\ new.loading = "none"
         /\ new.query = l.query
         /\ new.window = FirstPage(answer) /\ new.overlay = Settled(l.overlay)
         /\ new.loaded /\ ~new.failed
         /\ new.stale = (l.stale /\ l.dirty)
         /\ \A i \in DOMAIN new.calls : ~IsPageCall(new.calls[i])
                                        /\ \E j \in DOMAIN l.calls : l.calls[j] = new.calls[i]
         /\ ListHeard(new) => ListHeard(l)
<1> DEFINE left == Popped(l)
           call == Head(l.calls)
           settled == SettleFirstPage(left, FALSE)
<1>1. /\ left \in List /\ \A f \in Fields \ {"calls"} : left[f] = l[f]
      /\ CallOK(h, l, call)
      /\ \A i \in DOMAIN left.calls : /\ CallOK(h, l, left.calls[i])
                                      /\ \E j \in DOMAIN l.calls : l.calls[j] = left.calls[i]
      /\ IsPageCall(call) => \A i \in DOMAIN left.calls : ~IsPageCall(left.calls[i])
  <2>1. PoppedWell(h, l, left, call)
    BY PoppedIs
  <2> HIDE DEF left, call
  <2> QED
    BY <2>1 DEF PoppedWell
<1>2. /\ left.query = l.query /\ left.window = l.window /\ left.stale = l.stale
      /\ left.targets = l.targets /\ left.overlay = l.overlay /\ left.dirty = l.dirty
  BY <1>1 DEF Fields
<1>3. IsPageCall(call) /\ l.loading = "first"
  BY <1>1 DEF CallOK, IsPageCall
<1> HIDE DEF left, call
<1>4. /\ settled \in List
      /\ settled.query = l.query /\ settled.overlay = l.overlay
      /\ settled.calls = left.calls /\ settled.loading = "none" /\ settled.loaded
      /\ ~settled.failed /\ settled.dirty = l.dirty /\ settled.stale = (l.stale /\ l.dirty)
      /\ settled.targets = l.targets
  BY <1>1, <1>2, SettledSteps
<1>5. PICK near \in BOOLEAN :
        new = [settled EXCEPT !.window = FirstPage(answer), !.overlay = Settled(@), !.near = near, !.slid = FALSE]
  BY DEF FirstPageLands, left
<1> HIDE DEF settled
<1>6. FirstPage(answer) \in Windows /\ IsFiniteSet(FirstPage(answer).pages)
  BY FirstPageIsWindow DEF IsWindow
<1>7. Settled(l.overlay) \in SUBSET Entry
  BY <1>4 DEF List, Settled
<1>8. new \in List
  <2>1. [settled EXCEPT !.window = FirstPage(answer)] \in List
    BY <1>4, <1>6 DEF List, Windows, Pages
  <2>2. [settled EXCEPT !.window = FirstPage(answer), !.overlay = Settled(@)] \in List
    BY <1>4, <1>7, <2>1 DEF List
  <2> QED
    BY <1>5, <2>2 DEF List
<1>9. /\ new.query = l.query /\ new.window = FirstPage(answer) /\ new.overlay = Settled(l.overlay)
      /\ new.calls = left.calls /\ new.loading = "none" /\ new.loaded
      /\ ~new.failed /\ new.dirty = l.dirty /\ new.stale = settled.stale
      /\ new.targets = l.targets
  BY <1>4, <1>5 DEF List
<1>10. Stages(new)
  BY <1>9 DEF Stages
<1>11. Control(h, new)
  BY <1>1, <1>3, <1>6, <1>8, <1>9, <1>10, RestedControl
<1>12. ListHeard(new) => ListHeard(l)
  BY <1>3, <1>9 DEF ListHeard, Control, Stages
<1> QED
  BY <1>1, <1>3, <1>4, <1>9, <1>11, <1>12

\* A page at an edge extends the window.
LEMMA PageLanded ==
  ASSUME NEW h, NEW l, Control(h, l), l.calls # <<>>,
         Head(l.calls).kind \in Edges,
         NEW answer \in Answers, IsFiniteSet(answer.rows),
         NEW new \in PageLands(Popped(l), Head(l.calls).kind, answer)
  PROVE  /\ Control(h, new) /\ l.loading = Head(l.calls).kind /\ new.loading = "none"
         /\ new.query = l.query
         /\ new.window = Extended(l.window, Head(l.calls).kind, answer)
         /\ new.overlay = l.overlay
         /\ new.stale = l.stale
         /\ \A i \in DOMAIN new.calls : ~IsPageCall(new.calls[i])
                                        /\ \E j \in DOMAIN l.calls : l.calls[j] = new.calls[i]
         /\ ListHeard(new) => ListHeard(l)
<1> DEFINE left == Popped(l)
           call == Head(l.calls)
           edge == call.kind
           due == left.scheduled \/ left.dirty
           window == Extended(l.window, edge, answer)
<1>1. /\ left \in List /\ \A f \in Fields \ {"calls"} : left[f] = l[f]
      /\ CallOK(h, l, call)
      /\ \A i \in DOMAIN left.calls : /\ CallOK(h, l, left.calls[i])
                                      /\ \E j \in DOMAIN l.calls : l.calls[j] = left.calls[i]
      /\ IsPageCall(call) => \A i \in DOMAIN left.calls : ~IsPageCall(left.calls[i])
  <2>1. PoppedWell(h, l, left, call)
    BY PoppedIs
  <2> HIDE DEF left, call
  <2> QED
    BY <2>1 DEF PoppedWell
<1> HIDE DEF call
<1>0. edge \in Edges
  BY DEF call
<1>2. /\ left.query = l.query /\ left.window = l.window /\ left.stale = l.stale
      /\ left.targets = l.targets /\ left.overlay = l.overlay /\ left.dirty = l.dirty
      /\ left.loaded = l.loaded /\ left.failed = l.failed
  BY <1>1 DEF Fields
<1>3. IsPageCall(call) /\ l.loading = edge /\ edge # "first"
  BY <1>0, <1>1 DEF CallOK, IsPageCall, Edges
<1>4. l \in List /\ Stages(l) /\ IsFiniteSet(l.window.pages)
  BY DEF Control
<1> HIDE DEF left
<1>5. PICK near \in BOOLEAN :
        new = [left EXCEPT !.window = Extended(@, edge, answer), !.loading = "none",
                           !.blocked = @ \ {edge}, !.scheduled = @ \/ left.dirty,
                           !.near = near, !.slid = FALSE]
  BY DEF PageLands, left, call
<1>6. due \in BOOLEAN
  BY <1>1 DEF List
<1>7. IsWindow(window)
  <2>1. IsWindow(l.window)
    BY <1>4, ListHas DEF IsWindow
  <2> QED
    BY <1>0, <2>1, ExtendedIsWindow
<1>8. new = [left EXCEPT !.window = window, !.loading = "none",
                         !.blocked = @ \ {edge}, !.scheduled = due,
                         !.near = near, !.slid = FALSE]
  BY <1>2, <1>5
<1> HIDE DEF due, window
<1>9. new \in List
  BY <1>1, <1>6, <1>7, <1>8 DEF List, IsWindow, Windows, Pages
<1>10. /\ new.query = l.query /\ new.window = window /\ new.overlay = l.overlay
       /\ new.calls = left.calls /\ new.loading = "none" /\ new.loaded = l.loaded
       /\ new.failed = l.failed /\ new.dirty = l.dirty /\ new.stale = l.stale
       /\ new.targets = l.targets
  BY <1>1, <1>2, <1>8 DEF List
<1>11. Stages(new)
  BY <1>3, <1>4, <1>10 DEF Stages
<1>12. Control(h, new)
  BY <1>1, <1>3, <1>7, <1>9, <1>10, <1>11, RestedControl DEF IsWindow
<1>13. ListHeard(new) => ListHeard(l)
  BY <1>3, <1>10 DEF ListHeard
<1> QED
  BY <1>1, <1>3, <1>10, <1>12, <1>13 DEF window, call

\* A targeted refresh is of the list of conversations, while it shows that it is behind.
LEMMA TargetsLanded ==
  ASSUME NEW h, NEW l, Control(h, l), l.calls # <<>>, Head(l.calls).kind = "targets",
         NEW targets, NEW answer \in Answers,
         NEW new, new = TargetsLand(Popped(l), targets, answer)
  PROVE  /\ Control(h, new) /\ h # "messages"
         /\ new.query = l.query /\ new.overlay = l.overlay /\ new.stale = l.stale
         /\ \A i \in DOMAIN new.calls : \E j \in DOMAIN l.calls : l.calls[j] = new.calls[i]
         /\ ~ListHeard(new)
<1> DEFINE left == Popped(l)
           call == Head(l.calls)
           window == Refreshed(l.window, targets, answer.rows)
<1>1. /\ left \in List /\ \A f \in Fields \ {"calls"} : left[f] = l[f]
      /\ CallOK(h, l, call)
      /\ \A i \in DOMAIN left.calls : \E j \in DOMAIN l.calls : l.calls[j] = left.calls[i]
      /\ ~IsPageCall(call) => Control(h, left)
  <2>1. PoppedWell(h, l, left, call)
    BY PoppedIs
  <2> HIDE DEF left, call
  <2> QED
    BY <2>1 DEF PoppedWell
<1>2. /\ left.query = l.query /\ left.window = l.window /\ left.stale = l.stale
      /\ left.overlay = l.overlay /\ left.loading = l.loading
  BY <1>1 DEF Fields
<1>3. h # "messages" /\ l.stale /\ l.loading # "first" /\ Control(h, left)
  BY <1>1 DEF CallOK, IsPageCall
<1> HIDE DEF left, call
<1>4. IsWindow(window) /\ answer.rows \in SUBSET Row
  <2>1. IsWindow(l.window)
    BY ListHas DEF IsWindow, Control
  <2>2. answer.rows \in SUBSET Row
    BY DEF Answers
  <2> QED
    BY <2>1, <2>2, RefreshedIsWindow
<1>5. \A edge \in Edges : /\ CursorFor(window, edge) = CursorFor(l.window, edge)
                          /\ HasMore(window, edge) = HasMore(l.window, edge)
  <2>1. l.window \in Windows
    BY ListHas DEF Control
  <2>2. /\ window.moreOld = l.window.moreOld /\ window.moreFresh = l.window.moreFresh
        /\ window.oldCursor = l.window.oldCursor /\ window.freshCursor = l.window.freshCursor
    BY <2>1 DEF Refreshed, Windows
  <2> QED
    BY <2>2 DEF CursorFor, HasMore
<1>6. new = [left EXCEPT !.window = window]
  BY <1>2 DEF TargetsLand, left
<1> HIDE DEF window
<1>7. new \in List
  BY <1>1, <1>4, <1>6 DEF List, IsWindow, Windows, Pages
<1>8. /\ new.query = left.query /\ new.window = window /\ new.overlay = left.overlay
      /\ new.calls = left.calls /\ new.loading = left.loading /\ new.loaded = left.loaded
      /\ new.failed = left.failed /\ new.dirty = left.dirty /\ new.stale = left.stale
      /\ new.targets = left.targets
  BY <1>1, <1>6 DEF List
<1>9. OneCall(h, new)
  <2>1. OneCall(h, left)
    BY <1>3 DEF Control
  <2>2. \A edge \in Edges : /\ CursorFor(new.window, edge) = CursorFor(left.window, edge)
                            /\ HasMore(new.window, edge) = HasMore(left.window, edge)
    BY <1>2, <1>5, <1>8
  <2>3. left.stale => new.stale
    BY <1>8
  <2> QED
    BY <1>8, <2>1, <2>2, <2>3, CallsSame
<1>10. Stages(new)
  BY <1>3, <1>8 DEF Stages, Control
<1>11. Control(h, new)
  BY <1>3, <1>4, <1>7, <1>8, <1>9, <1>10 DEF Control, IsWindow
<1>12. new.stale /\ new.loading # "first"
  BY <1>2, <1>3, <1>8
<1>13. ~ListHeard(new)
  BY <1>12 DEF ListHeard
<1>14. \A i \in DOMAIN new.calls : \E j \in DOMAIN l.calls : l.calls[j] = new.calls[i]
  BY <1>1, <1>8
<1>15. new.query = l.query /\ new.overlay = l.overlay /\ new.stale = l.stale
  BY <1>2, <1>8
<1> QED
  BY <1>3, <1>11, <1>13, <1>14, <1>15

-----------------------------------------------------------------------------
(* What the window owes is kept *)

LEMMA SettledIds ==
  ASSUME NEW overlay
  PROVE  LocalIds(Settled(overlay)) \subseteq LocalIds(overlay)
BY DEF LocalIds, Settled

\* The window stays, and what is certain of a message was so before.
LEMMA SteadyKeeps ==
  ASSUME SliceOK, host' = host, Steady(list, list'), Heard' => Heard,
         \A m \in Messages \ LocalIds(Settled(list'.overlay)) :
            /\ Sent(m)' => Sent(m) /\ server'[m] = server[m]
            /\ Unchanged(m)' => Unchanged(m) /\ server'[m] = server[m]
  PROVE  WindowOK' /\ AnswersOK'
<1>1. Current' => Current
  BY DEF Current, Steady, Heard
<1>2. list'.window = list.window /\ list'.query = list.query
  BY DEF Steady
<1>3. ASSUME NEW m \in Messages, server'[m] = server[m]
      PROVE  Own(m)' = Own(m)
  BY <1>2, <1>3 DEF Own, Open
<1>4. ASSUME NEW m \in Messages \ LocalIds(list'.overlay)
      PROVE  m \in Messages \ LocalIds(Settled(list'.overlay)) /\ m \notin LocalIds(list.overlay)
  BY SettledIds DEF Steady
<1>5. WindowOK'
  <2>1. host' = "messages" \/ Current' => PagesOK(list'.window)
    BY <1>1, <1>2 DEF SliceOK, WindowOK
  <2>2. ASSUME NEW m \in Messages \ LocalIds(list'.overlay),
               \/ Sent(m)' /\ list'.window.oldCursor # 0
               \/ Unchanged(m)' /\ Current'
        PROVE  Shows(list'.window, m, Own(m)')
    <3>1. /\ \/ Sent(m) /\ list.window.oldCursor # 0
             \/ Unchanged(m) /\ Current
          /\ server'[m] = server[m] /\ m \notin LocalIds(list.overlay)
      BY <1>1, <1>2, <1>4, <2>2
    <3>2. Shows(list.window, m, Own(m))
      BY <3>1 DEF SliceOK, WindowOK
    <3> QED
      BY <1>2, <1>3, <3>1, <3>2
  <2> QED
    BY <2>1, <2>2 DEF WindowOK
<1>6. AnswersOK'
  <2>1. SUFFICES ASSUME NEW i \in DOMAIN list'.calls, list'.calls[i].state = "answered"
                 PROVE  AnswerOK(list.calls[i])'
    BY DEF AnswersOK
  <2>2. PICK j \in DOMAIN list.calls : list.calls[j] = list'.calls[i]
    BY <2>1 DEF Steady
  <2> DEFINE call == list.calls[j]
  <2>3. AnswerOK(call)
    BY <2>1, <2>2 DEF SliceOK, AnswersOK
  <2>4. call = list'.calls[i]
    BY <2>2
  <2> HIDE DEF call
  <2>5. ASSUME NEW m \in Messages \ LocalIds(Settled(list'.overlay)), Certain(m)'
        PROVE  /\ Certain(m) /\ Own(m)' = Own(m)
               /\ m \notin LocalIds(Settled(list.overlay))
    BY <1>3, <2>5 DEF Certain, Steady
  <2>6. ASSUME call.kind = "first",
               NEW m \in Messages \ LocalIds(Settled(list'.overlay)), Certain(m)'
        PROVE  Shows(FirstPage(call.answer), m, Own(m)')
    BY <2>3, <2>5, <2>6 DEF AnswerOK
  <2>7. ASSUME call.kind \in Edges,
               NEW m \in Messages \ LocalIds(list'.overlay), Certain(m)'
        PROVE  Tells(call.kind, call.cursor, call.answer, m, Own(m)')
    BY <1>4, <2>3, <2>5, <2>7 DEF AnswerOK
  <2> QED
    BY <2>3, <2>4, <2>6, <2>7 DEF AnswerOK
<1> QED
  BY <1>5, <1>6

\* A first page is asked for: nothing is answered, and what was sent is where it was.
LEMMA RestartedKeeps ==
  ASSUME SliceOK, host' = host, Restarted(list, list'),
         \A m \in Messages \ LocalIds(list'.overlay) :
            Sent(m)' => Sent(m) /\ server'[m] = server[m]
  PROVE  WindowOK' /\ AnswersOK'
<1>1. AnswersOK'
  BY DEF AnswersOK, Restarted
<1>2. ~Current'
  BY DEF Current, Restarted
<1>3. CASE list'.window = EmptyWindow
  <2>1. PagesOK(list'.window) /\ list'.window.oldCursor = 0
    BY <1>3, EmptyIsWindow DEF EmptyWindow
  <2> QED
    BY <1>1, <1>2, <2>1 DEF WindowOK
<1>4. CASE /\ list'.window = list.window /\ list'.query = list.query
           /\ LocalIds(list.overlay) \subseteq LocalIds(list'.overlay)
  <2>1. host' = "messages" => PagesOK(list'.window)
    BY <1>4 DEF SliceOK, WindowOK
  <2>2. ASSUME NEW m \in Messages \ LocalIds(list'.overlay),
               Sent(m)' /\ list'.window.oldCursor # 0
        PROVE  Shows(list'.window, m, Own(m)')
    <3>1. Sent(m) /\ list.window.oldCursor # 0 /\ m \notin LocalIds(list.overlay)
          /\ server'[m] = server[m]
      BY <1>4, <2>2
    <3>2. Shows(list.window, m, Own(m))
      BY <3>1 DEF SliceOK, WindowOK
    <3>3. Own(m)' = Own(m)
      BY <1>4, <3>1 DEF Own, Open
    <3> QED
      BY <1>4, <3>2, <3>3
  <2> QED
    BY <1>1, <1>2, <2>1, <2>2 DEF WindowOK
<1> QED
  BY <1>3, <1>4 DEF Restarted

\* Only calls by identity are left: their answers owe nothing to the window.
LEMMA RestAnswered ==
  ASSUME SliceOK,
         \A i \in DOMAIN list'.calls : ~IsPageCall(list'.calls[i])
                                       /\ \E j \in DOMAIN list.calls : list.calls[j] = list'.calls[i]
  PROVE  AnswersOK'
<1>1. SUFFICES ASSUME NEW i \in DOMAIN list'.calls, list'.calls[i].state = "answered"
               PROVE  AnswerOK(list.calls[i])'
  BY DEF AnswersOK
<1>2. PICK j \in DOMAIN list.calls : list.calls[j] = list'.calls[i]
  OBVIOUS
<1>3. AnswerOK(list.calls[j])
  BY <1>1, <1>2 DEF SliceOK, AnswersOK
<1>4. list'.calls[i].kind = "targets"
  BY DEF IsPageCall
<1>5. /\ IsFiniteSet(list'.calls[i].answer.rows)
      /\ \A r \in list'.calls[i].answer.rows : r.seq > 0
  BY <1>2, <1>3 DEF AnswerOK
<1> QED
  BY <1>4, <1>5 DEF AnswerOK, Edges

-----------------------------------------------------------------------------
(* A call lands *)

\* The steps that leave the source and what it has sent alone.
LEMMA HostRests ==
  ASSUME HostOK, UNCHANGED <<host, server, deleted, notices, sends, acked>>,
         unread' \subseteq Conversations, connected' \in BOOLEAN, active' \in BOOLEAN,
         spent' \in [events : Nat, intents : Nat, faults : Nat]
  PROVE  HostOK'
BY DEF HostOK, NoticeOK, Taken

\* What is certain depends on the source, the connection and the notices only.
LEMMA SameCertain ==
  ASSUME UNCHANGED <<host, server, notices, connected, acked>>,
         ListHeard(list') => ListHeard(list)
  PROVE  /\ Heard' => Heard
         /\ \A m \in Messages : /\ Sent(m)' => Sent(m)
                                /\ Unchanged(m)' => Unchanged(m)
                                /\ server'[m] = server[m]
<1>1. Heard' => Heard
  BY DEF Heard
<1> QED
  BY <1>1 DEF Sent, Unchanged

LEMMA WeatheredOK ==
  ASSUME NEW gone, NEW l, NEW new, l.overlay \in SUBSET Entry, OverlayOK(gone, l.overlay),
         Weathered(l, new)
  PROVE  OverlayOK(gone, new.overlay)
<1>1. OverlayOK(gone, Covered(l.overlay))
  <2>1. ASSUME NEW c \in Covered(l.overlay)
        PROVE  \E e \in l.overlay : c.id = e.id /\ c.row = e.row
    <3>1. PICK e \in l.overlay : c = [e EXCEPT !.covered = TRUE]
      BY DEF Covered
    <3>2. e \in Entry
      OBVIOUS
    <3> QED
      BY <3>1, <3>2 DEF Entry
  <2> QED
    BY <2>1 DEF OverlayOK
<1>2. OverlayOK(gone, Settled(l.overlay))
  BY DEF OverlayOK, Settled
<1>3. OverlayOK(gone, {})
  BY DEF OverlayOK
<1> QED
  BY <1>1, <1>2, <1>3 DEF Weathered

LEMMA LandFirstKeeps ==
  ASSUME SliceOK, list.calls # <<>>, Head(list.calls).kind = "first",
         Head(list.calls).state = "answered",
         list' \in FirstPageLands(Popped(list), Head(list.calls).answer),
         UNCHANGED <<host, server, deleted, notices, connected, acked>>
  PROVE  Control(host, list)' /\ OverlayOK(deleted, list.overlay)' /\ WindowOK' /\ AnswersOK'
<1> DEFINE call == Head(list.calls)
           answer == call.answer
<1>1. Control(host, list)
  BY DEF SliceOK
<1>2. call \in Call /\ 1 \in DOMAIN list.calls /\ call = list.calls[1] /\ CallOK(host, list, call)
  BY <1>1, PoppedIs DEF PoppedWell
<1>3. AnswerOK(call)
  BY <1>2 DEF SliceOK, AnswersOK
<1>4. answer \in Answers /\ IsFiniteSet(answer.rows) /\ \A r \in answer.rows : r.seq > 0
  BY <1>2, <1>3 DEF Call, AnswerOK
<1>5. /\ Control(host, list') /\ list'.query = list.query
      /\ list'.window = FirstPage(answer) /\ list'.overlay = Settled(list.overlay)
      /\ \A i \in DOMAIN list'.calls : ~IsPageCall(list'.calls[i])
                                       /\ \E j \in DOMAIN list.calls : list.calls[j] = list'.calls[i]
      /\ ListHeard(list') => ListHeard(list)
  BY <1>1, <1>4, FirstPageLanded
<1>6. Control(host, list)'
  BY <1>5
<1>7. OverlayOK(deleted, list.overlay)'
  <2>1. OverlayOK(deleted, list'.overlay)
    BY <1>5 DEF SliceOK, OverlayOK, Settled
  <2> QED
    BY <2>1
<1>8. AnswersOK'
  BY <1>5, RestAnswered
<1>9. PagesOK(list'.window)
  BY <1>4, <1>5, FirstPageOrdered
<1>10. ASSUME NEW m \in Messages \ LocalIds(list'.overlay), Sent(m)' \/ Unchanged(m)'
       PROVE  Shows(list'.window, m, Own(m)')
  <2>1. Certain(m)
    BY <1>5, <1>10, SameCertain DEF Certain
  <2>2. Shows(FirstPage(answer), m, Own(m))
    BY <1>3, <1>5, <1>10, <2>1 DEF AnswerOK
  <2>3. Own(m)' = Own(m)
    BY <1>5 DEF Own, Open
  <2> QED
    BY <1>5, <2>2, <2>3
<1>11. WindowOK'
  BY <1>9, <1>10 DEF WindowOK
<1> QED
  BY <1>6, <1>7, <1>8, <1>11

LEMMA LandEdgeKeeps ==
  ASSUME SliceOK, list.calls # <<>>, Head(list.calls).kind \in Edges,
         Head(list.calls).state = "answered",
         list' \in PageLands(Popped(list), Head(list.calls).kind, Head(list.calls).answer),
         UNCHANGED <<host, server, deleted, notices, connected, acked>>
  PROVE  Control(host, list)' /\ OverlayOK(deleted, list.overlay)' /\ WindowOK' /\ AnswersOK'
<1> DEFINE call == Head(list.calls)
           answer == call.answer
           edge == call.kind
           w == list.window
<1>1. Control(host, list)
  BY DEF SliceOK
<1>2. call \in Call /\ 1 \in DOMAIN list.calls /\ call = list.calls[1] /\ CallOK(host, list, call)
  BY <1>1, PoppedIs DEF PoppedWell
<1>3. AnswerOK(call)
  BY <1>2 DEF SliceOK, AnswersOK
<1>4. /\ answer \in Answers /\ IsFiniteSet(answer.rows)
      /\ \A r \in answer.rows : r.seq > 0 /\ Beyond(edge, call.cursor, r.seq)
  BY <1>2, <1>3 DEF Call, AnswerOK
<1>5. call.cursor = CursorFor(w, edge) /\ CursorFor(w, edge) # 0 /\ HasMore(w, edge)
  BY <1>2 DEF CallOK
<1>6. /\ Control(host, list') /\ list'.query = list.query
      /\ list.loading = edge /\ list'.loading = "none"
      /\ list'.window = Extended(w, edge, answer) /\ list'.overlay = list.overlay
      /\ \A i \in DOMAIN list'.calls : ~IsPageCall(list'.calls[i])
                                       /\ \E j \in DOMAIN list.calls : list.calls[j] = list'.calls[i]
      /\ ListHeard(list') => ListHeard(list)
  BY <1>1, <1>4, PageLanded
<1>7. Control(host, list)'
  BY <1>6
<1>8. OverlayOK(deleted, list.overlay)'
  BY <1>6 DEF SliceOK
<1>9. AnswersOK'
  BY <1>6, RestAnswered
<1>10. IsWindow(w)
  BY <1>1, ListHas DEF IsWindow, Control
<1>11. Current' => Current
  <2>1. Heard' => Heard
    BY <1>6, SameCertain
  <2> QED
    BY <1>6, <2>1 DEF Current, Edges
<1>12. host' = "messages" \/ Current' => PagesOK(w)
  BY <1>11 DEF SliceOK, WindowOK
<1> HIDE DEF w, edge, answer
<1>13. PagesOK(w) => PagesOK(list'.window)
  BY <1>4, <1>5, <1>6, <1>10, ExtendedOrdered DEF edge
<1>14. ASSUME NEW m \in Messages \ LocalIds(list'.overlay),
              \/ Sent(m)' /\ list'.window.oldCursor # 0
              \/ Unchanged(m)' /\ Current'
       PROVE  Shows(list'.window, m, Own(m)')
  <2>1. Sent(m)' => Sent(m) /\ host' = "messages"
    BY <1>6, SameCertain DEF Sent
  <2>2. Unchanged(m)' => Unchanged(m)
    BY <1>6, SameCertain
  <2>3. PagesOK(w)
    BY <1>12, <1>14, <2>1
  <2>4. w.oldCursor # 0
    BY <1>5, <2>3 DEF PagesOK, CursorFor
  <2>5. Shows(w, m, Own(m))
    BY <1>6, <1>11, <1>14, <2>1, <2>2, <2>4 DEF SliceOK, WindowOK, w
  <2>6. Certain(m)
    BY <1>14, <2>1, <2>2 DEF Certain
  <2>7. Tells(edge, CursorFor(w, edge), answer, m, Own(m))
    BY <1>3, <1>5, <1>6, <1>14, <2>6 DEF AnswerOK, edge, answer
  <2>8. /\ Own(m) \in SUBSET Row /\ \A r, q \in Own(m) : r = q
        /\ \A r \in Own(m) : r.id = m
    <3>1. server[m] \in Nat
      BY DEF SliceOK, HostOK
    <3> QED
      BY <3>1, RowAtIs DEF Own
  <2> DEFINE rows == Own(m)
  <2>9. edge \in Edges /\ \A r \in answer.rows : r.seq > 0 /\ Beyond(edge, CursorFor(w, edge), r.seq)
    BY <1>4, <1>5 DEF edge
  <2> HIDE DEF rows
  <2>10. Shows(Extended(w, edge, answer), m, rows)
    BY <1>4, <1>5, <1>10, <2>3, <2>5, <2>7, <2>8, <2>9, ExtendedShows DEF rows
  <2>11. Own(m)' = Own(m)
    BY <1>6 DEF Own, Open
  <2> QED
    BY <1>6, <2>10, <2>11 DEF rows
<1>15. WindowOK'
  BY <1>12, <1>13, <1>14 DEF WindowOK
<1> QED
  BY <1>7, <1>8, <1>9, <1>15

LEMMA LandTargetsKeeps ==
  ASSUME SliceOK, list.calls # <<>>, Head(list.calls).kind = "targets",
         Head(list.calls).state = "answered",
         list' = TargetsLand(Popped(list), Head(list.calls).targets, Head(list.calls).answer),
         UNCHANGED <<host, server, deleted, notices, connected, acked>>
  PROVE  Control(host, list)' /\ OverlayOK(deleted, list.overlay)' /\ WindowOK' /\ AnswersOK'
<1> DEFINE call == Head(list.calls)
           answer == call.answer
           targets == call.targets
<1>1. Control(host, list)
  BY DEF SliceOK
<1>2. call \in Call
  BY <1>1, PoppedIs DEF PoppedWell
<1>3. answer \in Answers
  BY <1>2 DEF Call
<1> HIDE DEF answer, targets
<1>4. /\ Control(host, list') /\ host # "messages"
      /\ list'.query = list.query /\ list'.overlay = list.overlay
      /\ \A i \in DOMAIN list'.calls : \E j \in DOMAIN list.calls : list.calls[j] = list'.calls[i]
      /\ ~ListHeard(list')
  BY <1>1, <1>3, TargetsLanded DEF answer, targets
<1>5. Control(host, list)' /\ OverlayOK(deleted, list.overlay)'
  BY <1>4 DEF SliceOK
<1>6. ~Current' /\ \A m \in Messages : ~Sent(m)' /\ ~Unchanged(m)'
  BY <1>4 DEF Current, Heard, Unchanged, Sent
<1>7. WindowOK'
  BY <1>4, <1>6 DEF WindowOK
<1>8. AnswersOK'
  <2>1. SUFFICES ASSUME NEW i \in DOMAIN list'.calls, list'.calls[i].state = "answered"
                 PROVE  AnswerOK(list.calls[i])'
    BY DEF AnswersOK
  <2>2. PICK j \in DOMAIN list.calls : list.calls[j] = list'.calls[i]
    BY <1>4
  <2>3. AnswerOK(list.calls[j])
    BY <2>1, <2>2 DEF SliceOK, AnswersOK
  <2>4. \A m \in Messages : ~Certain(m)'
    BY <1>6 DEF Certain
  <2> QED
    BY <2>2, <2>3, <2>4 DEF AnswerOK
<1> QED
  BY <1>5, <1>7, <1>8

\* A step of the list that only weathers keeps what it is asked to.
LEMMA SteadySlice ==
  ASSUME SliceOK, Control(host, list'), Steady(list, list'), OverlayOK(deleted, list'.overlay),
         UNCHANGED <<host, server, deleted, notices, connected, acked>>
  PROVE  Control(host, list)' /\ OverlayOK(deleted, list.overlay)' /\ WindowOK' /\ AnswersOK'
<1>1. ListHeard(list') => ListHeard(list)
  BY DEF Steady
<1>2. WindowOK' /\ AnswersOK'
  BY <1>1, SameCertain, SteadyKeeps
<1> QED
  BY <1>2

LEMMA MovedSlice ==
  ASSUME SliceOK, Control(host, list'), Steady(list, list') \/ Restarted(list, list'),
         OverlayOK(deleted, list'.overlay),
         UNCHANGED <<host, server, deleted, notices, connected, acked>>
  PROVE  Control(host, list)' /\ OverlayOK(deleted, list.overlay)' /\ WindowOK' /\ AnswersOK'
<1>1. CASE Steady(list, list')
  BY <1>1, SteadySlice
<1>2. CASE Restarted(list, list')
  <2>1. \A m \in Messages : Sent(m)' => Sent(m) /\ server'[m] = server[m]
    BY DEF Sent
  <2>2. WindowOK' /\ AnswersOK'
    BY <1>2, <2>1, RestartedKeeps
  <2> QED
    BY <2>2
<1> QED
  BY <1>1, <1>2

\* The answer of a call, for the first page that it asked for.
LEMMA LandKeeps ==
  ASSUME SliceOK, Land
  PROVE  SliceOK'
<1> DEFINE call == Head(list.calls)
<1>1. /\ list.calls # <<>> /\ call.state # "sent" /\ list' \in Landed(Popped(list), call)
      /\ UNCHANGED <<host, server, deleted, notices, connected, active, sends, acked, spent>>
      /\ unread' \subseteq unread
  BY DEF Land, Show, Popped
<1>2. Control(host, list)
  BY DEF SliceOK
<1>3. call \in Call
  BY <1>1, <1>2, PoppedIs DEF PoppedWell
<1>4. HostOK'
  BY <1>1, HostRests DEF SliceOK, HostOK
<1>5. CASE call.state = "failed"
  <2>1. list' = Fails(Popped(list), call.kind)
    BY <1>1, <1>5 DEF Landed
  <2>2. Control(host, list') /\ Steady(list, list') /\ list'.overlay = list.overlay
    BY <1>1, <1>2, <2>1, FailsSteady
  <2>3. OverlayOK(deleted, list'.overlay)
    BY <2>2 DEF SliceOK
  <2> QED
    BY <1>1, <1>4, <2>2, <2>3, SteadySlice DEF SliceOK
<1>6. CASE call.state = "answered"
  <2>1. list' \in Succeeds(Popped(list), call)
    BY <1>1, <1>6 DEF Landed
  <2>2. CASE call.kind = "first"
    <3>1. list' \in FirstPageLands(Popped(list), call.answer)
      BY <2>1, <2>2 DEF Succeeds, Edges
    <3> QED
      BY <1>1, <1>4, <1>6, <2>2, <3>1, LandFirstKeeps DEF SliceOK
  <2>3. CASE call.kind = "targets"
    <3>1. list' = TargetsLand(Popped(list), call.targets, call.answer)
      BY <2>1, <2>3 DEF Succeeds, Edges
    <3> QED
      BY <1>1, <1>4, <1>6, <2>3, <3>1, LandTargetsKeeps DEF SliceOK
  <2>4. CASE call.kind \in Edges
    <3>1. call.kind # "first" /\ call.kind # "targets"
      BY <2>4 DEF Edges
    <3>2. list' \in PageLands(Popped(list), call.kind, call.answer)
      BY <2>1, <2>4, <3>1 DEF Succeeds
    <3> QED
      BY <1>1, <1>4, <1>6, <2>4, <3>2, LandEdgeKeeps DEF SliceOK
  <2>5. call.kind \in {"first", "targets"} \cup Edges
    BY <1>3 DEF Call
  <2> QED
    BY <2>2, <2>3, <2>4, <2>5
<1>7. call.state \in {"sent", "answered", "failed"}
  BY <1>3 DEF Call
<1> QED
  BY <1>1, <1>5, <1>6, <1>7

-----------------------------------------------------------------------------
(* A call is answered, or fails *)

Used == [events : Nat, intents : Nat, faults : Nat]

LEMMA UsedMore ==
  ASSUME NEW used \in Used
  PROVE  /\ [used EXCEPT !.events = @ + 1] \in Used
         /\ [used EXCEPT !.events = @ + 1, !.faults = @ + 1] \in Used
         /\ [used EXCEPT !.events = @ + 1, !.intents = @ + 1] \in Used
<1> DEFINE e == used.events + 1
           f == used.faults + 1
           i == used.intents + 1
<1>1. e \in Nat /\ f \in Nat /\ i \in Nat
  BY DEF Used
<1> HIDE DEF e, f, i
<1>2. /\ [used EXCEPT !.events = e] \in Used
      /\ [used EXCEPT !.events = e, !.faults = f] \in Used
      /\ [used EXCEPT !.events = e, !.intents = i] \in Used
  BY <1>1 DEF Used
<1> QED
  BY <1>2 DEF e, f, i

LEMMA ServeKeeps ==
  ASSUME SliceOK, Serve
  PROVE  SliceOK'
<1> DEFINE i == Min(Unanswered)
           call == list.calls[i]
           state == IF Refused(call) THEN "failed" ELSE "answered"
           answer == IF Refused(call) THEN NoAnswer ELSE AnswerTo(call)
<1>1. /\ Unanswered # {}
      /\ list' = Given(list, i, state, answer)
      /\ UNCHANGED <<host, server, deleted, unread, notices, connected, active, sends, acked, spent>>
  BY DEF Serve, source, Given
<1>2. Control(host, list) /\ list \in List /\ list.calls \in Seq(Call) /\ OneCall(host, list)
      /\ Anchored(list.query)
  BY DEF SliceOK, Control, List
<1>3. i \in DOMAIN list.calls
  <2>1. Unanswered \in SUBSET Nat
    BY <1>2 DEF Unanswered
  <2>2. i \in Unanswered
    BY <1>1, <2>1, MinIs
  <2> QED
    BY <2>2 DEF Unanswered
<1> HIDE DEF i
<1>4. call \in Call /\ CallOK(host, list, call)
  BY <1>2, <1>3 DEF OneCall
<1>5. call.query = list.query /\ (call.kind \in Edges => call.cursor # 0)
  BY <1>4 DEF CallOK
<1>6. HostOK
  BY DEF SliceOK
<1>7. ASSUME ~Refused(call)
      PROVE  LET c == call.query.conversation
                 told == AnswerTo(call)
             IN
             /\ told \in Answers /\ IsFiniteSet(told.rows)
             /\ \A r \in told.rows :
                  r.seq > 0 /\ (call.kind \in Edges => Beyond(call.kind, call.cursor, r.seq))
             /\ call.kind = "first" /\ call.query.around = NoMessage => ~told.moreFresh
             /\ call.kind = "first" => \A m \in Messages :
                  Shows(FirstPage(told), m, RowAt(c, m, server[m]))
             /\ call.kind \in Edges => \A m \in Messages :
                  Tells(call.kind, call.cursor, told, m, RowAt(c, m, server[m]))
  <2> HIDE DEF call
  <2> QED
    BY <1>2, <1>4, <1>5, <1>6, <1>7, AnswersTell
<1>8. NoAnswer \in Answers
  BY DEF NoAnswer, Answers
<1>9. state \in {"answered", "failed"} /\ answer \in Answers
  BY <1>7, <1>8
<1> DEFINE new == [call EXCEPT !.state = state, !.answer = answer]
<1>10. /\ new.state = state /\ new.answer = answer
       /\ new.kind = call.kind /\ new.query = call.query /\ new.cursor = call.cursor
  BY <1>4 DEF Call
<1>11. state = "answered" => AnswerOK(new)
  <2>1. SUFFICES ASSUME ~Refused(call)
                 PROVE  AnswerOK(new)
    OBVIOUS
  <2>2. answer = AnswerTo(call)
    BY <2>1
  <2>3. \A m \in Messages : Own(m) = RowAt(call.query.conversation, m, server[m])
    BY <1>5 DEF Own, Open
  <2> HIDE DEF answer, state, new, call
  <2> QED
    BY <1>7, <1>10, <2>1, <2>2, <2>3 DEF AnswerOK
<1> HIDE DEF call, state, answer
<1>12. new = [list.calls[i] EXCEPT !.state = state, !.answer = answer]
  BY DEF call
<1> HIDE DEF new
<1>13. /\ Control(host, list')
       /\ list'.query = list.query /\ list'.window = list.window /\ list'.overlay = list.overlay
       /\ list'.dirty = list.dirty /\ list'.failed = list.failed /\ list'.stale = list.stale
       /\ list'.loading = list.loading
       /\ DOMAIN list'.calls = DOMAIN list.calls
       /\ list'.calls[i] = new
       /\ \A j \in DOMAIN list.calls : j # i => list'.calls[j] = list.calls[j]
  <2>1. Control(host, list)
    BY <1>2
  <2>2. Answered(host, list, i, state, answer, list')
    BY <1>1, <1>3, <1>9, <2>1, GivenIs
  <2> QED
    BY <1>12, <2>2 DEF Answered
<1>14. HostOK'
  BY <1>1, <1>6, HostRests DEF HostOK
<1>15. Control(host, list)' /\ OverlayOK(deleted, list.overlay)'
  BY <1>1, <1>13 DEF SliceOK
<1>16. WindowOK'
  <2>1. ListHeard(list') => ListHeard(list)
    BY <1>13 DEF ListHeard
  <2>2. /\ Current' => Current
        /\ \A m \in Messages : /\ Sent(m)' => Sent(m)
                               /\ Unchanged(m)' => Unchanged(m)
                               /\ Own(m)' = Own(m)
    BY <1>1, <1>13, <2>1, SameCertain DEF Current, Own, Open
  <2> QED
    BY <1>1, <1>13, <2>2 DEF SliceOK, WindowOK
<1>17. AnswersOK'
  <2>1. SUFFICES ASSUME NEW j \in DOMAIN list.calls, list'.calls[j].state = "answered"
                 PROVE  AnswerOK(list.calls[j])'
    BY <1>13 DEF AnswersOK
  <2> DEFINE told == list'.calls[j]
             known == IF j = i THEN new ELSE list.calls[j]
  <2>2. told = known
    BY <1>13
  <2>3. AnswerOK(known)
    BY <1>10, <1>11, <2>1, <2>2 DEF SliceOK, AnswersOK
  <2>4. AnswerOK(told)
    BY <2>2, <2>3
  <2> HIDE DEF told, known
  <2>5. ListHeard(list') => ListHeard(list)
    BY <1>13 DEF ListHeard
  <2>6. ASSUME NEW m \in Messages, Certain(m)'
        PROVE  Certain(m) /\ Own(m)' = Own(m)
    BY <1>1, <1>13, <2>5, <2>6, SameCertain DEF Certain, Own, Open
  <2>7. ASSUME told.kind = "first",
               NEW m \in Messages \ LocalIds(Settled(list'.overlay)), Certain(m)'
        PROVE  Shows(FirstPage(told.answer), m, Own(m)')
    BY <1>13, <2>4, <2>6, <2>7 DEF AnswerOK
  <2>8. ASSUME told.kind \in Edges,
               NEW m \in Messages \ LocalIds(list'.overlay), Certain(m)'
        PROVE  Tells(told.kind, told.cursor, told.answer, m, Own(m)')
    BY <1>13, <2>4, <2>6, <2>8 DEF AnswerOK
  <2>9. told = list'.calls[j]
    BY DEF told
  <2> QED
    BY <2>4, <2>7, <2>8, <2>9 DEF AnswerOK
<1> QED
  BY <1>14, <1>15, <1>16, <1>17 DEF SliceOK

LEMMA FailCallKeeps ==
  ASSUME SliceOK, FailCall
  PROVE  SliceOK'
<1>1. /\ list.calls # <<>>
      /\ list' = Given(list, 1, "failed", NoAnswer)
      /\ UNCHANGED <<host, server, deleted, unread, notices, connected, active, sends, acked>>
      /\ spent' = IF connected THEN [spent EXCEPT !.events = @ + 1, !.faults = @ + 1] ELSE spent
  BY DEF FailCall, source, Given
<1>2. Control(host, list) /\ HostOK
  BY DEF SliceOK
<1>3. 1 \in DOMAIN list.calls /\ list.calls[1] \in Call
  BY <1>1, <1>2, PoppedIs DEF PoppedWell
<1>4. NoAnswer \in Answers
  BY DEF NoAnswer, Answers
<1>5. /\ Control(host, list')
      /\ list'.query = list.query /\ list'.window = list.window /\ list'.overlay = list.overlay
      /\ list'.dirty = list.dirty /\ list'.failed = list.failed /\ list'.stale = list.stale
      /\ list'.loading = list.loading
      /\ DOMAIN list'.calls = DOMAIN list.calls
      /\ list'.calls[1] = [list.calls[1] EXCEPT !.state = "failed", !.answer = NoAnswer]
      /\ \A j \in DOMAIN list.calls : j # 1 => list'.calls[j] = list.calls[j]
  <2>1. "failed" \in {"answered", "failed"} /\ Control(host, list)
    BY <1>2
  <2>2. Answered(host, list, 1, "failed", NoAnswer, list')
    BY <1>1, <1>3, <1>4, <2>1, GivenIs
  <2> QED
    BY <2>2 DEF Answered
<1>6. list'.calls[1].state = "failed"
  BY <1>3, <1>5 DEF Call
<1>7. Steady(list, list')
  BY <1>5, <1>6 DEF Steady, ListHeard
<1>8. OverlayOK(deleted, list'.overlay)
  BY <1>5 DEF SliceOK
<1>9. HostOK'
  <2>1. spent' \in [events : Nat, intents : Nat, faults : Nat]
    <3>1. spent \in Used
      BY <1>2 DEF HostOK, Used
    <3> QED
      BY <1>1, <3>1, UsedMore DEF Used
  <2> QED
    BY <1>1, <1>2, <2>1, HostRests DEF HostOK
<1> QED
  BY <1>1, <1>5, <1>7, <1>8, <1>9, SteadySlice DEF SliceOK

-----------------------------------------------------------------------------
(* The user and the frames *)

\* The source and the sends rest, and the list moves.
LEMMA ListMoves ==
  ASSUME SliceOK, Control(host, list'), Steady(list, list') \/ Restarted(list, list'),
         OverlayOK(deleted, list'.overlay),
         UNCHANGED <<host, server, deleted, notices, connected, sends, acked>>,
         unread' \subseteq Conversations, active' \in BOOLEAN, spent' \in Used
  PROVE  SliceOK'
<1>1. HostOK'
  BY HostRests DEF SliceOK, HostOK, Used
<1>2. Control(host, list)' /\ OverlayOK(deleted, list.overlay)' /\ WindowOK' /\ AnswersOK'
  BY MovedSlice
<1> QED
  BY <1>1, <1>2 DEF SliceOK

LEMMA Typed ==
  ASSUME HostOK
  PROVE  unread \subseteq Conversations /\ active \in BOOLEAN /\ spent \in Used
BY DEF HostOK, Used

LEMMA FrameKeeps ==
  ASSUME SliceOK, DecideFrame
  PROVE  SliceOK'
<1> DEFINE seen == host = "messages" => active
<1>1. /\ list' = Decide(list, seen) /\ unread' \subseteq unread
      /\ UNCHANGED <<host, server, deleted, notices, connected, active, sends, acked, spent>>
  BY DEF DecideFrame, Show
<1>2. Control(host, list) /\ HostOK /\ OverlayOK(deleted, list.overlay)
  BY DEF SliceOK
<1>3. seen \in BOOLEAN
  OBVIOUS
<1> HIDE DEF seen
<1>4. Control(host, list') /\ (Steady(list, list') \/ Restarted(list, list')) /\ Weathered(list, list')
  BY <1>1, <1>2, <1>3, DecideMoves
<1>5. list.overlay \in SUBSET Entry
  BY <1>2 DEF Control, List
<1>6. OverlayOK(deleted, list'.overlay)
  BY <1>2, <1>4, <1>5, WeatheredOK
<1> QED
  BY <1>1, <1>2, <1>4, <1>6, Typed, ListMoves

LEMMA ScrollKeeps ==
  ASSUME SliceOK, Scroll
  PROVE  SliceOK'
<1>1. /\ \E near \in BOOLEAN, unblocked \in {{}, list.blocked} : list' = Scrolled(list, near, unblocked)
      /\ UNCHANGED <<host, server, deleted, unread, notices, connected, active, sends, acked, spent>>
  BY DEF Scroll, source
<1>2. Control(host, list) /\ HostOK /\ OverlayOK(deleted, list.overlay)
  BY DEF SliceOK
<1>3. Control(host, list') /\ Steady(list, list') /\ list'.overlay = list.overlay
  BY <1>1, <1>2, ScrolledSteady
<1> QED
  BY <1>1, <1>2, <1>3, Typed, ListMoves

LEMMA ReachKeeps ==
  ASSUME SliceOK, Reach
  PROVE  SliceOK'
<1>1. /\ \E edge \in Edges : MayLoadPage(list, edge) /\ list' = LoadPage(list, edge)
      /\ unread' \subseteq unread
      /\ UNCHANGED <<host, server, deleted, notices, connected, active, sends, acked, spent>>
  BY DEF Reach, Show
<1>2. Control(host, list) /\ HostOK /\ OverlayOK(deleted, list.overlay)
  BY DEF SliceOK
<1>3. Control(host, list') /\ Steady(list, list') /\ list'.overlay = list.overlay
  BY <1>1, <1>2, LoadPageSteady
<1> QED
  BY <1>1, <1>2, <1>3, Typed, ListMoves

LEMMA PillKeeps ==
  ASSUME SliceOK, ClickPill
  PROVE  SliceOK'
<1>1. /\ list' = CatchUp(list) /\ unread' \subseteq unread
      /\ UNCHANGED <<host, server, deleted, notices, connected, active, sends, acked, spent>>
  BY DEF ClickPill, Show
<1>2. Control(host, list) /\ HostOK /\ OverlayOK(deleted, list.overlay)
  BY DEF SliceOK
<1>3. Control(host, list') /\ (Steady(list, list') \/ Restarted(list, list')) /\ Weathered(list, list')
  BY <1>1, <1>2, CatchUpMoves
<1>4. list.overlay \in SUBSET Entry
  BY <1>2 DEF Control, List
<1>5. OverlayOK(deleted, list'.overlay)
  BY <1>2, <1>3, <1>4, WeatheredOK
<1> QED
  BY <1>1, <1>2, <1>3, <1>5, Typed, ListMoves

\* A list that hears that it may have missed something.
LEMMA NoticedIs ==
  ASSUME NEW h, NEW l, Control(h, l)
  PROVE  LET new == Invalidate(l, {}) IN
         Control(h, new) /\ Steady(l, new) /\ new.overlay = l.overlay /\ new.dirty
<1>1. {} \in SUBSET Messages
  OBVIOUS
<1> QED
  BY <1>1, InvalidateSteady

LEMMA SteadySame ==
  ASSUME NEW l
  PROVE  Steady(l, l)
BY DEF Steady

LEMMA SwitchKeeps ==
  ASSUME SliceOK, SwitchView
  PROVE  SliceOK'
<1>1. /\ list' = Invalidate(list, {}) \/ list' = list
      /\ active' = ~active /\ spent' = [spent EXCEPT !.events = @ + 1]
      /\ UNCHANGED <<host, server, deleted, unread, notices, connected, sends, acked>>
  BY DEF SwitchView, source
<1>2. Control(host, list) /\ HostOK /\ OverlayOK(deleted, list.overlay)
  BY DEF SliceOK
<1>3. Control(host, list') /\ Steady(list, list') /\ list'.overlay = list.overlay
  BY <1>1, <1>2, NoticedIs, SteadySame
<1>4. active' \in BOOLEAN /\ spent' \in Used /\ unread' \subseteq Conversations
  BY <1>1, <1>2, Typed, UsedMore
<1> QED
  BY <1>1, <1>2, <1>3, <1>4, ListMoves

\* A query that is opened restarts the list.
LEMMA OpenedKeeps ==
  ASSUME SliceOK, NEW query \in Queries, Anchored(query), list' = Reset(list, query),
         UNCHANGED <<host, server, deleted, notices, connected, sends, acked>>,
         unread' \subseteq Conversations, active' \in BOOLEAN, spent' \in Used
  PROVE  SliceOK'
<1>1. Control(host, list) /\ list \in List /\ IsFiniteSet(list.window.pages)
  BY DEF SliceOK, Control
<1>2. Control(host, list') /\ Restarted(list, list') /\ list'.overlay = {}
  BY <1>1, ResetRestarts
<1>3. OverlayOK(deleted, list'.overlay)
  BY <1>2 DEF OverlayOK
<1> QED
  BY <1>2, <1>3, ListMoves

LEMMA OpenKeeps ==
  ASSUME SliceOK, OpenConversation
  PROVE  SliceOK'
<1>1. PICK c \in Conversations : /\ list' = Reset(list, [conversation |-> c, around |-> NoMessage])
                                 /\ unread' = unread \ {c}
  BY DEF OpenConversation
<1>2. /\ spent' = [spent EXCEPT !.events = @ + 1, !.intents = @ + 1]
      /\ UNCHANGED <<host, server, deleted, notices, connected, active, sends, acked>>
  BY DEF OpenConversation
<1> DEFINE query == [conversation |-> c, around |-> NoMessage]
<1>3. query \in Queries /\ Anchored(query)
  BY HostAssumption DEF Anchored
<1>4. unread' \subseteq Conversations /\ active' \in BOOLEAN /\ spent' \in Used
  BY <1>1, <1>2, Typed, UsedMore DEF SliceOK
<1> QED
  BY <1>1, <1>2, <1>3, <1>4, OpenedKeeps

LEMMA JumpKeeps ==
  ASSUME SliceOK, JumpToMessage
  PROVE  SliceOK'
<1>1. PICK m \in Messages : /\ ConversationOf[m] = Open
                            /\ list' = Reset(list, [conversation |-> Open, around |-> m])
                            /\ unread' \subseteq unread
  BY DEF JumpToMessage, Show
<1>2. /\ spent' = [spent EXCEPT !.events = @ + 1, !.intents = @ + 1]
      /\ UNCHANGED <<host, server, deleted, notices, connected, active, sends, acked>>
  BY DEF JumpToMessage
<1> DEFINE query == [conversation |-> Open, around |-> m]
<1>3. query \in Queries
  <2>1. m \in Ids /\ ConversationOf[m] \in Conversations
    BY HostAssumption DEF Messages
  <2> QED
    BY <1>1, <2>1, HostAssumption
<1>4. Anchored(query)
  BY <1>1 DEF Anchored
<1>5. unread' \subseteq Conversations /\ active' \in BOOLEAN /\ spent' \in Used
  BY <1>1, <1>2, Typed, UsedMore DEF SliceOK
<1> QED
  BY <1>1, <1>2, <1>3, <1>4, <1>5, OpenedKeeps

-----------------------------------------------------------------------------
(* The source changes *)

\* Seqs have no bound, but there is a last one.
LEMMA TopIs ==
  ASSUME HostOK
  PROVE  Top \in Nat
<1> DEFINE S == {m \in Messages : server[m] > 0}
           F == [m \in S |-> server[m]]
           T == {F[m] : m \in S}
           seqs == {0} \cup {server[m] : m \in Messages}
<1>1. server \in [Messages -> Nat] /\ IsFiniteSet(S)
  BY DEF HostOK
<1>2. IsFiniteSet(T)
  <2>1. DOMAIN F = S
    OBVIOUS
  <2> HIDE DEF F, S
  <2> QED
    BY <1>1, <2>1, ImageFinite
<1>3. T \cup {0} = seqs
  <2>1. \A m \in Messages : m \in S \/ server[m] = 0
    BY <1>1
  <2>2. T = {server[m] : m \in S}
    OBVIOUS
  <2> HIDE DEF T
  <2> QED
    BY <2>1, <2>2
<1>4. IsFiniteSet(seqs)
  <2> HIDE DEF T, seqs
  <2> QED
    BY <1>2, <1>3, FS_AddElement
<1>5. seqs \in SUBSET Nat /\ seqs # {}
  BY <1>1
<1>6. Max(seqs) \in Nat
  <2> HIDE DEF seqs
  <2> QED
    BY <1>4, <1>5, MaxIs
<1> QED
  BY <1>6 DEF Top

\* The source has a fresh row where it may have had one.
LEMMA FreshRow ==
  ASSUME HostOK, NEW m \in Messages, server' = [server EXCEPT ![m] = Top + 1]
  PROVE  /\ server' \in [Messages -> Nat] /\ IsFiniteSet({k \in Messages : server'[k] > 0})
         /\ \A k \in Messages : server'[k] = (IF k = m THEN Top + 1 ELSE server[k])
         /\ server'[m] > 0
<1>1. Top \in Nat
  BY TopIs
<1> DEFINE top == Top + 1
           S == {k \in Messages : server[k] > 0}
           T == {k \in Messages : server'[k] > 0}
<1>2. top \in Nat /\ top > 0
  BY <1>1
<1> HIDE DEF top
<1>3. server \in [Messages -> Nat] /\ IsFiniteSet(S)
  BY DEF HostOK
<1>4. /\ server' \in [Messages -> Nat]
      /\ \A k \in Messages : server'[k] = (IF k = m THEN top ELSE server[k])
  BY <1>2, <1>3 DEF top
<1>5. T \subseteq S \cup {m}
  BY <1>4
<1>6. IsFiniteSet(T)
  <2> HIDE DEF S, T
  <2> QED
    BY <1>3, <1>5, FS_AddElement, FS_Subset
<1> QED
  BY <1>2, <1>4, <1>6 DEF top

\* The source has lost a row.
LEMMA LostRow ==
  ASSUME HostOK, NEW m \in Messages, server' = [server EXCEPT ![m] = 0]
  PROVE  /\ server' \in [Messages -> Nat] /\ IsFiniteSet({k \in Messages : server'[k] > 0})
         /\ \A k \in Messages : server'[k] = (IF k = m THEN 0 ELSE server[k])
<1> DEFINE S == {k \in Messages : server[k] > 0}
           T == {k \in Messages : server'[k] > 0}
<1>1. server \in [Messages -> Nat] /\ IsFiniteSet(S)
  BY DEF HostOK
<1>2. /\ server' \in [Messages -> Nat]
      /\ \A k \in Messages : server'[k] = (IF k = m THEN 0 ELSE server[k])
  BY <1>1
<1>3. T \subseteq S
  BY <1>2
<1>4. IsFiniteSet(T)
  <2> HIDE DEF S, T
  <2> QED
    BY <1>1, <1>3, FS_Subset
<1> QED
  BY <1>2, <1>4

\* The list has something to hear: nothing but what was sent is certain.
LEMMA NewsKeeps ==
  ASSUME SliceOK, host' = host, Steady(list, list'), ~Heard',
         \A m \in Messages : Sent(m)' => Sent(m) /\ server'[m] = server[m]
  PROVE  WindowOK' /\ AnswersOK'
<1>1. \A m \in Messages : ~Unchanged(m)'
  BY DEF Unchanged
<1> QED
  BY <1>1, SteadyKeeps

\* What others write, and what is taken from here, is news.
LEMMA FreshKeeps ==
  ASSUME SliceOK, NEW m \in Messages, host = "conversations" \/ IsNew(m),
         server' = [server EXCEPT ![m] = Top + 1],
         notices' = notices \cup {Changed(m)} \/ (~connected /\ notices' = notices),
         UNCHANGED <<host, deleted, connected, active, list, acked>>,
         unread' \subseteq Conversations, spent' \in Used,
         host # "messages" => sends' = {},
         \A s \in sends' : s \in sends \/ s.message = m
  PROVE  SliceOK'
<1>1. HostOK /\ Control(host, list) /\ OverlayOK(deleted, list.overlay)
  BY DEF SliceOK
<1>2. /\ server' \in [Messages -> Nat] /\ IsFiniteSet({k \in Messages : server'[k] > 0})
      /\ \A k \in Messages : server'[k] = (IF k = m THEN Top + 1 ELSE server[k])
      /\ server'[m] > 0
  BY <1>1, FreshRow
<1>3. m \notin deleted
  <2>1. CASE host = "conversations"
    BY <1>1, <2>1 DEF HostOK
  <2> QED
    BY <2>1 DEF IsNew
<1>4. ASSUME NEW k \in Messages
      PROVE  Taken(k) => Taken(k)'
  BY <1>2 DEF Taken
<1>5. \A n \in notices' : NoticeOK(n)'
  <2>1. Changed(m).kind = "changed"
    BY DEF Changed
  <2> QED
    BY <1>1, <2>1 DEF HostOK, NoticeOK
<1>6. notices' \subseteq [kind : {"changed", "deleted"}, id : Messages]
  BY <1>1 DEF HostOK, Changed
<1>7. \A s \in sends' : s.message \in Messages => Taken(s.message)'
  <2>1. Taken(m)'
    BY <1>2 DEF Taken
  <2> QED
    BY <1>1, <1>4, <2>1 DEF HostOK
<1>8. HostOK'
  <2>1. \A k \in deleted' : server'[k] = 0
    BY <1>1, <1>2, <1>3 DEF HostOK
  <2>2. \A k \in acked' \cap Messages : Taken(k)'
    BY <1>1, <1>4 DEF HostOK
  <2> QED
    BY <1>1, <1>2, <1>5, <1>6, <1>7, <2>1, <2>2 DEF HostOK, Used
<1>9. ~Heard'
  <2>1. Changed(m).kind = "changed"
    BY DEF Changed
  <2> QED
    BY <2>1 DEF Heard
<1>10. ASSUME NEW k \in Messages, Sent(k)'
       PROVE  Sent(k) /\ server'[k] = server[k]
  <2>1. host = "messages" /\ k \in acked /\ server'[k] > 0
    BY <1>10 DEF Sent
  <2>2. k # m
    <3>1. k = m => server[m] = 0 /\ Taken(m)
      BY <1>1, <2>1 DEF HostOK, IsNew
    <3> QED
      BY <1>3, <3>1 DEF Taken
  <2> QED
    BY <1>2, <2>1, <2>2 DEF Sent
<1>11. Steady(list, list')
  BY SteadySame
<1>12. WindowOK' /\ AnswersOK'
  BY <1>9, <1>10, <1>11, NewsKeeps
<1> QED
  BY <1>1, <1>8, <1>12 DEF SliceOK

LEMMA WriteKeeps ==
  ASSUME SliceOK, Write
  PROVE  SliceOK'
<1>1. PICK m \in Changing : (host = "conversations" \/ IsNew(m)) /\ Written(m)
  BY DEF Write
<1>2. /\ spent' = [spent EXCEPT !.events = @ + 1]
      /\ UNCHANGED <<host, deleted, connected, active, list, sends, acked>>
  BY DEF Write
<1>3. m \in Messages /\ ConversationOf[m] \in Conversations
  BY HostAssumption DEF Messages
<1>4. /\ server' = [server EXCEPT ![m] = Top + 1]
      /\ notices' = notices \cup {Changed(m)} \/ (~connected /\ notices' = notices)
      /\ unread' = unread \cup {ConversationOf[m]}
  <2>1. connected \in BOOLEAN
    BY DEF SliceOK, HostOK
  <2> QED
    BY <1>1, <2>1 DEF Written
<1>5. unread' \subseteq Conversations /\ spent' \in Used /\ (host # "messages" => sends' = {})
  BY <1>2, <1>3, <1>4, Typed, UsedMore DEF SliceOK, HostOK
<1> QED
  BY <1>1, <1>2, <1>3, <1>4, <1>5, FreshKeeps

\* A deleted message is gone, which its notice says.
LEMMA DeleteKeeps ==
  ASSUME SliceOK, Delete
  PROVE  SliceOK'
<1>1. PICK m \in Changing :
        /\ server[m] > 0
        /\ server' = [server EXCEPT ![m] = 0]
        /\ deleted' = IF host = "messages" THEN deleted \cup {m} ELSE deleted
        /\ notices' = IF ~connected THEN notices
                      ELSE notices \cup {[kind |-> IF host = "messages" THEN "deleted" ELSE "changed",
                                          id |-> m]}
  BY DEF Delete
<1>2. /\ spent' = [spent EXCEPT !.events = @ + 1]
      /\ UNCHANGED <<host, unread, connected, active, list, sends, acked>>
  BY DEF Delete
<1>3. m \in Messages
  BY HostAssumption
<1>4. HostOK /\ Control(host, list) /\ OverlayOK(deleted, list.overlay)
  BY DEF SliceOK
<1>5. /\ server' \in [Messages -> Nat] /\ IsFiniteSet({k \in Messages : server'[k] > 0})
      /\ \A k \in Messages : server'[k] = (IF k = m THEN 0 ELSE server[k])
  BY <1>1, <1>3, <1>4, LostRow
<1>6. Steady(list, list')
  BY <1>2, SteadySame
<1>7. Control(host, list)'
  BY <1>2, <1>4
<1>8. OverlayOK(deleted, list.overlay)'
  <2>1. deleted \subseteq deleted'
    BY <1>1
  <2> QED
    BY <1>2, <1>4, <2>1 DEF OverlayOK
<1>9. spent' \in Used
  BY <1>2, <1>4, Typed, UsedMore
<1>10. CASE host = "messages"
  <2> DEFINE n == [kind |-> "deleted", id |-> m]
  <2>1. deleted' = deleted \cup {m} /\ (notices' = notices \cup {n} \/ (~connected /\ notices' = notices))
    BY <1>1, <1>10
  <2>2. n.kind = "deleted" /\ n.id = m /\ n \in [kind : {"changed", "deleted"}, id : Messages]
    BY <1>3
  <2>3. \A k \in Messages : Taken(k) => Taken(k)'
    BY <1>5, <2>1 DEF Taken
  <2>4. \A k \in deleted' : server'[k] = 0
    BY <1>3, <1>4, <1>5, <2>1 DEF HostOK
  <2>5. \A k \in notices' : NoticeOK(k)'
    <3> HIDE DEF n
    <3> QED
      BY <1>2, <1>4, <1>10, <2>1, <2>2 DEF HostOK, NoticeOK
  <2>6. notices' \subseteq [kind : {"changed", "deleted"}, id : Messages]
    <3> HIDE DEF n
    <3> QED
      BY <1>4, <2>1, <2>2 DEF HostOK
  <2>7. HostOK'
    BY <1>2, <1>3, <1>4, <1>5, <1>9, <1>10, <2>1, <2>3, <2>4, <2>5, <2>6 DEF HostOK, Used
  <2>8. Heard' => Heard
    BY <1>2, <2>1 DEF Heard
  <2>9. ASSUME NEW k \in Messages, Unchanged(k)'
        PROVE  Unchanged(k) /\ server'[k] = server[k]
    <3>1. connected
      BY <1>2, <2>9 DEF Unchanged, Heard
    <3>2. k # m
      BY <2>1, <2>9, <3>1 DEF Unchanged
    <3>3. notices \subseteq notices'
      BY <2>1
    <3> QED
      BY <1>5, <2>8, <2>9, <3>2, <3>3 DEF Unchanged
  <2>10. ASSUME NEW k \in Messages, Sent(k)'
         PROVE  Sent(k) /\ server'[k] = server[k]
    BY <1>2, <1>5, <2>10 DEF Sent
  <2>11. WindowOK' /\ AnswersOK'
    BY <1>2, <1>6, <2>8, <2>9, <2>10, SteadyKeeps
  <2> QED
    BY <1>7, <1>8, <2>7, <2>11 DEF SliceOK
<1>11. CASE host # "messages"
  <2> DEFINE n == [kind |-> "changed", id |-> m]
  <2>1. deleted' = deleted /\ deleted = {} /\ sends = {} /\ acked = {}
        /\ (notices' = notices \cup {n} \/ (~connected /\ notices' = notices))
    BY <1>1, <1>4, <1>11 DEF HostOK
  <2>2. n.kind = "changed" /\ n \in [kind : {"changed", "deleted"}, id : Messages]
    BY <1>3
  <2> HIDE DEF n
  <2>3. \A k \in notices' : NoticeOK(k)'
    BY <1>2, <1>4, <2>1, <2>2 DEF HostOK, NoticeOK
  <2>4. notices' \subseteq [kind : {"changed", "deleted"}, id : Messages]
    BY <1>4, <2>1, <2>2 DEF HostOK
  <2>5. HostOK'
    BY <1>2, <1>4, <1>5, <1>9, <1>11, <2>1, <2>3, <2>4 DEF HostOK, Used
  <2>6. ~Heard'
    BY <1>2, <2>1, <2>2 DEF Heard
  <2>7. \A k \in Messages : ~Sent(k)'
    BY <1>2, <1>11 DEF Sent
  <2>8. WindowOK' /\ AnswersOK'
    BY <1>2, <1>6, <2>6, <2>7, NewsKeeps
  <2> QED
    BY <1>7, <1>8, <2>5, <2>8 DEF SliceOK
<1> QED
  BY <1>10, <1>11

-----------------------------------------------------------------------------
(* Notices and the connection *)

\* Notices are taken or lost, and the sends rest.
LEMMA NoticesRest ==
  ASSUME HostOK, UNCHANGED <<host, server, deleted, active, sends, acked>>,
         notices' \subseteq notices, connected' \in BOOLEAN,
         unread' \subseteq Conversations, spent' \in Used
  PROVE  HostOK'
BY DEF HostOK, NoticeOK, Taken, Used

LEMMA SentRests ==
  ASSUME UNCHANGED <<host, server, acked>>
  PROVE  \A m \in Messages : Sent(m)' => Sent(m) /\ server'[m] = server[m]
BY DEF Sent

LEMMA NoticeChangedKeeps ==
  ASSUME SliceOK, NoticeChanged
  PROVE  SliceOK'
<1>1. PICK n \in notices : /\ notices' = notices \ {n}
                           /\ list' = Invalidate(list, IF host = "messages" THEN {} ELSE {n.id})
                           /\ unread' \subseteq unread
  BY DEF NoticeChanged
<1>2. UNCHANGED <<host, server, deleted, connected, active, sends, acked, spent>>
  BY DEF NoticeChanged
<1>3. HostOK /\ Control(host, list) /\ OverlayOK(deleted, list.overlay)
  BY DEF SliceOK
<1> DEFINE targets == IF host = "messages" THEN {} ELSE {n.id}
<1>4. targets \in SUBSET Messages /\ (host = "messages" => targets = {})
  BY <1>3 DEF HostOK
<1> HIDE DEF targets
<1>5. Control(host, list') /\ Steady(list, list') /\ list'.overlay = list.overlay /\ list'.dirty
  BY <1>1, <1>3, <1>4, InvalidateSteady DEF targets
<1>6. HostOK'
  BY <1>1, <1>2, <1>3, Typed, NoticesRest DEF HostOK
<1>7. Control(host, list)' /\ OverlayOK(deleted, list.overlay)'
  BY <1>2, <1>3, <1>5
<1>8. ~Heard'
  BY <1>5 DEF Heard, ListHeard
<1>9. WindowOK' /\ AnswersOK'
  BY <1>2, <1>5, <1>8, SentRests, NewsKeeps
<1> QED
  BY <1>6, <1>7, <1>9 DEF SliceOK

LEMMA DisconnectKeeps ==
  ASSUME SliceOK, Disconnect
  PROVE  SliceOK'
<1>1. /\ connected' = FALSE /\ notices' = {}
      /\ spent' = [spent EXCEPT !.events = @ + 1, !.faults = @ + 1]
      /\ UNCHANGED <<host, server, deleted, unread, active, list, sends, acked>>
  BY DEF Disconnect, source
<1>2. HostOK /\ Control(host, list) /\ OverlayOK(deleted, list.overlay)
  BY DEF SliceOK
<1>3. HostOK'
  BY <1>1, <1>2, Typed, UsedMore, NoticesRest
<1>4. ~Heard'
  BY <1>1 DEF Heard
<1>5. WindowOK' /\ AnswersOK'
  BY <1>1, <1>4, SentRests, SteadySame, NewsKeeps
<1> QED
  BY <1>1, <1>2, <1>3, <1>5 DEF SliceOK

LEMMA ReconnectKeeps ==
  ASSUME SliceOK, Reconnect
  PROVE  SliceOK'
<1>1. /\ connected' = TRUE /\ list' = Invalidate(list, {})
      /\ UNCHANGED <<host, server, deleted, unread, notices, active, sends, acked, spent>>
  BY DEF Reconnect, source
<1>2. HostOK /\ Control(host, list) /\ OverlayOK(deleted, list.overlay)
  BY DEF SliceOK
<1>3. Control(host, list') /\ Steady(list, list') /\ list'.overlay = list.overlay /\ list'.dirty
  BY <1>1, <1>2, NoticedIs
<1>4. HostOK'
  BY <1>1, <1>2, Typed, NoticesRest
<1>5. ~Heard'
  BY <1>3 DEF Heard, ListHeard
<1>6. WindowOK' /\ AnswersOK'
  BY <1>1, <1>3, <1>5, SentRests, NewsKeeps
<1> QED
  BY <1>1, <1>2, <1>3, <1>4, <1>6 DEF SliceOK

\* A record is put over one row, or over one that is gone.
LEMMA RecordedOK ==
  ASSUME NEW gone, NEW overlay, OverlayOK(gone, overlay), NEW id, NEW row,
         \A r \in row : r.id = id,
         row # {} \/ id \notin Messages \/ id \in gone
  PROVE  OverlayOK(gone, Recorded(overlay, id, row))
BY DEF OverlayOK, Recorded

LEMMA NoticeDeletedKeeps ==
  ASSUME SliceOK, NoticeDeleted
  PROVE  SliceOK'
<1>1. PICK n \in notices : /\ n.kind = "deleted" /\ notices' = notices \ {n}
                           /\ list' \in RemoveLocal(list, n.id)
  BY DEF NoticeDeleted
<1>2. UNCHANGED <<host, server, deleted, unread, connected, active, sends, acked, spent>>
  BY DEF NoticeDeleted, source
<1>3. HostOK /\ Control(host, list) /\ OverlayOK(deleted, list.overlay)
  BY DEF SliceOK
<1>4. n \in [kind : {"changed", "deleted"}, id : Messages] /\ n.id \in Ids /\ n.id \in deleted
  BY <1>1, <1>3 DEF HostOK, NoticeOK, Messages
<1>5. /\ Control(host, list') /\ Steady(list, list')
      /\ n.id \in LocalIds(Settled(list'.overlay)) /\ list'.overlay = Drop(list.overlay, n.id)
  BY <1>1, <1>3, <1>4, RemoveLocalSteady
<1>6. OverlayOK(deleted, list'.overlay)
  BY <1>3, <1>4, <1>5, RecordedOK DEF Drop
<1>7. HostOK'
  BY <1>1, <1>2, <1>3, Typed, NoticesRest DEF HostOK
<1>8. Heard' => Heard
  BY <1>1, <1>2, <1>5 DEF Heard, Steady
<1>9. ASSUME NEW m \in Messages \ LocalIds(Settled(list'.overlay)), Unchanged(m)'
      PROVE  Unchanged(m)
  <2>1. m # n.id
    BY <1>5
  <2>2. [kind |-> "deleted", id |-> m] # n
    BY <2>1
  <2> QED
    BY <1>1, <1>8, <1>9, <2>2 DEF Unchanged
<1>10. WindowOK' /\ AnswersOK'
  BY <1>2, <1>5, <1>8, <1>9, SentRests, SteadyKeeps
<1> QED
  BY <1>2, <1>5, <1>6, <1>7, <1>10 DEF SliceOK

-----------------------------------------------------------------------------
(* Sends *)

Sending == [placeholder : Placeholders, conversation : Conversations,
            message : Messages \cup {NoMessage}]

\* What is put or dropped on top of the list, at the bottom of it.
LEMMA BottomSteady ==
  ASSUME NEW h, NEW l, NEW mid, Control(h, mid), Steady(l, mid), NEW new \in ToBottom(mid)
  PROVE  Control(h, new) /\ Steady(l, new) /\ new.overlay = mid.overlay
<1> DEFINE scrolled == Scrolled(mid, TRUE, {})
<1>1. TRUE \in BOOLEAN
  OBVIOUS
<1>2. Control(h, scrolled) /\ Steady(mid, scrolled) /\ scrolled.overlay = mid.overlay
  BY <1>1, ScrolledSteady
<1>3. Steady(l, scrolled)
  BY <1>2, SteadyTwice
<1>4. new = mid \/ new = scrolled
  BY BottomIs
<1> HIDE DEF scrolled
<1> QED
  BY <1>2, <1>3, <1>4

LEMMA SendKeeps ==
  ASSUME SliceOK, Send
  PROVE  SliceOK'
<1>1. /\ host = "messages" /\ spent' = [spent EXCEPT !.events = @ + 1]
      /\ UNCHANGED <<host, server, deleted, unread, notices, connected, active, acked>>
  BY DEF Send, source
<1>2. PICK p \in Placeholders :
        /\ list' \in ToBottom(UpsertLocal(list, [id |-> p, seq |-> 0]))
        /\ sends' = sends \cup {[placeholder |-> p, conversation |-> Open, message |-> NoMessage]}
  BY DEF Send
<1>3. HostOK /\ Control(host, list) /\ OverlayOK(deleted, list.overlay)
  BY DEF SliceOK
<1> DEFINE row == [id |-> p, seq |-> 0]
           new == [placeholder |-> p, conversation |-> Open, message |-> NoMessage]
           put == UpsertLocal(list, row)
<1>4. row \in Row /\ row.id = p /\ p \notin Messages
  BY HostAssumption DEF Row, Messages
<1>5. new.message \notin Messages
  BY HostAssumption DEF Messages
<1> HIDE DEF row, new
<1>6. Control(host, put) /\ Steady(list, put) /\ put.overlay = Put(list.overlay, row)
  BY <1>3, <1>4, UpsertLocalSteady
<1> HIDE DEF put
<1>7. Control(host, list') /\ Steady(list, list') /\ list'.overlay = Put(list.overlay, row)
  BY <1>2, <1>6, BottomSteady DEF put, row
<1>8. OverlayOK(deleted, list'.overlay)
  <2>1. \A r \in {row} : r.id = row.id
    OBVIOUS
  <2> QED
    BY <1>3, <1>4, <1>7, <2>1, RecordedOK DEF Put
<1>9. HostOK'
  <2>1. spent' \in Used
    BY <1>1, <1>3, Typed, UsedMore
  <2>2. \A s \in sends' : s.message \in Messages => Taken(s.message)'
    BY <1>1, <1>2, <1>3, <1>5 DEF HostOK, Taken, new
  <2> QED
    BY <1>1, <1>3, <2>1, <2>2 DEF HostOK, NoticeOK, Taken, Used
<1>10. WindowOK' /\ AnswersOK'
  BY <1>1, <1>7, <1>8, SteadySlice
<1> QED
  BY <1>1, <1>7, <1>8, <1>9, <1>10 DEF SliceOK

LEMMA ServeSendKeeps ==
  ASSUME SliceOK, SendsOK, ServeSend
  PROVE  SliceOK'
<1>1. PICK s \in sends, m \in Messages :
        /\ IsNew(m)
        /\ server' = [server EXCEPT ![m] = Top + 1]
        /\ notices' = notices \cup {Changed(m)}
        /\ sends' = (sends \ {s}) \cup {[s EXCEPT !.message = m]}
  BY DEF ServeSend
<1>2. UNCHANGED <<host, deleted, unread, connected, active, list, acked, spent>>
  BY DEF ServeSend
<1>3. HostOK
  BY DEF SliceOK
<1>4. s \in Sending
  BY <1>1 DEF SendsOK, Sending
<1>5. [s EXCEPT !.message = m].message = m
  BY <1>4 DEF Sending
<1>6. host = "messages"
  BY <1>3 DEF HostOK
<1>7. \A t \in sends' : t \in sends \/ t.message = m
  BY <1>1, <1>5
<1>8. unread' \subseteq Conversations /\ spent' \in Used
  BY <1>2, <1>3, Typed
<1> QED
  BY <1>1, <1>2, <1>6, <1>7, <1>8, FreshKeeps

\* A send is over: its message is where it was taken, and a record covers it.
LEMMA SentKeeps ==
  ASSUME SliceOK, NEW s \in sends, s.placeholder \in Placeholders,
         s.message \in Messages \cup {NoMessage}, sends' = sends \ {s},
         Control(host, list'), Steady(list, list'), OverlayOK(deleted, list'.overlay),
         \/ acked' = acked \cup {s.placeholder}
         \/ /\ acked' = acked \cup {s.placeholder, s.message}
            /\ s.message \in LocalIds(Settled(list'.overlay)),
         UNCHANGED <<host, server, deleted, unread, notices, connected, active>>,
         spent' \in Used
  PROVE  SliceOK'
<1>1. HostOK
  BY DEF SliceOK
<1>2. s.placeholder \notin Messages
  BY HostAssumption DEF Messages
<1>3. HostOK'
  <2>1. host = "messages"
    BY <1>1 DEF HostOK
  <2>2. \A m \in acked' \cap Messages : m \in acked \/ m = s.message
    BY <1>2
  <2>3. \A m \in acked' \cap Messages : Taken(m)'
    BY <1>1, <2>2 DEF HostOK, Taken
  <2>4. \A t \in sends' : t.message \in Messages => Taken(t.message)'
    BY <1>1 DEF HostOK, Taken
  <2> QED
    BY <1>1, <2>1, <2>3, <2>4 DEF HostOK, NoticeOK, Used
<1>4. Heard' => Heard
  BY DEF Heard, Steady
<1>5. ASSUME NEW m \in Messages \ LocalIds(Settled(list'.overlay))
      PROVE  /\ Sent(m)' => Sent(m) /\ server'[m] = server[m]
             /\ Unchanged(m)' => Unchanged(m) /\ server'[m] = server[m]
  BY <1>2, <1>4, <1>5 DEF Sent, Unchanged
<1>6. WindowOK' /\ AnswersOK'
  BY <1>4, <1>5, SteadyKeeps
<1> QED
  BY <1>3, <1>6 DEF SliceOK

LEMMA SendAnsweredKeeps ==
  ASSUME SliceOK, SendsOK, SendAnswered
  PROVE  SliceOK'
<1>1. PICK s \in sends :
        /\ s.message # NoMessage
        /\ sends' = sends \ {s} /\ acked' = acked \cup {s.placeholder, s.message}
        /\ \E l \in RemoveLocal(list, s.placeholder) :
             list' \in ToBottom(UpsertLocal(l, [id |-> s.message, seq |-> server[s.message]]))
  BY DEF SendAnswered
<1>2. UNCHANGED <<host, server, deleted, unread, notices, connected, active, spent>>
  BY DEF SendAnswered, source
<1>3. HostOK /\ Control(host, list) /\ OverlayOK(deleted, list.overlay)
  BY DEF SliceOK
<1>4. s \in Sending
  BY DEF SendsOK, Sending
<1>5. /\ s.placeholder \in Placeholders /\ s.message \in Messages
      /\ s.placeholder \in Ids /\ s.placeholder \notin Messages
  BY <1>1, <1>4, HostAssumption DEF Sending, Messages
<1> DEFINE row == [id |-> s.message, seq |-> server[s.message]]
<1>14. PICK gone \in RemoveLocal(list, s.placeholder) : list' \in ToBottom(UpsertLocal(gone, row))
  BY <1>1
<1> DEFINE put == UpsertLocal(gone, row)
<1>6. row \in Row /\ row.id = s.message
  <2>1. server[s.message] \in Nat /\ s.message \in Ids
    BY <1>3, <1>5 DEF HostOK, Messages
  <2> QED
    BY <2>1 DEF Row
<1> HIDE DEF row
<1>7. /\ Control(host, gone) /\ Steady(list, gone)
      /\ gone.overlay = Drop(list.overlay, s.placeholder)
  BY <1>3, <1>5, RemoveLocalSteady
<1>8. OverlayOK(deleted, gone.overlay)
  BY <1>3, <1>5, <1>7, RecordedOK DEF Drop
<1>9. /\ Control(host, put) /\ Steady(gone, put)
      /\ row.id \in LocalIds(Settled(put.overlay)) /\ put.overlay = Put(gone.overlay, row)
  BY <1>6, <1>7, UpsertLocalSteady
<1>10. OverlayOK(deleted, put.overlay)
  <2>1. \A r \in {row} : r.id = row.id
    OBVIOUS
  <2> QED
    BY <1>8, <1>9, <2>1, RecordedOK DEF Put
<1> HIDE DEF put
<1>11. Steady(list, put)
  BY <1>7, <1>9, SteadyTwice
<1>12. Control(host, list') /\ Steady(list, list') /\ list'.overlay = put.overlay
  BY <1>9, <1>11, <1>14, BottomSteady DEF put
<1>13. spent' \in Used
  BY <1>2, <1>3, Typed
<1> QED
  BY <1>1, <1>2, <1>5, <1>6, <1>9, <1>10, <1>12, <1>13, SentKeeps

LEMMA SendFailsKeeps ==
  ASSUME SliceOK, SendsOK, SendFails
  PROVE  SliceOK'
<1>1. PICK s \in sends : /\ sends' = sends \ {s} /\ acked' = acked \cup {s.placeholder}
                         /\ \E l \in RemoveLocal(list, s.placeholder) : list' \in ToBottom(l)
  BY DEF SendFails
<1>2. /\ UNCHANGED <<host, server, deleted, unread, notices, connected, active>>
      /\ spent' = IF connected THEN [spent EXCEPT !.events = @ + 1, !.faults = @ + 1] ELSE spent
  BY DEF SendFails, source
<1>3. HostOK /\ Control(host, list) /\ OverlayOK(deleted, list.overlay)
  BY DEF SliceOK
<1>4. s \in Sending
  BY DEF SendsOK, Sending
<1>5. /\ s.placeholder \in Placeholders /\ s.message \in Messages \cup {NoMessage}
      /\ s.placeholder \in Ids /\ s.placeholder \notin Messages
  BY <1>4, HostAssumption DEF Sending, Messages
<1>10. PICK gone \in RemoveLocal(list, s.placeholder) : list' \in ToBottom(gone)
  BY <1>1
<1>6. /\ Control(host, gone) /\ Steady(list, gone)
      /\ gone.overlay = Drop(list.overlay, s.placeholder)
  BY <1>3, <1>5, RemoveLocalSteady
<1>7. OverlayOK(deleted, gone.overlay)
  BY <1>3, <1>5, <1>6, RecordedOK DEF Drop
<1>8. Control(host, list') /\ Steady(list, list') /\ list'.overlay = gone.overlay
  BY <1>6, <1>10, BottomSteady
<1>9. spent' \in Used
  <2>1. spent \in Used
    BY <1>3, Typed
  <2> QED
    BY <1>2, <2>1, UsedMore
<1> QED
  BY <1>1, <1>2, <1>5, <1>7, <1>8, <1>9, SentKeeps

-----------------------------------------------------------------------------
(* Every step keeps what the window owes *)

LEMMA InitSliceOK ==
  ASSUME Init
  PROVE  SliceOK
<1>1. /\ host \in Hosts /\ server = InitialSeqs
      /\ deleted = {} /\ unread = {} /\ notices = {}
      /\ connected = TRUE /\ active = TRUE /\ sends = {} /\ acked = {}
      /\ spent = [events |-> 0, intents |-> 0, faults |-> 0]
  BY DEF Init
<1>2. PICK c \in Conversations :
        list = Reset(NewList([conversation |-> c, around |-> NoMessage]),
                     [conversation |-> c, around |-> NoMessage])
  BY DEF Init
<1> DEFINE query == [conversation |-> c, around |-> NoMessage]
           new == NewList(query)
<1>3. query \in Queries /\ Anchored(query)
  BY HostAssumption DEF Anchored
<1> HIDE DEF query
<1>4. new \in List /\ new.window = EmptyWindow
  <2>1. EmptyWindow \in Windows
    BY EmptyIsWindow DEF IsWindow
  <2> QED
    BY <1>3, <2>1 DEF NewList, List, Windows, Pages
<1>5. IsFiniteSet(new.window.pages)
  BY <1>4, FS_EmptySet DEF EmptyWindow
<1> HIDE DEF new
<1>6. /\ Control(host, list) /\ Restarted(new, list) /\ list.overlay = {}
  BY <1>2, <1>3, <1>4, <1>5, ResetRestarts DEF new, query
<1>7. /\ list.loading = "first" /\ list.window = EmptyWindow
      /\ \A i \in DOMAIN list.calls : list.calls[i].state = "sent"
  BY <1>4, <1>6 DEF Restarted
<1>8. HostOK
  <2>1. InitialSeqs \in [Messages -> Nat] /\ IsFiniteSet({m \in Messages : InitialSeqs[m] > 0})
    BY HostAssumption
  <2> QED
    BY <1>1, <2>1 DEF HostOK
<1>9. OverlayOK(deleted, list.overlay)
  BY <1>6 DEF OverlayOK
<1>10. WindowOK
  <2>1. PagesOK(list.window) /\ list.window.oldCursor = 0
    BY <1>7, EmptyIsWindow DEF EmptyWindow
  <2> QED
    BY <1>7, <2>1 DEF WindowOK, Current
<1>11. AnswersOK
  BY <1>7 DEF AnswersOK
<1> QED
  BY <1>6, <1>8, <1>9, <1>10, <1>11 DEF SliceOK

\* Nothing is read of the host's variables but what vars lists.
LEMMA StutterSliceOK ==
  ASSUME SliceOK, UNCHANGED vars
  PROVE  SliceOK'
<1>1. UNCHANGED <<host, server, deleted, unread, notices, connected, active, list, sends, acked, spent>>
  BY DEF vars, source
<1>2. HostOK /\ Control(host, list) /\ OverlayOK(deleted, list.overlay)
  BY DEF SliceOK
<1> QED
  BY <1>1, <1>2, SteadySame, Typed, ListMoves

LEMMA StepSliceOK ==
  ASSUME SliceOK, SendsOK, [Next]_vars
  PROVE  SliceOK'
<1>1. CASE Network
  BY <1>1, ServeKeeps, LandKeeps, FailCallKeeps, ServeSendKeeps, SendAnsweredKeeps,
     SendFailsKeeps DEF Network
<1>2. CASE Notices
  BY <1>2, NoticeChangedKeeps, NoticeDeletedKeeps, DisconnectKeeps, ReconnectKeeps DEF Notices
<1>3. CASE User
  BY <1>3, ScrollKeeps, ReachKeeps, PillKeeps, SwitchKeeps, OpenKeeps, JumpKeeps, SendKeeps DEF User
<1>4. CASE DecideFrame
  BY <1>4, FrameKeeps
<1>5. CASE Write \/ Delete
  BY <1>5, WriteKeeps, DeleteKeeps
<1>6. CASE UNCHANGED vars
  BY <1>6, StutterSliceOK
<1> QED
  BY <1>1, <1>2, <1>3, <1>4, <1>5, <1>6 DEF Next

-----------------------------------------------------------------------------
(* What follows from it *)

LEMMA SliceTypes ==
  ASSUME SliceOK, SendsOK
  PROVE  TypeOK
<1>1. HostOK /\ Control(host, list)
  BY DEF SliceOK
<1>2. list \in List /\ OneCall(host, list)
  BY <1>1 DEF Control
<1>3. list.query \in Queries /\ list.loading \in {"none", "first"} \cup Edges
      /\ list.calls \in Seq(Call)
  BY <1>2 DEF List
<1>4. \A i \in DOMAIN list.calls : list.calls[i].kind \in {"first", "targets"} \cup Edges
  <2>1. \A i \in DOMAIN list.calls : list.calls[i] \in Call
    BY <1>3
  <2> QED
    BY <2>1 DEF Call
<1> DEFINE kinds == {list.calls[i].kind : i \in DOMAIN list.calls}
<1>5. kinds \ {"targets"} = {list.loading} \ {"none"}
  <2>1. ASSUME NEW i \in DOMAIN list.calls, list.calls[i].kind # "targets"
        PROVE  list.calls[i].kind = list.loading /\ list.loading # "none"
    BY <1>2, <1>4, <2>1 DEF OneCall, CallOK, IsPageCall, Edges
  <2>2. list.loading # "none" => \E i \in DOMAIN list.calls : IsPageCall(list.calls[i])
    BY <1>2 DEF OneCall
  <2> QED
    BY <2>1, <2>2 DEF IsPageCall
<1> QED
  BY <1>1, <1>3, <1>5 DEF TypeOK, HostOK, SendsOK

LEMMA SliceShown ==
  ASSUME SliceOK, ListOK
  PROVE  BehindIsShown
<1>1. SUFFICES ASSUME Quiet, ~list.stale, ~list.failed
               PROVE  IsSlice
  BY DEF BehindIsShown
<1>2. connected /\ notices = {} /\ list.calls = <<>> /\ ~list.scheduled
  BY <1>1 DEF Quiet
<1>3. HostOK /\ Control(host, list) /\ WindowOK
  BY DEF SliceOK
<1>4. list.loading = "none"
  BY <1>2, <1>3 DEF Control, OneCall
<1>5. ~list.dirty
  BY <1>1, <1>2, <1>4 DEF ListOK, Remembers
<1>6. Heard /\ Current
  BY <1>1, <1>2, <1>4, <1>5 DEF Heard, ListHeard, Current
<1>7. \A m \in Messages \ LocalIds(list.overlay) : Shows(list.window, m, Own(m))
  BY <1>2, <1>3, <1>6 DEF WindowOK, Unchanged
<1> DEFINE w == list.window
           local == LocalIds(list.overlay)
           In(r) == InRange(w, r.seq)
<1>8. \A r \in RowsIn(w) : r.id \in Messages
  BY DEF ListOK, Keeps, WindowWithin, Within, RowsIn
<1>9. /\ \A r \in RowsOf(Open) : r.id \in Messages
      /\ \A m \in Messages : {r \in RowsOf(Open) : r.id = m} = Own(m)
  BY <1>3, RowsAre DEF Own
<1>10. {r \in RowsIn(w) : r.id \notin local} = {r \in {r \in RowsOf(Open) : r.id \notin local} : In(r)}
  <2>1. ASSUME NEW r, r.id \in Messages, r.id \notin local
        PROVE  r \in RowsIn(w) <=> r \in RowsOf(Open) /\ In(r)
    BY <1>7, <1>9, <2>1 DEF Shows
  <2> HIDE DEF In, w, local
  <2> QED
    BY <1>8, <1>9, <2>1
<1> QED
  BY <1>10 DEF IsSlice, InRange, LocalIds

LEMMA SliceSent ==
  ASSUME SliceOK
  PROVE  AckedStaysVisible
<1>1. SUFFICES ASSUME NEW m \in acked \cap Messages,
                      ConversationOf[m] = Open, server[m] > 0, list.window.pages # {},
                      ~list.window.moreFresh, server[m] >= list.window.oldCursor
               PROVE  m \in IdsOf(Visible(list))
  BY DEF AckedStaysVisible
<1>2. HostOK /\ WindowOK /\ OverlayOK(deleted, list.overlay)
  BY DEF SliceOK
<1>3. host = "messages" /\ Sent(m) /\ m \notin deleted
  BY <1>1, <1>2 DEF HostOK, Sent
<1>4. CASE m \in LocalIds(list.overlay)
  <2>1. PICK e \in list.overlay : e.id = m
    BY <1>4 DEF LocalIds
  <2>2. e.row # {} /\ \A r \in e.row : r.id = m
    BY <1>2, <1>3, <2>1 DEF OverlayOK
  <2>3. PICK r \in e.row : r.id = m
    BY <2>2
  <2> QED
    BY <2>1, <2>3 DEF Visible, Applied, IdsOf
<1>5. CASE m \notin LocalIds(list.overlay)
  <2>1. PagesOK(list.window) /\ list.window.oldCursor # 0
    BY <1>1, <1>2, <1>3 DEF WindowOK, PagesOK
  <2>2. Shows(list.window, m, Own(m))
    BY <1>2, <1>3, <1>5, <2>1 DEF WindowOK
  <2> DEFINE r == [id |-> m, seq |-> server[m]]
  <2>3. r \in Own(m) /\ r.id = m /\ InRange(list.window, r.seq)
    BY <1>1 DEF Own, RowAt, InRange
  <2>4. r \in RowsIn(list.window)
    BY <2>2, <2>3 DEF Shows
  <2>5. r \in Visible(list)
    BY <1>5, <2>3, <2>4 DEF Visible, Applied, LocalIds
  <2> QED
    BY <2>3, <2>5 DEF IdsOf
<1> QED
  BY <1>4, <1>5

-----------------------------------------------------------------------------
(* Who makes the user see a list as up to date *)

LEMMA RefreshStale ==
  ASSUME NEW l \in List, NEW pin \in BOOLEAN, l.stale
  PROVE  Refresh(l, pin).stale
<1>1. CASE l.loading = "first"
  BY <1>1 DEF Refresh, List
<1>2. CASE l.loading # "first"
  <2>1. RunFirstPage(l, FALSE, pin).stale
    BY FirstPageIs
  <2> QED
    BY <1>2, <2>1 DEF Refresh
<1> QED
  BY <1>1, <1>2

LEMMA CatchUpStale ==
  ASSUME NEW l \in List, Stages(l), l.stale
  PROVE  CatchUp(l).stale
BY RefreshStale DEF CatchUp, Stages

LEMMA DecideStale ==
  ASSUME NEW l \in List, NEW seen \in BOOLEAN, l.stale
  PROVE  Decide(l, seen).stale
<1> DEFINE due == [l EXCEPT !.scheduled = FALSE]
           shown == [due EXCEPT !.stale = TRUE]
           new == Decide(l, seen)
<1>1. due \in List /\ due.stale /\ shown.stale
  BY DEF List
<1>2. Refresh(due, FALSE).stale
  <2> HIDE DEF due
  <2> QED
    BY <1>1, RefreshStale
<1>3. RefreshIdentities(shown).stale
  <2>1. shown \in List
    BY DEF List
  <2> HIDE DEF shown
  <2> QED
    BY <1>1, <2>1 DEF RefreshIdentities, List
<1>4. CASE ~l.dirty \/ l.loading # "none"
  <2>1. new = due
    BY <1>4 DEF Decide
  <2> QED
    BY <1>1, <2>1
<1>5. CASE l.dirty /\ l.loading = "none" /\ ~seen
  <2>1. new = shown
    BY <1>5, Zenon DEF Decide
  <2> QED
    BY <1>1, <2>1
<1>6. CASE l.dirty /\ l.loading = "none" /\ seen /\ l.near
  <2>1. new = Refresh(due, FALSE)
    BY <1>6, Zenon DEF Decide
  <2> QED
    BY <1>2, <2>1
<1>7. CASE l.dirty /\ l.loading = "none" /\ seen /\ ~l.near
  <2>1. new = RefreshIdentities(shown)
    BY <1>7, Zenon DEF Decide
  <2> QED
    BY <1>3, <2>1
<1> QED
  BY <1>4, <1>5, <1>6, <1>7

\* Of all that lands, only a first page that is answered shows the list as caught up.
LEMMA LandedCaughtUp ==
  ASSUME SliceOK, Land, list.stale, ~list'.stale, ~list'.failed,
         list'.query.around = NoMessage
  PROVE  list'.loaded /\ ~list'.window.moreFresh
<1> DEFINE call == Head(list.calls)
<1>1. list.calls # <<>> /\ call.state # "sent" /\ list' \in Landed(Popped(list), call)
  BY DEF Land, Show, Popped
<1>2. Control(host, list)
  BY DEF SliceOK
<1>3. call \in Call /\ 1 \in DOMAIN list.calls /\ call = list.calls[1] /\ CallOK(host, list, call)
  BY <1>1, <1>2, PoppedIs DEF PoppedWell
<1>4. call.state # "failed"
  <2>1. SUFFICES ASSUME call.state = "failed"
                 PROVE  FALSE
    OBVIOUS
  <2>2. list' = Fails(Popped(list), call.kind)
    BY <1>1, <2>1 DEF Landed
  <2> QED
    BY <1>1, <1>2, <2>2, FailsSteady
<1>5. call.state = "answered" /\ list' \in Succeeds(Popped(list), call)
  BY <1>1, <1>3, <1>4 DEF Landed, Call
<1>6. AnswerOK(call)
  BY <1>3, <1>5 DEF SliceOK, AnswersOK
<1>7. call.answer \in Answers /\ IsFiniteSet(call.answer.rows)
  BY <1>3, <1>6 DEF Call, AnswerOK
<1>8. call.kind \notin Edges
  <2>1. SUFFICES ASSUME call.kind \in Edges
                 PROVE  FALSE
    OBVIOUS
  <2>2. call.kind # "first" /\ call.kind # "targets"
    BY <2>1 DEF Edges
  <2>3. list' \in PageLands(Popped(list), call.kind, call.answer)
    BY <1>5, <2>1, <2>2 DEF Succeeds
  <2> QED
    BY <1>1, <1>2, <1>7, <2>1, <2>3, PageLanded
<1>9. call.kind # "targets"
  <2>1. SUFFICES ASSUME call.kind = "targets"
                 PROVE  FALSE
    OBVIOUS
  <2>2. list' = TargetsLand(Popped(list), call.targets, call.answer)
    BY <1>5, <2>1 DEF Succeeds, Edges
  <2> QED
    BY <1>1, <1>2, <1>7, <2>1, <2>2, TargetsLanded
<1>10. call.kind = "first"
  BY <1>3, <1>8, <1>9 DEF Call
<1>11. list' \in FirstPageLands(Popped(list), call.answer)
  BY <1>5, <1>10 DEF Succeeds, Edges
<1>12. list'.loaded /\ list'.query = list.query /\ list'.window = FirstPage(call.answer)
  BY <1>1, <1>2, <1>7, <1>10, <1>11, FirstPageLanded
<1>13. call.query.around = NoMessage
  BY <1>3, <1>12 DEF CallOK
<1>14. ~call.answer.moreFresh
  BY <1>6, <1>10, <1>13 DEF AnswerOK
<1> QED
  BY <1>12, <1>14 DEF FirstPage

LEMMA StepClears ==
  ASSUME SliceOK, [Next]_vars, ClearedByCatchUp, list'.query.around = NoMessage
  PROVE  list'.loaded /\ ~list'.failed /\ ~list'.window.moreFresh
<1>1. Open \in unread /\ Open \notin unread' /\ list.stale /\ ~list'.stale
      /\ spent'.intents = spent.intents
  BY DEF ClearedByCatchUp
<1>2. Control(host, list) /\ list \in List /\ Stages(list) /\ HostOK
  BY DEF SliceOK, Control
<1>3. CASE Land
  <2>1. ~list'.failed
    BY <1>1, <1>3 DEF Land, Show, CaughtUp
  <2> QED
    BY <1>1, <1>3, <2>1, LandedCaughtUp
<1>4. CASE DecideFrame
  <2> DEFINE seen == host = "messages" => active
  <2>1. list' = Decide(list, seen) /\ seen \in BOOLEAN
    BY <1>4 DEF DecideFrame, Show
  <2> HIDE DEF seen
  <2> QED
    BY <1>1, <1>2, <2>1, DecideStale
<1>5. CASE ClickPill
  BY <1>1, <1>2, <1>5, CatchUpStale DEF ClickPill, Show
<1>6. CASE Reach
  BY <1>1, <1>2, <1>6 DEF Reach, Show, LoadPage, List
<1>7. CASE NoticeChanged
  BY <1>1, <1>2, <1>7 DEF NoticeChanged, Invalidate, List
<1>8. CASE OpenConversation \/ JumpToMessage
  <2>1. spent' = [spent EXCEPT !.events = @ + 1, !.intents = @ + 1]
    BY <1>8 DEF OpenConversation, JumpToMessage
  <2>2. spent \in [events : Nat, intents : Nat, faults : Nat]
    BY <1>2 DEF HostOK
  <2>3. spent'.intents = spent.intents + 1 /\ spent.intents \in Nat
    BY <2>1, <2>2
  <2> QED
    BY <1>1, <2>3
<1>9. CASE Write
  BY <1>1, <1>9 DEF Write, Written
<1>10. CASE \/ Serve \/ FailCall \/ ServeSend \/ SendAnswered \/ SendFails
            \/ NoticeDeleted \/ Disconnect \/ Reconnect \/ Delete
            \/ Scroll \/ SwitchView \/ Send \/ UNCHANGED vars
  <2>1. unread' = unread
    BY <1>10 DEF Serve, FailCall, ServeSend, SendAnswered, SendFails, NoticeDeleted, Disconnect,
       Reconnect, Delete, Scroll, SwitchView, Send, vars, source
  <2> QED
    BY <1>1, <2>1
<1> QED
  BY <1>3, <1>4, <1>5, <1>6, <1>7, <1>8, <1>9, <1>10 DEF Next, Network, Notices, User

-----------------------------------------------------------------------------
(* Theorems *)

LEMMA AlwaysListOK == Spec => []ListOK
<1>1. Init => ListOK
  BY InitOK
<1>2. ListOK /\ [Next]_vars => ListOK'
  BY StepOK
<1>3. QED
  BY <1>1, <1>2, PTL DEF Spec

\* Whatever the order of notices, pages, failures and scrolling, a notice that
\* no first page has covered is being worked on, due for a decision, or shown.
THEOREM NoticesNeverForgotten == Spec => []NeverForgotten
<1>1. ListOK => NeverForgotten
  BY DEF ListOK, Remembers, NeverForgotten
<1>2. QED
  BY <1>1, AlwaysListOK, PTL

\* However late the calls of earlier conversations land, the window holds
\* messages of the open conversation only.
THEOREM WindowAlwaysOfOpen == Spec => []WindowOfOpen
<1>1. ListOK => WindowOfOpen
  BY DEF ListOK, Keeps, WindowWithin, Within, WindowOfOpen, RowsIn, Open
<1>2. QED
  BY <1>1, AlwaysListOK, PTL

LEMMA AlwaysSendsOK == Spec => []SendsOK
<1>1. Init => SendsOK
  BY InitSendsOK
<1>2. ListOK /\ SendsOK /\ [Next]_vars => SendsOK'
  BY StepSendsOK
<1>3. QED
  BY <1>1, <1>2, AlwaysListOK, PTL DEF Spec

\* Whatever happens to a send and to the list meanwhile, a placeholder that is
\* on the screen stands for a send that is still unanswered.
THEOREM PlaceholdersNeverOrphaned == Spec => []NoOrphanPlaceholder
<1>1. ListOK /\ SendsOK => NoOrphanPlaceholder
  <2>1. ListOK => \A r \in RowsIn(list.window) : r.id \notin Placeholders
    BY DEF ListOK, Keeps, WindowWithin, Within, RowsIn, Messages
  <2>2. SendsOK => \A e \in list.overlay : \A r \in e.row :
          r.id \in Placeholders => r.id \in Standing
    BY DEF SendsOK, Stands
  <2>3. ASSUME NEW r \in Visible(list)
        PROVE  r \in RowsIn(list.window) \/ \E e \in list.overlay : r \in e.row
    BY DEF Visible, Applied
  <2>4. QED
    BY <2>1, <2>2, <2>3 DEF NoOrphanPlaceholder, Standing
<1>2. QED
  BY <1>1, AlwaysListOK, AlwaysSendsOK, PTL

LEMMA AlwaysSliceOK == Spec => []SliceOK
<1>1. Init => SliceOK
  BY InitSliceOK
<1>2. SliceOK /\ SendsOK /\ [Next]_vars => SliceOK'
  BY StepSliceOK
<1>3. QED
  BY <1>1, <1>2, AlwaysSendsOK, PTL DEF Spec

\* The variables keep their types, and whatever is asked for, answered or failed,
\* at most one call for a page is out, the one that loading names.
THEOREM ListAlwaysTyped == Spec => []TypeOK
<1>1. SliceOK /\ SendsOK => TypeOK
  BY SliceTypes
<1>2. QED
  BY <1>1, AlwaysSliceOK, AlwaysSendsOK, PTL

\* However pages, evictions, deletions, notices and disconnects interleave, a list
\* at rest is a slice of its source, or tells the user that it may not be.
THEOREM BehindAlwaysShown == Spec => []BehindIsShown
<1>1. SliceOK /\ ListOK => BehindIsShown
  BY SliceShown
<1>2. QED
  BY <1>1, AlwaysSliceOK, AlwaysListOK, PTL

\* Whichever first page lands after the answer of a send, asked for before or after
\* it, the message stays visible where the window reaches its place.
THEOREM AckedAlwaysVisible == Spec => []AckedStaysVisible
<1>1. SliceOK => AckedStaysVisible
  BY SliceSent
<1>2. QED
  BY <1>1, AlwaysSliceOK, PTL

\* The unread of the open conversation falls with stale only when a newest page has
\* landed: no failure, page at an edge, decision or click makes it fall.
THEOREM AlwaysClearedWithNewest == Spec => ClearedWithNewest
<1>1. ASSUME SliceOK, [Next]_vars
      PROVE  [ClearedByCatchUp /\ list'.query.around = NoMessage
              => list'.loaded /\ ~list'.failed /\ ~list'.window.moreFresh]_vars
  BY <1>1, StepClears
<1>2. QED
  BY <1>1, AlwaysSliceOK, PTL DEF Spec, ClearedWithNewest
=============================================================================
