---------------------------- MODULE BoundedList ----------------------------
(***************************************************************************)
(* BoundedList (packages/uikit/src/app/bounded-list/bounded-list.ts), the  *)
(* one list component of the UI: a record, and an operator for each of its *)
(* methods, which a host composes into its steps.                          *)
(*                                                                         *)
(* A list has at most one request for a page in flight (loading).  A first *)
(* page advances the generation; a call captures it when it is issued and  *)
(* lands without any effect once it is obsolete, so calls holds the ones   *)
(* of the current generation.  dirty says that a notice has not been       *)
(* covered by a first page, stale that the user is shown so.               *)
(***************************************************************************)
EXTENDS PageWindow, Sequences

CONSTANT Queries  \* what a host may ask of its source

NoAnswer == [rows |-> {}, moreOld |-> FALSE, moreFresh |-> FALSE]

\* A call of the source (or of fetchByIdentity), until it lands.
Call == [kind : {"first", "targets"} \cup Edges, query : Queries, cursor : Nat,
         targets : SUBSET Ids,
         state : {"sent", "answered", "failed"}, answer : Answers]

\* near is what atFreshEdge computes from the layout, stuck what it was when
\* the layout had last been left alone; stuck and pin are kept while a first
\* page is in flight, the only time they are read.  slid is history: the list
\* came near its fresh edge by a repaint, and no scroll event has told so.
List == [query : Queries, window : [pages : SUBSET [rows : SUBSET Row, start : Nat, end : Nat],
                                    moreOld : BOOLEAN, moreFresh : BOOLEAN,
                                    oldCursor : Nat, freshCursor : Nat],
         overlay : SUBSET Entry, calls : Seq(Call),
         loading : {"none", "first"} \cup Edges, blocked : SUBSET Edges,
         targets : SUBSET Ids, loaded : BOOLEAN, failed : BOOLEAN,
         dirty : BOOLEAN, stale : BOOLEAN, scheduled : BOOLEAN,
         near : BOOLEAN, slid : BOOLEAN, stuck : BOOLEAN, pin : BOOLEAN]

\* The constructor.
NewList(query) ==
  [query |-> query, window |-> EmptyWindow, overlay |-> {}, calls |-> <<>>,
   loading |-> "none", blocked |-> {}, targets |-> {}, loaded |-> FALSE,
   failed |-> FALSE, dirty |-> FALSE, stale |-> FALSE, scheduled |-> FALSE,
   near |-> TRUE, slid |-> FALSE, stuck |-> FALSE, pin |-> FALSE]

\* visibleItems (a host without pinnedItems)
Visible(l) == Applied(RowsIn(l.window), l.overlay)

Issued(l, kind, cursor, targets) ==
  Append(l.calls, [kind |-> kind, query |-> l.query, cursor |-> cursor,
                   targets |-> targets, state |-> "sent",
                   answer |-> NoAnswer])

-----------------------------------------------------------------------------
(* Loading *)

\* Mutant: the answers of earlier generations are not discarded.
OutdatedKept(calls) == calls

\* isObsolete: what is left of the calls when the generation advances.
Outdated(calls) == <<>>

\* runFirstPage, up to its await.
RunFirstPage(l, clear, pin) ==
  LET kept == IF clear
              THEN [l EXCEPT !.window = EmptyWindow, !.overlay = {},
                             !.loaded = FALSE, !.stale = FALSE, !.near = TRUE]
              ELSE [l EXCEPT !.overlay = Covered(@)]
      next == [kept EXCEPT !.calls = Outdated(@), !.loading = "first",
                           !.pin = pin, !.blocked = {}, !.targets = {},
                           !.dirty = FALSE, !.failed = FALSE, !.slid = FALSE,
                           !.stuck = pin \/ l.near]
  IN  [next EXCEPT !.calls = Issued(next, "first", 0, {})]

\* reset
Reset(l, query) == RunFirstPage([l EXCEPT !.query = query], TRUE, TRUE)

\* refresh: a first page in flight is shared, and takes over the wish to pin.
Refresh(l, pin) ==
  IF l.loading = "first" THEN [l EXCEPT !.pin = @ \/ pin] ELSE RunFirstPage(l, FALSE, pin)

\* catchUp
CatchUp(l) == IF l.loaded THEN Refresh(l, TRUE) ELSE Reset(l, l.query)

Stuck(l, near) == l.loading = "first" /\ near

\* Mutant: what arrived during the request is taken to be covered by it.
SettleFirstPageCovers(l, failed) ==
  [l EXCEPT !.loading = "none", !.loaded = TRUE, !.failed = failed,
            !.stuck = FALSE, !.pin = FALSE, !.dirty = FALSE, !.stale = FALSE]

\* settleFirstPage
SettleFirstPage(l, failed) ==
  [l EXCEPT !.loading = "none", !.loaded = TRUE, !.failed = failed,
            !.stuck = FALSE, !.pin = FALSE, !.scheduled = @ \/ l.dirty, !.stale = @ /\ l.dirty]

\* Mutant: a page is asked for while another one is in flight.
MayLoadPageAgain(l, edge) ==
  /\ l.loaded
  /\ edge \notin l.blocked
  /\ HasMore(l.window, edge)
  /\ CursorFor(l.window, edge) # 0

\* autoLoadMore and loadPage up to its await.
MayLoadPage(l, edge) ==
  /\ l.loaded
  /\ edge \notin l.blocked
  /\ l.loading = "none"
  /\ HasMore(l.window, edge)
  /\ CursorFor(l.window, edge) # 0

LoadPage(l, edge) ==
  [l EXCEPT !.loading = edge, !.calls = Issued(l, edge, CursorFor(l.window, edge), {})]

\* refreshIdentities up to its await.
RefreshIdentities(l) ==
  LET targets == l.targets \cap IdsOf(RowsIn(l.window))
  IN  [l EXCEPT !.targets = {},
                !.calls = IF targets = {} THEN @ ELSE Issued(l, "targets", 0, targets)]

-----------------------------------------------------------------------------
(* Calls that land *)

\* runFirstPage after its await; the layout moves unless it pins.
FirstPageLands(l, answer) ==
  {[SettleFirstPage(l, FALSE) EXCEPT !.window = FirstPage(answer),
                                     !.overlay = Settled(@), !.near = near, !.slid = FALSE] :
     near \in IF l.pin \/ l.stuck THEN {TRUE} ELSE BOOLEAN}

\* loadPage after its await.
PageLands(l, edge, answer) ==
  {[l EXCEPT !.window = Extended(@, edge, answer), !.loading = "none",
             !.blocked = @ \ {edge}, !.scheduled = @ \/ l.dirty,
             !.near = near, !.slid = FALSE] :
     near \in BOOLEAN}

\* Mutant: a notice that came during the request is left alone.
PageFailsQuietly(l, edge) == [l EXCEPT !.loading = "none", !.blocked = @ \cup {edge}]

\* loadPage when it fails: the edge is not tried again on its own.
PageFails(l, edge) ==
  [l EXCEPT !.loading = "none", !.blocked = @ \cup {edge}, !.scheduled = @ \/ l.dirty]

\* refreshIdentities after its await: what is not found has been deleted.
TargetsLand(l, targets, answer) ==
  [l EXCEPT !.window = Refreshed(@, targets, answer.rows)]

Fails(l, kind) ==
  CASE kind = "first"   -> SettleFirstPage(l, TRUE)
    [] kind = "targets" -> l
    [] kind \in Edges   -> PageFails(l, kind)

Succeeds(l, call) ==
  CASE call.kind = "first"   -> FirstPageLands(l, call.answer)
    [] call.kind = "targets" -> {TargetsLand(l, call.targets, call.answer)}
    [] call.kind \in Edges   -> PageLands(l, call.kind, call.answer)

\* The lists that the landing of call may leave.
Landed(l, call) ==
  IF call.state = "failed" THEN {Fails(l, call.kind)}
  ELSE Succeeds(l, call)

-----------------------------------------------------------------------------
(* Notices, local writes, scrolling *)

\* invalidate (the limit of the targets, a full window, is not reached)
Invalidate(l, targets) ==
  [l EXCEPT !.dirty = TRUE, !.targets = @ \cup targets, !.scheduled = TRUE]

\* decide, in the frame it was scheduled for.
Decide(l, active) ==
  LET due == [l EXCEPT !.scheduled = FALSE]
  IN  CASE ~l.dirty \/ l.loading # "none" -> due
        [] l.dirty /\ l.loading = "none" /\ ~active -> [due EXCEPT !.stale = TRUE]
        [] l.dirty /\ l.loading = "none" /\ active /\ l.near -> Refresh(due, FALSE)
        [] l.dirty /\ l.loading = "none" /\ active /\ ~l.near ->
             RefreshIdentities([due EXCEPT !.stale = TRUE])

\* upsertLocal
UpsertLocal(l, row) ==
  [l EXCEPT !.overlay = Put(@, row), !.targets = @ \ {row.id},
            !.stuck = Stuck(l, l.near)]

\* removeLocal: where a visible row goes, the content shrinks under a viewport
\* that stands still, and its fresh edge may come near without a scroll event.
RemoveLocal(l, id) ==
  {[l EXCEPT !.overlay = Drop(@, id), !.targets = @ \ {id},
             !.near = near, !.slid = @ \/ (near /\ ~l.near)] :
     near \in IF id \in IdsOf(Visible(l)) THEN {l.near, TRUE} ELSE {l.near}}

\* Mutant: scrolling back to the fresh edge does not decide again.
ScrolledQuietly(l, near, unblocked) ==
  [l EXCEPT !.near = near, !.slid = FALSE, !.stuck = Stuck(l, near), !.blocked = @ \ unblocked]

\* onScrollImmediate and onScrollFrame: the user moves to or from the fresh
\* edge, and leaves the reach of some edges.
Scrolled(l, near, unblocked) ==
  [l EXCEPT !.near = near, !.slid = FALSE, !.stuck = Stuck(l, near), !.blocked = @ \ unblocked,
            !.scheduled = @ \/ (near /\ l.dirty)]
=============================================================================
