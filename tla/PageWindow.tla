----------------------------- MODULE PageWindow -----------------------------
(***************************************************************************)
(* The two layers a bounded list renders (packages/uikit/src/app/          *)
(* bounded-list): the window of whole pages the source has answered        *)
(* (page-window.ts) and the overlay of local writes (overlay.ts).          *)
(*                                                                         *)
(* A list has an old edge and a fresh edge; whether the fresh edge is the  *)
(* backward one ('desc') or the forward one ('asc') only mirrors it.  A    *)
(* row is an identity and the seq that orders it, which is also its        *)
(* cursor; 0 is the empty cursor.  A source answers a continuation with    *)
(* rows strictly beyond the cursor, so the pages of a window are ordered   *)
(* by their start and are kept as a set.                                   *)
(***************************************************************************)
EXTENDS Integers, FiniteSets, FiniteSetsExt

CONSTANTS Ids,       \* the identities of rows
          PageSize,  \* rows of one page
          MaxPages   \* pages of one window

ASSUME PageAssumption ==
  /\ Ids # {}
  /\ PageSize \in Nat \ {0}
  /\ MaxPages \in Nat \ {0}

Edges == {"old", "fresh"}

Row == [id : Ids, seq : Nat]

IdsOf(rows) == {r.id : r \in rows}

StartOf(rows) == IF rows = {} THEN 0 ELSE Min({r.seq : r \in rows})

EndOf(rows) == IF rows = {} THEN 0 ELSE Max({r.seq : r \in rows})

-----------------------------------------------------------------------------
(* PageWindow *)

\* A page keeps the cursors it came with when some of its rows are dropped.
PageOf(rows) == [rows |-> rows, start |-> StartOf(rows), end |-> EndOf(rows)]

\* PageLoadResult: what a source answers.
Answers == [rows : SUBSET Row, moreOld : BOOLEAN, moreFresh : BOOLEAN]

EmptyWindow ==
  [pages |-> {}, moreOld |-> FALSE, moreFresh |-> FALSE,
   oldCursor |-> 0, freshCursor |-> 0]

RowsIn(w) == UNION {p.rows : p \in w.pages}

HasMore(w, edge) == IF edge = "old" THEN w.moreOld ELSE w.moreFresh

CursorFor(w, edge) == IF edge = "old" THEN w.oldCursor ELSE w.freshCursor

\* setFirstPage
FirstPage(answer) ==
  [pages       |-> IF answer.rows = {} THEN {} ELSE {PageOf(answer.rows)},
   moreOld     |-> answer.moreOld,
   moreFresh   |-> answer.moreFresh,
   oldCursor   |-> StartOf(answer.rows),
   freshCursor |-> EndOf(answer.rows)]

\* dropIdentities and dropEmptyPages
Dropped(pages, ids) ==
  {p \in {[q EXCEPT !.rows = {r \in @ : r.id \notin ids}] : q \in pages} : p.rows # {}}

\* Mutant: the edge that lost its page does not learn that there is more.
EvictedSilently(w, edge) ==
  IF Cardinality(w.pages) <= MaxPages THEN w
  ELSE [w EXCEPT !.pages = @ \ {CHOOSE p \in @ : \A q \in @ : IF edge = "old" THEN q.start <= p.start
                                                           ELSE p.start <= q.start}]

\* evict: beyond MaxPages the page at the other edge goes, and that edge
\* continues from the page that is now its last.
Evicted(w, edge) ==
  IF Cardinality(w.pages) <= MaxPages THEN w
  ELSE IF edge = "old"
  THEN LET last == CHOOSE p \in w.pages : \A q \in w.pages : q.start <= p.start
           kept == w.pages \ {last}
       IN  [w EXCEPT !.pages = kept, !.moreFresh = TRUE,
                     !.freshCursor = Max({p.end : p \in kept})]
  ELSE LET first == CHOOSE p \in w.pages : \A q \in w.pages : p.start <= q.start
           kept == w.pages \ {first}
       IN  [w EXCEPT !.pages = kept, !.moreOld = TRUE,
                     !.oldCursor = Min({p.start : p \in kept})]

\* extend: an empty page ends the edge whatever has_more says.
Extended(w, edge, answer) ==
  LET empty == answer.rows = {}
      pages == Dropped(w.pages, IdsOf(answer.rows))
               \cup (IF empty THEN {} ELSE {PageOf(answer.rows)})
  IN  Evicted(
        IF edge = "old"
        THEN [w EXCEPT !.pages = pages, !.moreOld = ~empty /\ answer.moreOld,
                       !.oldCursor = IF empty THEN @ ELSE StartOf(answer.rows)]
        ELSE [w EXCEPT !.pages = pages, !.moreFresh = ~empty /\ answer.moreFresh,
                       !.freshCursor = IF empty THEN @ ELSE EndOf(answer.rows)],
        edge)

\* replace and remove, for every identity a targeted refresh asked for: the
\* ones found are replaced where they stand, the others are removed.
Refreshed(w, ids, found) ==
  LET Now(r) == IF r.id \in ids
                THEN {f \in found : f.id = r.id}
                ELSE {r}
  IN  [w EXCEPT !.pages =
         {p \in {[q EXCEPT !.rows = UNION {Now(r) : r \in @}] : q \in w.pages} :
            p.rows # {}}]

-----------------------------------------------------------------------------
(* LocalOverlay *)

\* A record puts a row at the fresh edge, or drops the identity (no row); it is
\* settled by a first page that was requested after it.
Entry == [id : Ids, row : SUBSET Row, covered : BOOLEAN]

\* record (the limit of the overlay, a page, is not reached)
Recorded(overlay, id, row) ==
  {e \in overlay : e.id # id} \cup {[id |-> id, row |-> row, covered |-> FALSE]}

Put(overlay, row) == Recorded(overlay, row.id, {row})

Drop(overlay, id) == Recorded(overlay, id, {})

\* mark, taken when a first page is requested
Covered(overlay) == {[e EXCEPT !.covered = TRUE] : e \in overlay}

\* Mutant: the answer of a first page settles every record.
SettledAll(overlay) == {}

\* settle
Settled(overlay) == {e \in overlay : ~e.covered}

\* apply: the rows rendered.
Applied(rows, overlay) ==
  {r \in rows : r.id \notin {e.id : e \in overlay}} \cup UNION {e.row : e \in overlay}
=============================================================================
