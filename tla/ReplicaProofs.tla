--------------------------- MODULE ReplicaProofs ---------------------------
(***************************************************************************)
(* The local copy never misses a row that its cursor covers, and never     *)
(* keeps one that it will not hear of, for any number of domains, rows,    *)
(* writes, purges and faults and any size of the page.                     *)
(*                                                                         *)
(* NoneMissing and NoGhost speak of the copy and the server alone, and a   *)
(* page on its way can break both.  The inductive invariant InSync says    *)
(* what such a page is good for: its rows are the server's, or have        *)
(* changed in a way that the client will hear of from every cursor it may  *)
(* have by then (RowsKnown); what was asked for and is not on it lies      *)
(* above it (NoneSkipped); it says of every vanished row that it does not  *)
(* carry, if only by a cursor below the horizon (GhostsHeard); and while   *)
(* it is under way the copy is complete below the cursor (LacksNone).      *)
(*                                                                         *)
(* The proof has a lemma per kind of step of one domain (a write, a purge, *)
(* requests that come and go, a page that is read, a page that is applied) *)
(* and one per action of the model, which says what kind it is.            *)
(*                                                                         *)
(* InSync says that nothing is wrong with what arrives.  QuiescentSame also *)
(* needs that something arrives: NothingForgotten says of everything that a *)
(* copy lacks who will bring it (a notice, a flag, an actor's list, a      *)
(* request), until there is nothing left to bring.                         *)
(***************************************************************************)
EXTENDS LocalReplica, TLAPS, FiniteSetTheorems, SequenceTheorems

-----------------------------------------------------------------------------
(* The inductive invariant, for one domain: the server's table b, the local *)
(* copy t, the cursor c, the rebuild flag f and the requests w              *)

\* The answers that bring a page of domain d.
Pages(w, d) == {i \in DOMAIN w : w[i].domain = d /\ ~w[i].page.tooOld}

\* The page has a row, a live row of key k.
Carries(page, k) == \E r \in page.rows : r.key = k

Brings(page, k) == \E r \in page.rows : r.key = k /\ r.row.state = "live"

\* A sync from x will hear what became of row k: the row itself is above x, or it
\* is gone and the horizon is above x.
Heard(b, k, x) ==
  IF b.rows[k].state = "none" THEN x < b.safe ELSE x < b.rows[k].seq

\* A page has every row once, and none above its cursor.
IsPage(page) ==
  /\ \A r \in page.rows : 0 < r.row.seq /\ r.row.seq <= page.cursor /\ r.row.state # "none"
  /\ \A r, s \in page.rows : r.key = s.key => r = s

\* A row of the page at i that has changed since will be heard of from every cursor
\* that the domain may have by then; a tombstone may have been purged.
RowsKnown(w, d, b, c, i) ==
  \A r \in w[i].page.rows :
    \/ r.row = b.rows[r.key]
    \/ r.row.state = "deleted" /\ b.rows[r.key].state = "none"
    \/ /\ Heard(b, r.key, c)
       /\ \A j \in Pages(w, d) : j <= i => Heard(b, r.key, w[j].page.cursor)

\* A row that the page at i does not carry, though it was asked for, is above it.
NoneSkipped(w, b, i) ==
  \A k \in Keys :
    b.rows[k].state # "none" /\ w[i].last < b.rows[k].seq /\ ~Carries(w[i].page, k) =>
      w[i].page.cursor < b.rows[k].seq

\* The pages of d under way are true to the server.
Fetched(w, d, b, c) ==
  /\ c <= b.max
  /\ \A i \in Pages(w, d) :
       /\ IsPage(w[i].page) /\ w[i].page.cursor <= b.max
       /\ RowsKnown(w, d, b, c, i)
       /\ NoneSkipped(w, b, i)

\* The horizon is not asked for, or has been, before the next page of d.
Open(w, d, c, f) ==
  \/ Kind[d] # "relation" \/ c = 0 \/ f
  \/ \E i \in DOMAIN w : w[i].domain = d /\ (w[i].rebuild \/ w[i].state = "checked")

\* Row k is in the copy, or on its way there in one of the first n answers.
Comes(w, d, t, k, n) == t[k] # 0 \/ \E i \in Pages(w, d) : i <= n /\ Brings(w[i].page, k)

\* The server has no row of key k, not even a tombstone.
Gone(b, k) == b.rows[k].state = "none"

\* What the copy has, or will have, and the server has not.
GhostsHeard(w, d, b, t, c, f) ==
  /\ \A k \in Keys : t[k] # 0 /\ b.rows[k].state # "live" => Heard(b, k, c)
  /\ \A i \in Pages(w, d), k \in Keys :
       Comes(w, d, t, k, i - 1) /\ Gone(b, k) /\ ~Carries(w[i].page, k) =>
         w[i].page.cursor < b.safe
  /\ Open(w, d, c, f) => \A k \in Keys : Comes(w, d, t, k, Len(w)) => ~Gone(b, k)

\* A live row below the cursor that the copy has not.
Lacks(b, t, c, k) == b.rows[k].state = "live" /\ b.rows[k].seq <= c /\ t[k] # b.rows[k].seq

\* What the server has and the copy should have.
LacksNone(w, d, b, t, c, f) ==
  (\E k \in Keys : Lacks(b, t, c, k)) =>
    ~Open(w, d, c, f) /\ c < b.safe /\ Pages(w, d) = {}

\* A request r, the run of the actor it is from and the table it is for.
Fits(r, run, b) ==
  /\ run.pc = "waiting" /\ run.todo # <<>> /\ Head(run.todo) = r.domain
  /\ ~r.page.tooOld => r.state = "answered"
  /\ run.rebuild => r.rebuild
  /\ r.last = 0 => r.rebuild \/ Kind[r.domain] = "conversations"
  /\ r.rebuild => Kind[r.domain] # "conversations"
  /\ r.state = "sent" => Kind[r.domain] = "relation"
  /\ r.state = "answered" /\ r.page.tooOld =>
       Kind[r.domain] = "relation" /\ ~r.rebuild /\ r.last < b.safe

\* An actor has at most one request on the wire, and they are answered in order.
Line(w) ==
  /\ \A i, j \in DOMAIN w : w[i].from = w[j].from => i = j
  /\ \A i, j \in DOMAIN w : j < i /\ w[i].state = "answered" => w[j].state = "answered"

\* All that is on the wire.
Wired ==
  /\ Line(wire)
  /\ \A i \in DOMAIN wire : Fits(wire[i], runs[wire[i].from], server[wire[i].domain])

\* None of the windows of that kind was hit.
NoReset == "reset overlaps" \notin exposed

NoPurge == "unguarded purge" \notin exposed

NoLate == "late deletion" \notin exposed

\* Domain d: the requests ask for rows from the cursor or from below.
InStep(d) ==
  /\ Numbered(server[d])
  /\ Fetched(wire, d, server[d], cursor[d])
  /\ NoReset => \A i \in DOMAIN wire : wire[i].domain = d => wire[i].last <= cursor[d]
  /\ NoReset /\ NoPurge =>
       GhostsHeard(wire, d, server[d], table[d], cursor[d], rebuilding[d])
  /\ NoReset /\ NoLate =>
       LacksNone(wire, d, server[d], table[d], cursor[d], rebuilding[d])

\* The inductive invariant.
InSync == TypeOK /\ Wired /\ \A d \in Domains : InStep(d)

-----------------------------------------------------------------------------
(* The operators of the model *)

\* A bounded set of numbers that has elements has a greatest one.
LEMMA MaxIs ==
  ASSUME NEW S \in SUBSET Nat, S # {}, NEW m \in Nat, \A x \in S : x <= m
  PROVE  Max(S) \in S /\ \A x \in S : x <= Max(S)
<1> DEFINE U == {u \in Nat : \A x \in S : x <= u}
<1>1. PICK u \in U : \A v \in U : ~(v < u)
  <2>1. m \in U
    OBVIOUS
  <2>2. PICK u \in U : \A v \in U : <<v, u>> \notin OpToRel(<, Nat)
    BY <2>1, NatLessThanWellFounded, WFMin
  <2> QED
    BY <2>2 DEF OpToRel
<1>2. u \in S
  <2> SUFFICES ASSUME u \notin S PROVE FALSE
    OBVIOUS
  <2>1. \A x \in S : x < u
    BY <1>1
  <2>2. u - 1 \in U
    <3>1. PICK x \in S : x < u
      BY <2>1
    <3>2. u - 1 \in Nat
      BY <3>1
    <3>3. \A y \in S : y <= u - 1
      BY <2>1, <3>2
    <3> QED
      BY <3>2, <3>3
  <2> QED
    BY <1>1, <2>2
<1>3. \E x \in S : \A y \in S : x >= y
  BY <1>1, <1>2
<1> QED
  BY <1>3 DEF Max

\* The cursor is never moved back.
LEMMA SavedIs ==
  ASSUME NEW c \in Nat, NEW page, page.cursor \in Nat
  PROVE  /\ Saved(c, page) \in {c, page.cursor}
         /\ Saved(c, page) \in Nat
         /\ c <= Saved(c, page) /\ page.cursor <= Saved(c, page)
<1> DEFINE S == {c, page.cursor}
<1>1. S \in SUBSET Nat /\ S # {} /\ c + page.cursor \in Nat /\ \A x \in S : x <= c + page.cursor
  OBVIOUS
<1>2. Max(S) \in S /\ \A x \in S : x <= Max(S)
  BY <1>1, MaxIs
<1> QED
  BY <1>2 DEF Saved

\* A write changes one row, and gives it a seq above all others.
LEMMA WrittenIs ==
  ASSUME NEW b \in Box, Numbered(b), NEW k \in Keys, NEW state \in {"live", "deleted"}
  PROVE  LET n == Written(b, k, state)
         IN  /\ n \in Box /\ Numbered(n)
             /\ n.max = b.max + 1 /\ n.safe = b.safe
             /\ n.rows[k] = [seq |-> b.max + 1, state |-> state]
             /\ \A j \in Keys : j # k => n.rows[j] = b.rows[j]
<1> DEFINE n == Written(b, k, state)
<1>1. b.max \in Nat /\ b.safe \in Nat /\ b.rows \in [Keys -> Row]
  BY DEF Box
<1>2. [seq |-> b.max + 1, state |-> state] \in Row
  BY <1>1 DEF Row
<1> DEFINE rows == [b.rows EXCEPT ![k] = [seq |-> b.max + 1, state |-> state]]
<1>3. rows \in [Keys -> Row]
  BY <1>1, <1>2
<1>7. n = [b EXCEPT !.max = b.max + 1, !.rows = rows]
  BY DEF Written, Box
<1>4. n \in Box
  <2> DEFINE m == b.max + 1
  <2>1. m \in Nat
    BY <1>1
  <2> HIDE DEF rows, m
  <2>2. [b EXCEPT !.max = m, !.rows = rows] \in Box
    BY <1>1, <1>3, <2>1 DEF Box
  <2> QED
    BY <1>7, <2>2 DEF m
<1>5. /\ n.max = b.max + 1 /\ n.safe = b.safe
      /\ n.rows[k] = [seq |-> b.max + 1, state |-> state]
      /\ \A j \in Keys : j # k => n.rows[j] = b.rows[j]
  BY <1>1 DEF Box, Written
<1>6. Numbered(n)
  <2> SUFFICES ASSUME NEW j \in Keys
               PROVE  n.rows[j].seq <= n.max /\ (n.rows[j].seq = 0 <=> n.rows[j].state = "none")
    BY DEF Numbered
  <2>1. CASE j = k
    BY <1>1, <1>5, <2>1
  <2>2. CASE j # k
    <3>1. b.rows[j].seq <= b.max /\ (b.rows[j].seq = 0 <=> b.rows[j].state = "none")
      BY DEF Numbered
    <3>2. b.rows[j].seq \in Nat
      BY <1>1 DEF Row
    <3> QED
      BY <1>1, <1>5, <2>2, <3>1, <3>2
  <2> QED
    BY <2>1, <2>2
<1> QED
  BY <1>4, <1>5, <1>6

\* A purge takes the tombstones away and moves the horizon to the last of them.
LEMMA PurgedIs ==
  ASSUME NEW b \in Box, Numbered(b)
  PROVE  LET n == Purged(b)
         IN  /\ n \in Box /\ Numbered(n)
             /\ n.max = b.max /\ b.safe <= n.safe
             /\ \A k \in Keys :
                  IF b.rows[k].state = "deleted"
                  THEN n.rows[k] = NoRow /\ b.rows[k].seq <= n.safe
                  ELSE n.rows[k] = b.rows[k]
<1> DEFINE n == Purged(b)
           S == {b.safe} \cup {b.rows[k].seq : k \in Tombstones(b)}
<1>1. /\ b.max \in Nat /\ b.safe \in Nat /\ b.rows \in [Keys -> Row]
      /\ \A k \in Keys : b.rows[k].seq \in Nat
  BY DEF Box, Row
<1>2. S \in SUBSET Nat /\ S # {} /\ b.max + b.safe \in Nat /\ \A x \in S : x <= b.max + b.safe
  BY <1>1 DEF Numbered, Tombstones
<1>3. Max(S) \in Nat /\ \A x \in S : x <= Max(S)
  BY <1>2, MaxIs
<1> DEFINE rows == [k \in Keys |-> IF k \in Tombstones(b) THEN NoRow ELSE b.rows[k]]
           m == Max(S)
<1>10. n = [b EXCEPT !.safe = m, !.rows = rows]
  BY DEF Purged
<1> HIDE DEF S, m, rows
<1>4. n \in [max : Nat, safe : {m}, rows : {rows}] /\ n.max = b.max /\ n.safe = m /\ n.rows = rows
  BY <1>1, <1>10 DEF Box
<1>5. NoRow \in Row /\ NoRow.seq = 0 /\ NoRow.state = "none"
  BY DEF NoRow, Row
<1>6. n \in Box
  <2>1. rows \in [Keys -> Row]
    BY <1>1, <1>5 DEF rows
  <2> QED
    BY <1>1, <1>3, <1>4, <2>1 DEF Box, m
<1>7. b.safe \in S /\ \A k \in Tombstones(b) : b.rows[k].seq \in S
  BY DEF S
<1>8. \A k \in Keys : IF b.rows[k].state = "deleted"
                      THEN n.rows[k] = NoRow /\ b.rows[k].seq <= n.safe
                      ELSE n.rows[k] = b.rows[k]
  BY <1>3, <1>4, <1>7 DEF Tombstones, rows, m
<1>9. Numbered(n)
  <2> SUFFICES ASSUME NEW k \in Keys
               PROVE  n.rows[k].seq <= n.max /\ (n.rows[k].seq = 0 <=> n.rows[k].state = "none")
    BY DEF Numbered
  <2>1. b.rows[k].seq <= b.max /\ (b.rows[k].seq = 0 <=> b.rows[k].state = "none")
    BY DEF Numbered
  <2> QED
    BY <1>1, <1>4, <1>5, <1>8, <2>1
<1> QED
  BY <1>3, <1>4, <1>6, <1>7, <1>8, <1>9 DEF m

\* What a page brings, and what it leaves out.
LEMMA PageAfterIs ==
  ASSUME NEW b \in Box, Numbered(b), NEW last \in Nat
  PROVE  LET page == PageAfter(b, last)
         IN  /\ page \in Page /\ ~page.tooOld /\ IsPage(page) /\ page.cursor <= b.max
             /\ \A r \in page.rows : r.key \in Keys /\ r.row = b.rows[r.key]
             /\ \A k \in Keys : last < b.rows[k].seq /\ ~Carries(page, k) =>
                                 page.more /\ page.cursor < b.rows[k].seq
             /\ page.more => page.rows # {}
<1> DEFINE newer == {k \in Keys : b.rows[k].seq > last}
           below(k) == {j \in newer : b.rows[j].seq < b.rows[k].seq}
           chosen == {k \in newer : Cardinality(below(k)) < Limit}
           S == {0} \cup {b.rows[k].seq : k \in chosen}
           page == PageAfter(b, last)
<1>0. chosen \subseteq newer /\ newer \subseteq Keys /\ \A k \in newer : last < b.rows[k].seq
  OBVIOUS
<1>1. /\ page.tooOld = FALSE
      /\ page.rows = {[key |-> k, row |-> b.rows[k]] : k \in chosen}
      /\ page.more = (chosen # newer)
      /\ page.cursor = Max(S)
      /\ page = [tooOld |-> page.tooOld, rows |-> page.rows, more |-> page.more,
                 cursor |-> page.cursor]
  BY DEF PageAfter
<1>2. /\ b.max \in Nat /\ b.rows \in [Keys -> Row] /\ \A k \in Keys : b.rows[k].seq \in Nat
      /\ \A k \in Keys : b.rows[k].seq <= b.max /\ (b.rows[k].seq = 0 <=> b.rows[k].state = "none")
  BY DEF Box, Row, Numbered
<1>10. Limit \in Nat /\ Limit > 0
  BY ReplicaAssumption
<1>11. \A k \in Keys : IsFiniteSet(below(k)) /\ Cardinality(below(k)) \in Nat
  <2>1. IsFiniteSet(Keys)
    BY ReplicaAssumption
  <2>2. \A k \in Keys : below(k) \in SUBSET Keys
    OBVIOUS
  <2> QED
    BY <2>1, <2>2, FS_Subset, FS_CardinalityType
<1>15. \A k \in newer : k \notin chosen => Cardinality(below(k)) >= Limit
  BY <1>0, <1>10, <1>11
<1>16. \A k \in chosen : Cardinality(below(k)) < Limit
  OBVIOUS
<1>17. \A k \in newer : Cardinality(below(k)) < Limit => k \in chosen
  OBVIOUS
<1>18. \A j, k \in Keys : b.rows[k].seq <= b.rows[j].seq =>
                         Cardinality(below(k)) <= Cardinality(below(j))
  <2> SUFFICES ASSUME NEW j \in Keys, NEW k \in Keys, b.rows[k].seq <= b.rows[j].seq
               PROVE  Cardinality(below(k)) <= Cardinality(below(j))
    OBVIOUS
  <2>1. below(k) \in SUBSET below(j)
    BY <1>2
  <2> QED
    BY <1>11, <2>1, FS_Subset
<1>19. \A k \in newer : (\A j \in newer : ~(b.rows[j].seq < b.rows[k].seq)) =>
                       Cardinality(below(k)) = 0
  <2> SUFFICES ASSUME NEW k \in newer, \A j \in newer : ~(b.rows[j].seq < b.rows[k].seq)
               PROVE  Cardinality(below(k)) = 0
    OBVIOUS
  <2>1. below(k) = {}
    OBVIOUS
  <2> QED
    BY <2>1, FS_EmptySet
<1>20. newer = {k \in Keys : b.rows[k].seq > last}
  OBVIOUS
<1> HIDE DEF newer, below, chosen
<1>3. S \in SUBSET Nat /\ S # {} /\ \A x \in S : x <= b.max
  <2>1. \A k \in chosen : b.rows[k].seq \in Nat /\ b.rows[k].seq <= b.max
    BY <1>0, <1>2
  <2> QED
    BY <1>2, <2>1
<1>4. Max(S) \in S /\ \A x \in S : x <= Max(S)
  BY <1>2, <1>3, MaxIs
<1>21. \A k \in chosen : b.rows[k].seq \in S
  OBVIOUS
<1>22. \A x \in S : x = 0 \/ \E k \in chosen : x = b.rows[k].seq
  OBVIOUS
<1> HIDE DEF S, page
<1>5. page.cursor \in Nat /\ page.cursor <= b.max
  BY <1>1, <1>3, <1>4
<1>7. \A r \in page.rows : /\ r.key \in chosen /\ r.row = b.rows[r.key]
                           /\ r = [key |-> r.key, row |-> r.row]
  <2> SUFFICES ASSUME NEW r \in page.rows
               PROVE  /\ r.key \in chosen /\ r.row = b.rows[r.key]
                      /\ r = [key |-> r.key, row |-> r.row]
    OBVIOUS
  <2>1. PICK k \in chosen : r = [key |-> k, row |-> b.rows[k]]
    BY <1>1
  <2> QED
    BY <2>1
<1>6. page \in Page
  <2>1. \A r \in page.rows : r \in [key : Keys, row : Row]
    <3> SUFFICES ASSUME NEW r \in page.rows PROVE r \in [key : Keys, row : Row]
      OBVIOUS
    <3>1. r.key \in Keys /\ r.row \in Row /\ r = [key |-> r.key, row |-> r.row]
      BY <1>0, <1>2, <1>7
    <3> QED
      BY <3>1
  <2> QED
    BY <1>1, <1>5, <2>1 DEF Page
<1>8. \A k \in chosen : k \in Keys /\ last < b.rows[k].seq /\ Carries(page, k)
  <2>1. \A k \in chosen : [key |-> k, row |-> b.rows[k]] \in page.rows
    BY <1>1
  <2> QED
    BY <1>0, <2>1 DEF Carries
<1>9. IsPage(page)
  <2>1. ASSUME NEW r \in page.rows
        PROVE  0 < r.row.seq /\ r.row.seq <= page.cursor /\ r.row.state # "none"
    <3>1. r.key \in chosen /\ r.row = b.rows[r.key]
      BY <1>7
    <3>2. b.rows[r.key].seq \in S /\ r.key \in Keys /\ last < b.rows[r.key].seq
      BY <1>8, <1>21, <3>1
    <3>3. b.rows[r.key].seq <= page.cursor
      BY <1>1, <1>4, <3>2
    <3>4. b.rows[r.key].seq \in Nat /\ 0 < b.rows[r.key].seq
      BY <1>2, <3>2
    <3> QED
      BY <1>2, <3>1, <3>2, <3>3, <3>4
  <2>2. \A r, s \in page.rows : r.key = s.key => r = s
    BY <1>7
  <2> QED
    BY <2>1, <2>2 DEF IsPage
<1>12. ASSUME NEW k \in newer, k \notin chosen PROVE page.more /\ page.cursor < b.rows[k].seq
  <2>1. Cardinality(below(k)) >= Limit /\ k \in Keys /\ last < b.rows[k].seq
    BY <1>0, <1>12, <1>15
  <2>2. page.more
    BY <1>1, <1>12
  <2>3. ASSUME NEW j \in chosen PROVE b.rows[j].seq < b.rows[k].seq
    <3>1. j \in Keys /\ Cardinality(below(j)) < Limit
      BY <1>0, <1>16
    <3>2. Cardinality(below(j)) \in Nat /\ Cardinality(below(k)) \in Nat
      BY <1>11, <2>1, <3>1
    <3>3. ~(Cardinality(below(k)) <= Cardinality(below(j)))
      BY <1>10, <2>1, <3>1, <3>2
    <3>4. ~(b.rows[k].seq <= b.rows[j].seq)
      BY <1>18, <2>1, <3>1, <3>3
    <3>5. b.rows[k].seq \in Nat /\ b.rows[j].seq \in Nat
      BY <1>2, <2>1, <3>1
    <3> QED
      BY <3>4, <3>5
  <2>4. 0 < b.rows[k].seq
    BY <1>2, <2>1
  <2>5. \A x \in S : x < b.rows[k].seq
    BY <1>22, <2>3, <2>4
  <2> QED
    BY <1>1, <1>4, <2>2, <2>5
<1>13. \A k \in Keys : last < b.rows[k].seq /\ ~Carries(page, k) =>
                      page.more /\ page.cursor < b.rows[k].seq
  BY <1>2, <1>8, <1>12, <1>20
<1>14. ASSUME page.more PROVE page.rows # {}
  <2>1. PICK k \in newer : k \notin chosen
    <3>1. chosen # newer
      BY <1>1, <1>14
    <3> QED
      BY <1>0, <3>1
  <2>2. PICK l \in newer : \A j \in newer : ~(b.rows[j].seq < b.rows[l].seq)
    <3> DEFINE Q == {b.rows[j].seq : j \in newer}
    <3>1. Q # {} /\ Q \subseteq Nat
      BY <1>0, <1>2, <2>1
    <3>2. PICK x \in Q : \A y \in Q : <<y, x>> \notin OpToRel(<, Nat)
      BY <3>1, NatLessThanWellFounded, WFMin
    <3>3. \A y \in Q : ~(y < x)
      BY <3>1, <3>2 DEF OpToRel
    <3> QED
      BY <3>3
  <2>3. l \in chosen
    BY <1>10, <1>17, <1>19, <2>2
  <2> QED
    BY <1>1, <2>3
<1> QED
  BY <1>0, <1>1, <1>5, <1>6, <1>7, <1>9, <1>13, <1>14 DEF page

\* Applying a page sets the rows it carries and leaves the others.
LEMMA AppliedIs ==
  ASSUME NEW t \in [Keys -> Nat], NEW page \in Page, IsPage(page)
  PROVE  /\ Applied(t, page) \in [Keys -> Nat]
         /\ \A r \in page.rows :
              Applied(t, page)[r.key] = IF r.row.state = "live" THEN r.row.seq ELSE 0
         /\ \A k \in Keys : ~Carries(page, k) => Applied(t, page)[k] = t[k]
<1> DEFINE pick(k) == CHOOSE r \in page.rows : r.key = k
           n == Applied(t, page)
<1>1. \A k \in Keys : n[k] = IF Carries(page, k)
                             THEN IF pick(k).row.state = "live" THEN pick(k).row.seq ELSE 0
                             ELSE t[k]
  BY DEF Applied, Carries
<1>2. \A r \in page.rows : r.key \in Keys /\ r.row.seq \in Nat
  BY DEF Page, Row
<1>3. \A k \in Keys : Carries(page, k) => pick(k) \in page.rows /\ pick(k).key = k
  BY DEF Carries
<1>4. \A r \in page.rows : Carries(page, r.key) /\ pick(r.key) = r
  BY <1>2, <1>3 DEF Carries, IsPage
<1> HIDE DEF pick
<1>5. n \in [Keys -> Nat]
  <2>1. \A k \in Keys : n[k] \in Nat
    BY <1>1, <1>2, <1>3
  <2>2. DOMAIN n = Keys /\ n = [k \in Keys |-> n[k]]
    BY DEF Applied
  <2> QED
    BY <2>1, <2>2
<1> HIDE DEF n
<1>6. \A r \in page.rows : n[r.key] = IF r.row.state = "live" THEN r.row.seq ELSE 0
  BY <1>1, <1>2, <1>4
<1> QED
  BY <1>1, <1>5, <1>6 DEF n

-----------------------------------------------------------------------------
(* Steps of one domain: writes and purges on the server *)

\* The server's table from b to n: rows change only to seqs above all there were.
Wrote(b, n) ==
  /\ n \in Box /\ b.max <= n.max /\ n.safe = b.safe
  /\ \A k \in Keys : \/ n.rows[k] = b.rows[k]
                     \/ n.rows[k].state # "none" /\ b.max < n.rows[k].seq

\* What a request on the wire is made of.
LEMMA RequestIs ==
  ASSUME NEW w \in Seq(Request), NEW i \in DOMAIN w
  PROVE  /\ i \in Nat /\ i <= Len(w) /\ 0 < i
         /\ w[i].from \in Actors /\ w[i].domain \in Domains /\ w[i].last \in Nat
         /\ w[i].page \in Page /\ w[i].page.cursor \in Nat
         /\ w[i].page.tooOld \in BOOLEAN /\ w[i].rebuild \in BOOLEAN
         /\ w[i].state \in {"sent", "checked", "answered"}
         /\ \A r \in w[i].page.rows : r.key \in Keys /\ r.row \in Row
<1>1. Len(w) \in Nat /\ DOMAIN w = 1..Len(w)
  BY LenProperties
<1>2. w[i] \in Request
  BY <1>1, ElementOfSeq
<1>3. w[i].page \in Page
  BY <1>2 DEF Request
<1>4. \A r \in w[i].page.rows : r \in [key : Keys, row : Row]
  BY <1>3 DEF Page
<1>5. \A r \in w[i].page.rows : r.key \in Keys /\ r.row \in Row
  BY <1>4
<1>6. w[i].page.cursor \in Nat /\ w[i].page.tooOld \in BOOLEAN
  BY <1>3 DEF Page
<1> QED
  BY <1>1, <1>2, <1>3, <1>5, <1>6 DEF Request

\* A row of the server's table.
LEMMA RowIs ==
  ASSUME NEW b \in Box, NEW k \in Keys
  PROVE  /\ b.max \in Nat /\ b.safe \in Nat /\ b.rows[k].seq \in Nat
         /\ b.rows[k].state \in {"none", "live", "deleted"}
  BY DEF Box, Row

\* A write is heard of by whoever heard of the row before.
LEMMA HeardWrote ==
  ASSUME NEW b \in Box, NEW n, Wrote(b, n), NEW k \in Keys, NEW x \in Nat, x <= b.max,
         Heard(b, k, x) \/ n.rows[k] # b.rows[k]
  PROVE  Heard(n, k, x)
<1>1. n \in Box
  BY DEF Wrote
<1>2. CASE n.rows[k] = b.rows[k]
  BY <1>2 DEF Wrote, Heard
<1>3. CASE n.rows[k] # b.rows[k]
  <2>1. n.rows[k].state # "none" /\ b.max < n.rows[k].seq
    BY <1>3 DEF Wrote
  <2>2. b.max \in Nat /\ n.rows[k].seq \in Nat
    BY <1>1, RowIs
  <2> QED
    BY <2>1, <2>2 DEF Heard
<1> QED
  BY <1>2, <1>3

\* Pages under way stay true to the server when it writes.
LEMMA FetchedWrote ==
  ASSUME NEW d, NEW w \in Seq(Request), NEW b \in Box, NEW n, Wrote(b, n),
         NEW c \in Nat, Fetched(w, d, b, c)
  PROVE  Fetched(w, d, n, c)
<1>1. n \in Box /\ b.max \in Nat /\ n.max \in Nat /\ b.max <= n.max /\ c <= b.max
  BY DEF Wrote, Box, Fetched
<1>2. \A i \in Pages(w, d) : i \in DOMAIN w
  BY DEF Pages
<1>3. \A i \in Pages(w, d) : w[i].page.cursor \in Nat /\ w[i].page.cursor <= b.max
  BY <1>2, RequestIs DEF Fetched
<1>4. ASSUME NEW i \in Pages(w, d) PROVE RowsKnown(w, d, n, c, i)
  <2> SUFFICES ASSUME NEW r \in w[i].page.rows
               PROVE  \/ r.row = n.rows[r.key]
                      \/ r.row.state = "deleted" /\ n.rows[r.key].state = "none"
                      \/ /\ Heard(n, r.key, c)
                         /\ \A j \in Pages(w, d) : j <= i => Heard(n, r.key, w[j].page.cursor)
    BY DEF RowsKnown
  <2>1. r.key \in Keys
    BY <1>2, RequestIs
  <2>2. \/ r.row = b.rows[r.key]
        \/ r.row.state = "deleted" /\ b.rows[r.key].state = "none"
        \/ /\ Heard(b, r.key, c)
           /\ \A j \in Pages(w, d) : j <= i => Heard(b, r.key, w[j].page.cursor)
    BY DEF Fetched, RowsKnown
  <2>3. CASE n.rows[r.key] # b.rows[r.key]
    BY <1>1, <1>3, <2>1, <2>3, HeardWrote
  <2>4. CASE n.rows[r.key] = b.rows[r.key]
    <3>1. ASSUME Heard(b, r.key, c),
                 \A j \in Pages(w, d) : j <= i => Heard(b, r.key, w[j].page.cursor)
          PROVE  /\ Heard(n, r.key, c)
                 /\ \A j \in Pages(w, d) : j <= i => Heard(n, r.key, w[j].page.cursor)
      BY <1>1, <1>3, <2>1, <3>1, HeardWrote
    <3> QED
      BY <2>2, <2>4, <3>1
  <2> QED
    BY <2>3, <2>4
<1>5. ASSUME NEW i \in Pages(w, d) PROVE NoneSkipped(w, n, i)
  <2> SUFFICES ASSUME NEW k \in Keys, n.rows[k].state # "none", w[i].last < n.rows[k].seq,
                      ~Carries(w[i].page, k)
               PROVE  w[i].page.cursor < n.rows[k].seq
    BY DEF NoneSkipped
  <2>1. CASE n.rows[k] = b.rows[k]
    BY <2>1 DEF Fetched, NoneSkipped
  <2>2. CASE n.rows[k] # b.rows[k]
    <3>1. b.max < n.rows[k].seq /\ n.rows[k].seq \in Nat
      BY <1>1, <2>2, RowIs DEF Wrote
    <3> QED
      BY <1>1, <1>3, <3>1
  <2> QED
    BY <2>1, <2>2
<1>6. \A i \in Pages(w, d) : IsPage(w[i].page) /\ w[i].page.cursor <= n.max
  BY <1>1, <1>3 DEF Fetched
<1> QED
  BY <1>1, <1>4, <1>5, <1>6 DEF Fetched

\* What the copy has beyond the server will still be heard of when it writes.
LEMMA GhostsWrote ==
  ASSUME NEW d, NEW w \in Seq(Request), NEW b \in Box, NEW n, Wrote(b, n),
         NEW t, NEW c \in Nat, NEW f, c <= b.max, GhostsHeard(w, d, b, t, c, f)
  PROVE  GhostsHeard(w, d, n, t, c, f)
<1>1. \A k \in Keys : Gone(n, k) => Gone(b, k)
  BY DEF Wrote, Gone
<1>2. ASSUME NEW k \in Keys, t[k] # 0, n.rows[k].state # "live" PROVE Heard(n, k, c)
  <2>1. CASE n.rows[k] = b.rows[k]
    BY <1>2, <2>1, HeardWrote DEF GhostsHeard
  <2>2. CASE n.rows[k] # b.rows[k]
    BY <2>2, HeardWrote
  <2> QED
    BY <2>1, <2>2
<1>3. n.safe = b.safe
  BY DEF Wrote
<1> QED
  BY <1>1, <1>2, <1>3 DEF GhostsHeard

\* A write leaves the copy no more incomplete than it was.
LEMMA LacksWrote ==
  ASSUME NEW d, NEW w \in Seq(Request), NEW b \in Box, NEW n, Wrote(b, n),
         NEW t, NEW c \in Nat, NEW f, c <= b.max, LacksNone(w, d, b, t, c, f)
  PROVE  LacksNone(w, d, n, t, c, f)
<1>1. n.safe = b.safe
  BY DEF Wrote
<1>2. \A k \in Keys : Lacks(n, t, c, k) => Lacks(b, t, c, k)
  <2> SUFFICES ASSUME NEW k \in Keys, Lacks(n, t, c, k) PROVE Lacks(b, t, c, k)
    OBVIOUS
  <2>1. n.rows[k].seq <= c /\ n.rows[k].seq \in Nat /\ b.max \in Nat
    BY RowIs DEF Lacks, Wrote
  <2>2. n.rows[k] = b.rows[k]
    BY <2>1 DEF Wrote
  <2> QED
    BY <2>2 DEF Lacks
<1> QED
  BY <1>1, <1>2 DEF LacksNone

\* Whoever will hear of a tombstone will hear that it was purged.
LEMMA HeardPurged ==
  ASSUME NEW b \in Box, Numbered(b), NEW k \in Keys, NEW x \in Nat, Heard(b, k, x)
  PROVE  Heard(Purged(b), k, x)
<1> DEFINE n == Purged(b)
<1>1. /\ n \in Box /\ b.safe <= n.safe
      /\ IF b.rows[k].state = "deleted"
         THEN n.rows[k] = NoRow /\ b.rows[k].seq <= n.safe
         ELSE n.rows[k] = b.rows[k]
  BY PurgedIs
<1> HIDE DEF n
<1>2. b.safe \in Nat /\ n.safe \in Nat /\ b.rows[k].seq \in Nat
  BY <1>1, RowIs
<1> QED
  BY <1>1, <1>2 DEF Heard, NoRow, n

\* A purge leaves the pages under way true to the server, but for tombstones.
LEMMA FetchedPurged ==
  ASSUME NEW d, NEW w \in Seq(Request), NEW b \in Box, Numbered(b),
         NEW c \in Nat, Fetched(w, d, b, c)
  PROVE  Fetched(w, d, Purged(b), c)
<1> DEFINE n == Purged(b)
<1>1. /\ n \in Box /\ n.max = b.max
      /\ \A k \in Keys : IF b.rows[k].state = "deleted"
                         THEN n.rows[k] = NoRow
                         ELSE n.rows[k] = b.rows[k]
  BY PurgedIs
<1>2. \A k \in Keys, x \in Nat : Heard(b, k, x) => Heard(n, k, x)
  BY HeardPurged
<1> HIDE DEF n
<1>3. \A i \in Pages(w, d) : i \in DOMAIN w
  BY DEF Pages
<1>4. \A i \in Pages(w, d) : w[i].page.cursor \in Nat
  BY <1>3, RequestIs
<1>5. ASSUME NEW i \in Pages(w, d) PROVE RowsKnown(w, d, n, c, i)
  <2> SUFFICES ASSUME NEW r \in w[i].page.rows
               PROVE  \/ r.row = n.rows[r.key]
                      \/ r.row.state = "deleted" /\ n.rows[r.key].state = "none"
                      \/ /\ Heard(n, r.key, c)
                         /\ \A j \in Pages(w, d) : j <= i => Heard(n, r.key, w[j].page.cursor)
    BY DEF RowsKnown
  <2>1. r.key \in Keys
    BY <1>3, RequestIs
  <2>2. \/ r.row = b.rows[r.key]
        \/ r.row.state = "deleted" /\ b.rows[r.key].state = "none"
        \/ /\ Heard(b, r.key, c)
           /\ \A j \in Pages(w, d) : j <= i => Heard(b, r.key, w[j].page.cursor)
    BY DEF Fetched, RowsKnown
  <2>3. CASE r.row = b.rows[r.key]
    BY <1>1, <2>1, <2>3 DEF NoRow
  <2>4. CASE r.row.state = "deleted" /\ b.rows[r.key].state = "none"
    BY <1>1, <2>1, <2>4
  <2>5. CASE /\ Heard(b, r.key, c)
             /\ \A j \in Pages(w, d) : j <= i => Heard(b, r.key, w[j].page.cursor)
    BY <1>2, <1>4, <2>1, <2>5
  <2> QED
    BY <2>2, <2>3, <2>4, <2>5
<1>6. ASSUME NEW i \in Pages(w, d) PROVE NoneSkipped(w, n, i)
  BY <1>1 DEF Fetched, NoneSkipped, NoRow
<1> QED
  BY <1>1, <1>5, <1>6 DEF Fetched, n

\* A purge that falls into no unguarded sync: what it takes away from under the copy
\* is above every page that does not carry it.
LEMMA GhostsPurged ==
  ASSUME NEW d, NEW w \in Seq(Request), NEW b \in Box, Numbered(b), NEW t,
         NEW c \in Nat, NEW f, Fetched(w, d, b, c), GhostsHeard(w, d, b, t, c, f),
         \A i \in DOMAIN w : w[i].domain = d => w[i].last <= c,
         ~Open(w, d, c, f)
  PROVE  GhostsHeard(w, d, Purged(b), t, c, f)
<1> DEFINE n == Purged(b)
<1>1. /\ n \in Box /\ b.safe <= n.safe
      /\ \A k \in Keys : IF b.rows[k].state = "deleted"
                         THEN n.rows[k] = NoRow /\ b.rows[k].seq <= n.safe
                         ELSE n.rows[k] = b.rows[k]
  BY PurgedIs
<1>2. \A k \in Keys, x \in Nat : Heard(b, k, x) => Heard(n, k, x)
  BY HeardPurged
<1>3. b.safe \in Nat /\ n.safe \in Nat
  BY <1>1 DEF Box
<1> HIDE DEF n
<1>4. \A k \in Keys : t[k] # 0 /\ n.rows[k].state # "live" => Heard(n, k, c)
  BY <1>1, <1>2 DEF GhostsHeard
<1>5. ASSUME NEW i \in Pages(w, d), NEW k \in Keys,
             Comes(w, d, t, k, i - 1), Gone(n, k), ~Carries(w[i].page, k)
      PROVE  w[i].page.cursor < n.safe
  <2>1. i \in DOMAIN w /\ w[i].domain = d
    BY DEF Pages
  <2>2. w[i].page.cursor \in Nat /\ w[i].last \in Nat /\ w[i].last <= c
    BY <2>1, RequestIs
  <2>3. CASE Gone(b, k)
    <3>1. w[i].page.cursor < b.safe
      BY <1>5, <2>3 DEF GhostsHeard
    <3> QED
      BY <1>1, <1>3, <2>2, <3>1
  <2>4. CASE ~Gone(b, k)
    <3>1. b.rows[k].state = "deleted" /\ b.rows[k].seq <= n.safe /\ b.rows[k].seq \in Nat
      BY <1>1, <1>5, <2>4, RowIs DEF Gone
    <3>2. Heard(b, k, c)
      <4>1. CASE t[k] # 0
        BY <3>1, <4>1 DEF GhostsHeard
      <4>2. CASE t[k] = 0
        <5>1. PICK j \in Pages(w, d) : Brings(w[j].page, k)
          BY <1>5, <4>2 DEF Comes
        <5>2. PICK r \in w[j].page.rows : r.key = k /\ r.row.state = "live"
          BY <5>1 DEF Brings
        <5> QED
          BY <3>1, <5>2 DEF Fetched, RowsKnown
      <4> QED
        BY <4>1, <4>2
    <3>3. w[i].last < b.rows[k].seq
      BY <2>2, <3>1, <3>2 DEF Heard
    <3>4. w[i].page.cursor < b.rows[k].seq
      BY <1>5, <3>1, <3>3 DEF Fetched, NoneSkipped
    <3> QED
      BY <1>3, <2>2, <3>1, <3>4
  <2> QED
    BY <2>3, <2>4
<1> QED
  BY <1>4, <1>5 DEF GhostsHeard, n

\* A purge takes nothing that the copy should have.
LEMMA LacksPurged ==
  ASSUME NEW d, NEW w, NEW b \in Box, Numbered(b), NEW t,
         NEW c \in Nat, NEW f, LacksNone(w, d, b, t, c, f)
  PROVE  LacksNone(w, d, Purged(b), t, c, f)
<1> DEFINE n == Purged(b)
<1>1. /\ n \in Box /\ b.safe <= n.safe
      /\ \A k \in Keys : IF b.rows[k].state = "deleted"
                         THEN n.rows[k] = NoRow
                         ELSE n.rows[k] = b.rows[k]
  BY PurgedIs
<1>2. b.safe \in Nat /\ n.safe \in Nat
  BY <1>1 DEF Box
<1> HIDE DEF n
<1>3. \A k \in Keys : Lacks(n, t, c, k) => Lacks(b, t, c, k)
  BY <1>1 DEF Lacks, NoRow
<1> QED
  BY <1>1, <1>2, <1>3 DEF LacksNone, n

-----------------------------------------------------------------------------
(* Steps of one domain: requests come and go *)

\* Of the requests w some remain in v, in their order; m says which, and 0 stands
\* for a request that brings no page of d.
Thins(v, w, m, d) ==
  /\ m \in [DOMAIN v -> Nat]
  /\ \A i \in DOMAIN v : IF m[i] = 0 THEN v[i].domain # d \/ v[i].page.tooOld
                                     ELSE m[i] \in DOMAIN w /\ v[i] = w[m[i]]
  /\ \A i, j \in DOMAIN v : i < j /\ m[i] # 0 /\ m[j] # 0 => m[i] < m[j]

\* A page that remains was one before, behind those it was behind.
LEMMA PagesThin ==
  ASSUME NEW d, NEW w \in Seq(Request), NEW v \in Seq(Request), NEW m, Thins(v, w, m, d)
  PROVE  /\ \A i \in Pages(v, d) :
              /\ i \in Nat /\ i <= Len(v) /\ i \in DOMAIN v /\ m[i] \in DOMAIN w
              /\ m[i] \in Pages(w, d) /\ m[i] \in Nat /\ 0 < m[i] /\ m[i] <= Len(w)
              /\ v[i] = w[m[i]]
         /\ \A i, j \in Pages(v, d) : i < j => m[i] < m[j]
<1>1. ASSUME NEW i \in Pages(v, d)
      PROVE  /\ i \in Nat /\ i <= Len(v) /\ i \in DOMAIN v /\ m[i] \in DOMAIN w
             /\ m[i] \in Pages(w, d) /\ m[i] \in Nat /\ 0 < m[i] /\ m[i] <= Len(w)
             /\ v[i] = w[m[i]]
  <2>1. i \in DOMAIN v /\ v[i].domain = d /\ ~v[i].page.tooOld
    BY DEF Pages
  <2>2. m[i] \in DOMAIN w /\ v[i] = w[m[i]]
    BY <2>1 DEF Thins
  <2>3. m[i] \in Pages(w, d)
    BY <2>1, <2>2 DEF Pages
  <2> QED
    BY <2>1, <2>2, <2>3, RequestIs
<1>2. \A i, j \in Pages(v, d) : i < j => m[i] < m[j]
  BY <1>1 DEF Thins
<1> QED
  BY <1>1, <1>2

\* Whoever will hear of a row from x will hear of it from below x.
LEMMA HeardBelow ==
  ASSUME NEW b \in Box, NEW k \in Keys, NEW x \in Nat, NEW y \in Nat, y <= x, Heard(b, k, x)
  PROVE  Heard(b, k, y)
<1>1. b.safe \in Nat /\ b.rows[k].seq \in Nat
  BY RowIs
<1> QED
  BY <1>1 DEF Heard

\* The pages that remain stay true to the server, also when the cursor is put back.
LEMMA FetchedThins ==
  ASSUME NEW d, NEW w \in Seq(Request), NEW v \in Seq(Request), NEW m, Thins(v, w, m, d),
         NEW b \in Box, NEW c \in Nat, NEW x \in Nat, x <= c, Fetched(w, d, b, c)
  PROVE  Fetched(v, d, b, x)
<1>1. /\ \A i \in Pages(v, d) : /\ i \in Nat /\ m[i] \in Pages(w, d) /\ m[i] \in Nat
                                /\ m[i] \in DOMAIN w /\ v[i] = w[m[i]]
      /\ \A i, j \in Pages(v, d) : i < j => m[i] < m[j]
  BY PagesThin
<1>2. x <= b.max
  <2>1. c <= b.max /\ b.max \in Nat
    BY DEF Fetched, Box
  <2> QED
    BY <2>1
<1>3. ASSUME NEW i \in Pages(v, d) PROVE RowsKnown(v, d, b, x, i)
  <2> SUFFICES ASSUME NEW r \in v[i].page.rows
               PROVE  \/ r.row = b.rows[r.key]
                      \/ r.row.state = "deleted" /\ b.rows[r.key].state = "none"
                      \/ /\ Heard(b, r.key, x)
                         /\ \A j \in Pages(v, d) : j <= i => Heard(b, r.key, v[j].page.cursor)
    BY DEF RowsKnown
  <2>1. r \in w[m[i]].page.rows /\ r.key \in Keys
    BY <1>1, RequestIs
  <2>2. \/ r.row = b.rows[r.key]
        \/ r.row.state = "deleted" /\ b.rows[r.key].state = "none"
        \/ /\ Heard(b, r.key, c)
           /\ \A j \in Pages(w, d) : j <= m[i] => Heard(b, r.key, w[j].page.cursor)
    BY <1>1, <2>1 DEF Fetched, RowsKnown
  <2>3. ASSUME Heard(b, r.key, c) PROVE Heard(b, r.key, x)
    BY <2>1, <2>3, HeardBelow
  <2>4. \A j \in Pages(v, d) : j <= i => m[j] \in Pages(w, d) /\ m[j] <= m[i] /\ v[j] = w[m[j]]
    <3> SUFFICES ASSUME NEW j \in Pages(v, d), j <= i
                 PROVE  m[j] \in Pages(w, d) /\ m[j] <= m[i] /\ v[j] = w[m[j]]
      OBVIOUS
    <3>1. i \in Nat /\ j \in Nat /\ m[i] \in Nat /\ m[j] \in Nat
      BY <1>1
    <3>2. j = i \/ j < i
      BY <3>1
    <3> QED
      BY <1>1, <3>1, <3>2
  <2> QED
    BY <2>2, <2>3, <2>4
<1>4. ASSUME NEW i \in Pages(v, d)
      PROVE  NoneSkipped(v, b, i) /\ IsPage(v[i].page) /\ v[i].page.cursor <= b.max
  BY <1>1 DEF Fetched, NoneSkipped
<1> QED
  BY <1>2, <1>3, <1>4 DEF Fetched

\* With a cursor above the horizon no row is missing at the server that the copy
\* has or will get.
LEMMA NoneGone ==
  ASSUME NEW d, NEW w \in Seq(Request), NEW b \in Box, NEW t, NEW c \in Nat, NEW f,
         Fetched(w, d, b, c), GhostsHeard(w, d, b, t, c, f), b.safe <= c,
         NEW k \in Keys, NEW n, Comes(w, d, t, k, n)
  PROVE  ~Gone(b, k)
<1> SUFFICES ASSUME Gone(b, k) PROVE FALSE
  OBVIOUS
<1>1. b.safe \in Nat
  BY DEF Box
<1>2. Heard(b, k, c)
  <2>1. CASE t[k] # 0
    BY <2>1 DEF GhostsHeard, Gone
  <2>2. CASE t[k] = 0
    <3>1. PICK j \in Pages(w, d) : Brings(w[j].page, k)
      BY <2>2 DEF Comes
    <3>2. PICK r \in w[j].page.rows : r.key = k /\ r.row.state = "live"
      BY <3>1 DEF Brings
    <3> QED
      BY <3>2 DEF Fetched, RowsKnown, Gone
  <2> QED
    BY <2>1, <2>2
<1> QED
  BY <1>1, <1>2 DEF Heard, Gone

\* What comes by the pages that remain came before.
LEMMA ComesThins ==
  ASSUME NEW d, NEW w \in Seq(Request), NEW v \in Seq(Request), NEW m, Thins(v, w, m, d),
         NEW t, NEW k \in Keys
  PROVE  /\ Comes(v, d, t, k, Len(v)) => Comes(w, d, t, k, Len(w))
         /\ \A i \in Pages(v, d) : Comes(v, d, t, k, i - 1) => Comes(w, d, t, k, m[i] - 1)
<1>1. /\ \A i \in Pages(v, d) : /\ i \in Nat /\ m[i] \in Pages(w, d) /\ m[i] \in Nat
                                /\ m[i] <= Len(w) /\ v[i] = w[m[i]]
      /\ \A i, j \in Pages(v, d) : i < j => m[i] < m[j]
  BY PagesThin
<1>2. Comes(v, d, t, k, Len(v)) => Comes(w, d, t, k, Len(w))
  BY <1>1 DEF Comes
<1>3. ASSUME NEW i \in Pages(v, d), Comes(v, d, t, k, i - 1)
      PROVE  Comes(w, d, t, k, m[i] - 1)
  <2>1. CASE t[k] # 0
    BY <2>1 DEF Comes
  <2>2. CASE t[k] = 0
    <3>1. PICK j \in Pages(v, d) : j <= i - 1 /\ Brings(v[j].page, k)
      BY <1>3, <2>2 DEF Comes
    <3>2. i \in Nat /\ j \in Nat /\ m[i] \in Nat /\ m[j] \in Nat /\ m[j] \in Pages(w, d)
      BY <1>1
    <3>3. m[j] <= m[i] - 1
      BY <1>1, <3>1, <3>2
    <3> QED
      BY <1>1, <3>1, <3>2, <3>3 DEF Comes
  <2> QED
    BY <2>1, <2>2
<1> QED
  BY <1>2, <1>3

\* Requests that come and go leave the copy with no more than it had, unless they
\* leave the horizon out of account.
LEMMA GhostsThins ==
  ASSUME NEW d, NEW w \in Seq(Request), NEW v \in Seq(Request), NEW m, Thins(v, w, m, d),
         NEW b \in Box, NEW t, NEW c \in Nat, NEW f, NEW g,
         Fetched(w, d, b, c), GhostsHeard(w, d, b, t, c, f),
         Open(v, d, c, g) => Open(w, d, c, f) \/ b.safe <= c
  PROVE  GhostsHeard(v, d, b, t, c, g)
<1>1. \A i \in Pages(v, d) : m[i] \in Pages(w, d) /\ v[i] = w[m[i]]
  BY PagesThin, Z3
<1>2. \A k \in Keys :
        /\ Comes(v, d, t, k, Len(v)) => Comes(w, d, t, k, Len(w))
        /\ \A i \in Pages(v, d) : Comes(v, d, t, k, i - 1) => Comes(w, d, t, k, m[i] - 1)
  BY ComesThins
<1>3. \A k \in Keys : t[k] # 0 /\ b.rows[k].state # "live" => Heard(b, k, c)
  BY DEF GhostsHeard
<1>4. \A i \in Pages(v, d), k \in Keys :
        Comes(v, d, t, k, i - 1) /\ Gone(b, k) /\ ~Carries(v[i].page, k) =>
          v[i].page.cursor < b.safe
  BY <1>1, <1>2 DEF GhostsHeard
<1>5. ASSUME Open(v, d, c, g), NEW k \in Keys, Comes(v, d, t, k, Len(v)) PROVE ~Gone(b, k)
  <2>1. Comes(w, d, t, k, Len(w))
    BY <1>2, <1>5
  <2>2. CASE Open(w, d, c, f)
    BY <2>1, <2>2 DEF GhostsHeard
  <2>3. CASE b.safe <= c
    BY <2>1, <2>3, NoneGone
  <2> QED
    BY <1>5, <2>2, <2>3
<1> QED
  BY <1>3, <1>4, <1>5 DEF GhostsHeard

\* ... and with no less.
LEMMA LacksThins ==
  ASSUME NEW d, NEW w \in Seq(Request), NEW v \in Seq(Request), NEW m, Thins(v, w, m, d),
         NEW b \in Box, NEW t, NEW c \in Nat, NEW f, NEW g,
         LacksNone(w, d, b, t, c, f),
         Open(v, d, c, g) => Open(w, d, c, f) \/ b.safe <= c
  PROVE  LacksNone(v, d, b, t, c, g)
<1>1. \A i \in Pages(v, d) : m[i] \in Pages(w, d)
  BY PagesThin
<1>2. b.safe \in Nat
  BY DEF Box
<1> QED
  BY <1>1, <1>2 DEF LacksNone

-----------------------------------------------------------------------------
(* Steps of one domain: a page is read *)

\* The answer at i is put together from the table as it is.
Read(w, v, b, i) ==
  /\ i \in DOMAIN w /\ DOMAIN v = DOMAIN w /\ Len(v) = Len(w)
  /\ \A j \in DOMAIN w : j # i => v[j] = w[j]
  /\ w[i].state = "checked" /\ w[i].page.tooOld
  /\ v[i].domain = w[i].domain /\ v[i].last = w[i].last /\ v[i].rebuild = w[i].rebuild
  /\ v[i].state = "answered"
  /\ v[i].page = PageAfter(b, w[i].last)
  /\ \A j \in Pages(w, w[i].domain) : j < i

\* The pages after a page was read.
LEMMA PagesRead ==
  ASSUME NEW w \in Seq(Request), NEW v \in Seq(Request), NEW b \in Box, Numbered(b),
         NEW i, Read(w, v, b, i), NEW d, d = w[i].domain
  PROVE  /\ \A j \in Pages(v, d) : j = i \/ (j \in Pages(w, d) /\ j < i /\ v[j] = w[j])
         /\ \A j \in Pages(w, d) : j \in Pages(v, d) /\ j < i /\ v[j] = w[j]
         /\ i \in Nat /\ w[i].last \in Nat
<1>1. i \in Nat /\ w[i].last \in Nat
  BY RequestIs DEF Read
<1>2. \A j \in DOMAIN w : j \in Nat
  BY RequestIs
<1>3. ASSUME NEW j \in Pages(v, d), j # i
      PROVE  j \in Pages(w, d) /\ j < i /\ v[j] = w[j]
  BY <1>3 DEF Pages, Read
<1>4. ASSUME NEW j \in Pages(w, d) PROVE j \in Pages(v, d) /\ j < i /\ v[j] = w[j]
  BY <1>1, <1>2 DEF Pages, Read
<1> QED
  BY <1>1, <1>3, <1>4

\* A page is true to the server when it is read.
LEMMA FetchedRead ==
  ASSUME NEW w \in Seq(Request), NEW v \in Seq(Request), NEW b \in Box, Numbered(b),
         NEW i, Read(w, v, b, i), NEW d, d = w[i].domain,
         NEW c \in Nat, Fetched(w, d, b, c)
  PROVE  Fetched(v, d, b, c)
<1>1. /\ \A j \in Pages(v, d) : j = i \/ (j \in Pages(w, d) /\ j < i /\ v[j] = w[j])
      /\ \A j \in Pages(w, d) : j \in Pages(v, d) /\ j < i /\ v[j] = w[j]
      /\ i \in Nat /\ w[i].last \in Nat
  BY PagesRead
<1>2. LET page == v[i].page
      IN  /\ IsPage(page) /\ page.cursor <= b.max
          /\ \A r \in page.rows : r.key \in Keys /\ r.row = b.rows[r.key]
          /\ \A k \in Keys : v[i].last < b.rows[k].seq /\ ~Carries(page, k) =>
                              page.cursor < b.rows[k].seq
  BY <1>1, PageAfterIs DEF Read
<1>3. RowsKnown(v, d, b, c, i) /\ NoneSkipped(v, b, i)
  BY <1>2 DEF RowsKnown, NoneSkipped
<1>4. ASSUME NEW j \in Pages(w, d) PROVE RowsKnown(v, d, b, c, j) /\ NoneSkipped(v, b, j)
  <2>1. j < i /\ v[j] = w[j] /\ j \in Nat
    BY <1>1, RequestIs DEF Pages
  <2>2. \A l \in Pages(v, d) : l <= j => l \in Pages(w, d) /\ v[l] = w[l]
    BY <1>1, <2>1
  <2>3. RowsKnown(w, d, b, c, j) /\ NoneSkipped(w, b, j)
    BY DEF Fetched
  <2>4. RowsKnown(v, d, b, c, j)
    BY <2>1, <2>2, <2>3 DEF RowsKnown
  <2>5. NoneSkipped(v, b, j)
    BY <2>1, <2>3 DEF NoneSkipped
  <2> QED
    BY <2>4, <2>5
<1>5. ASSUME NEW j \in Pages(v, d)
      PROVE  /\ IsPage(v[j].page) /\ v[j].page.cursor <= b.max
             /\ RowsKnown(v, d, b, c, j) /\ NoneSkipped(v, b, j)
  <2>1. CASE j = i
    BY <1>2, <1>3, <2>1
  <2>2. CASE j # i
    <3>1. j \in Pages(w, d) /\ v[j] = w[j]
      BY <1>1, <2>2
    <3> QED
      BY <1>4, <3>1 DEF Fetched
  <2> QED
    BY <2>1, <2>2
<1> QED
  BY <1>5 DEF Fetched

\* It brings nothing that the server has not.
LEMMA GhostsRead ==
  ASSUME NEW w \in Seq(Request), NEW v \in Seq(Request), NEW b \in Box, Numbered(b),
         NEW i, Read(w, v, b, i), NEW d, d = w[i].domain,
         NEW t, NEW c \in Nat, NEW f, GhostsHeard(w, d, b, t, c, f)
  PROVE  GhostsHeard(v, d, b, t, c, f)
<1>1. /\ \A j \in Pages(v, d) : j = i \/ (j \in Pages(w, d) /\ j < i /\ v[j] = w[j])
      /\ \A j \in Pages(w, d) : j \in Pages(v, d) /\ j < i /\ v[j] = w[j]
      /\ i \in Nat /\ w[i].last \in Nat
  BY PagesRead
<1>2. Open(w, d, c, f)
  BY DEF Open, Read
<1>3. ASSUME NEW k \in Keys, Comes(w, d, t, k, Len(w)) PROVE ~Gone(b, k)
  BY <1>2, <1>3 DEF GhostsHeard
<1>4. \A r \in v[i].page.rows : r.key \in Keys /\ r.row = b.rows[r.key]
  BY <1>1, PageAfterIs DEF Read
<1>5. \A j \in Pages(w, d) : j <= Len(w)
  BY RequestIs DEF Pages
<1>6. ASSUME NEW k \in Keys, NEW n, Comes(v, d, t, k, n) PROVE ~Gone(b, k)
  <2>1. CASE t[k] # 0
    BY <1>3, <2>1 DEF Comes
  <2>2. CASE t[k] = 0
    <3>1. PICK j \in Pages(v, d) : Brings(v[j].page, k)
      BY <1>6, <2>2 DEF Comes
    <3>2. CASE j = i
      BY <1>4, <3>1, <3>2 DEF Brings, Gone
    <3>3. CASE j # i
      <4>1. j \in Pages(w, d) /\ v[j] = w[j]
        BY <1>1, <3>3
      <4> QED
        BY <1>3, <1>5, <3>1, <4>1 DEF Comes
    <3> QED
      BY <3>2, <3>3
  <2> QED
    BY <2>1, <2>2
<1> QED
  BY <1>6 DEF GhostsHeard

\* The copy lacks nothing while a page is read.
LEMMA LacksRead ==
  ASSUME NEW w, NEW v, NEW b, NEW i, Read(w, v, b, i), NEW d, d = w[i].domain,
         NEW t, NEW c, NEW f, LacksNone(w, d, b, t, c, f)
  PROVE  LacksNone(v, d, b, t, c, f)
<1>1. Open(w, d, c, f)
  BY DEF Open, Read
<1> QED
  BY <1>1 DEF LacksNone

-----------------------------------------------------------------------------
(* Steps of one domain: a page is applied *)

\* The first answer is a page of d; its cursor is saved or not.
Takes(w, d, c, x) ==
  /\ 1 \in Pages(w, d)
  /\ x \in Nat /\ x \in {c, w[1].page.cursor} /\ c <= x

\* None of the requests that remain is the first.
Pops(v, w, m, d) == Thins(v, w, m, d) /\ \A i \in DOMAIN v : m[i] # 1

\* What was heard of from the old cursor and from the page's is from the new one.
LEMMA FetchedApplied ==
  ASSUME NEW d, NEW w \in Seq(Request), NEW v \in Seq(Request), NEW m, Pops(v, w, m, d),
         NEW b \in Box, NEW c \in Nat, NEW x, Takes(w, d, c, x), Fetched(w, d, b, c)
  PROVE  Fetched(v, d, b, x)
<1>1. Fetched(v, d, b, c)
  BY FetchedThins DEF Pops
<1>2. /\ \A i \in Pages(v, d) : m[i] \in Pages(w, d) /\ m[i] \in Nat /\ 0 < m[i] /\ v[i] = w[m[i]]
  BY PagesThin, Z3 DEF Pops
<1>3. x <= b.max /\ 1 \in Pages(w, d)
  BY DEF Fetched, Takes
<1>4. ASSUME NEW i \in Pages(v, d) PROVE RowsKnown(v, d, b, x, i)
  <2> SUFFICES ASSUME NEW r \in v[i].page.rows
               PROVE  \/ r.row = b.rows[r.key]
                      \/ r.row.state = "deleted" /\ b.rows[r.key].state = "none"
                      \/ /\ Heard(b, r.key, x)
                         /\ \A j \in Pages(v, d) : j <= i => Heard(b, r.key, v[j].page.cursor)
    BY DEF RowsKnown
  <2>1. \/ r.row = b.rows[r.key]
        \/ r.row.state = "deleted" /\ b.rows[r.key].state = "none"
        \/ /\ Heard(b, r.key, c)
           /\ \A j \in Pages(v, d) : j <= i => Heard(b, r.key, v[j].page.cursor)
    BY <1>1 DEF Fetched, RowsKnown
  <2>2. \/ r.row = b.rows[r.key]
        \/ r.row.state = "deleted" /\ b.rows[r.key].state = "none"
        \/ /\ Heard(b, r.key, c)
           /\ \A j \in Pages(w, d) : j <= m[i] => Heard(b, r.key, w[j].page.cursor)
    BY <1>2 DEF Fetched, RowsKnown
  <2>3. 1 <= m[i]
    BY <1>2
  <2> QED
    BY <1>3, <2>1, <2>2, <2>3 DEF Takes
<1> QED
  BY <1>1, <1>3, <1>4 DEF Fetched

\* What the copy has after the page was on its way before.
LEMMA ComesApplied ==
  ASSUME NEW d, NEW w \in Seq(Request), NEW v \in Seq(Request), NEW m, Pops(v, w, m, d),
         NEW b \in Box, NEW t \in [Keys -> Nat], NEW c \in Nat, NEW x, Takes(w, d, c, x),
         Fetched(w, d, b, c), NEW k \in Keys
  PROVE  LET u == Applied(t, w[1].page)
         IN  /\ Comes(v, d, u, k, Len(v)) => Comes(w, d, t, k, Len(w))
             /\ \A i \in Pages(v, d) : Comes(v, d, u, k, i - 1) => Comes(w, d, t, k, m[i] - 1)
<1> DEFINE u == Applied(t, w[1].page)
<1>1. 1 \in Pages(w, d) /\ 1 \in DOMAIN w /\ IsPage(w[1].page) /\ w[1].page \in Page /\ 1 <= Len(w)
  BY RequestIs DEF Takes, Pages, Fetched
<1>9. /\ \A r \in w[1].page.rows : u[r.key] = IF r.row.state = "live" THEN r.row.seq ELSE 0
      /\ \A j \in Keys : ~Carries(w[1].page, j) => u[j] = t[j]
  BY <1>1, AppliedIs
<1> HIDE DEF u
<1>2. u[k] # 0 => t[k] # 0 \/ Brings(w[1].page, k)
  BY <1>9 DEF Carries, Brings
<1>3. Len(w) \in Nat
  BY LenProperties
<1>4. \A i \in Pages(v, d) : i \in DOMAIN v /\ m[i] \in Nat /\ 0 < m[i] /\ m[i] # 1
  <2>1. \A i \in Pages(v, d) : i \in DOMAIN v /\ m[i] \in Nat /\ 0 < m[i]
    BY PagesThin, Z3 DEF Pops
  <2> QED
    BY <2>1 DEF Pops
<1>5. /\ Comes(v, d, t, k, Len(v)) => Comes(w, d, t, k, Len(w))
      /\ \A i \in Pages(v, d) : Comes(v, d, t, k, i - 1) => Comes(w, d, t, k, m[i] - 1)
  BY ComesThins DEF Pops
<1>6. \A n : Comes(v, d, u, k, n) => Comes(v, d, t, k, n) \/ Brings(w[1].page, k)
  BY <1>2 DEF Comes
<1>7. Brings(w[1].page, k) => Comes(w, d, t, k, Len(w))
  BY <1>1 DEF Comes
<1>8. ASSUME NEW i \in Pages(v, d), Brings(w[1].page, k) PROVE Comes(w, d, t, k, m[i] - 1)
  <2>1. 1 <= m[i] - 1
    BY <1>4
  <2> QED
    BY <1>1, <1>8, <2>1 DEF Comes
<1> QED
  BY <1>5, <1>6, <1>7, <1>8 DEF u

\* A page that is applied leaves nothing in the copy that will not be heard of.
LEMMA GhostsApplied ==
  ASSUME NEW d, NEW w \in Seq(Request), NEW v \in Seq(Request), NEW m, Pops(v, w, m, d),
         NEW b \in Box, NEW t \in [Keys -> Nat], NEW c \in Nat, NEW f, NEW x, NEW g,
         Takes(w, d, c, x), w[1].last <= c, Fetched(w, d, b, c),
         GhostsHeard(w, d, b, t, c, f),
         Open(v, d, x, g) => Open(w, d, c, f)
  PROVE  GhostsHeard(v, d, b, Applied(t, w[1].page), x, g)
<1> DEFINE u == Applied(t, w[1].page)
<1>1. /\ 1 \in Pages(w, d) /\ 1 \in DOMAIN w /\ IsPage(w[1].page) /\ w[1].page \in Page
      /\ w[1].last \in Nat /\ w[1].page.cursor \in Nat
      /\ x \in Nat /\ x \in {c, w[1].page.cursor} /\ w[1].last <= c
  BY RequestIs DEF Takes, Pages, Fetched
<1>2. /\ \A r \in w[1].page.rows : u[r.key] = IF r.row.state = "live" THEN r.row.seq ELSE 0
      /\ \A k \in Keys : ~Carries(w[1].page, k) => u[k] = t[k]
  BY <1>1, AppliedIs
<1>3. \A i \in Pages(v, d) : m[i] \in Pages(w, d) /\ v[i] = w[m[i]]
  BY PagesThin, Z3 DEF Pops
<1>4. \A k \in Keys :
        /\ Comes(v, d, u, k, Len(v)) => Comes(w, d, t, k, Len(w))
        /\ \A i \in Pages(v, d) : Comes(v, d, u, k, i - 1) => Comes(w, d, t, k, m[i] - 1)
  BY ComesApplied
<1> HIDE DEF u
<1>5. ASSUME NEW k \in Keys, u[k] # 0, b.rows[k].state # "live" PROVE Heard(b, k, x)
  <2>1. CASE Carries(w[1].page, k)
    <3>1. PICK r \in w[1].page.rows : r.key = k
      BY <2>1 DEF Carries
    <3>2. r.row.state = "live"
      BY <1>2, <1>5, <3>1
    <3>3. /\ Heard(b, k, c)
          /\ \A j \in Pages(w, d) : j <= 1 => Heard(b, k, w[j].page.cursor)
      BY <1>1, <1>5, <3>1, <3>2 DEF Fetched, RowsKnown
    <3> QED
      BY <1>1, <3>3
  <2>2. CASE ~Carries(w[1].page, k)
    <3>1. t[k] # 0 /\ Heard(b, k, c)
      BY <1>2, <1>5, <2>2 DEF GhostsHeard
    <3>2. ASSUME x = w[1].page.cursor PROVE Heard(b, k, x)
      <4>1. CASE Gone(b, k)
        <5>1. Comes(w, d, t, k, 1 - 1)
          BY <3>1 DEF Comes
        <5>2. x < b.safe
          BY <1>1, <2>2, <3>2, <4>1, <5>1 DEF GhostsHeard
        <5> QED
          BY <4>1, <5>2 DEF Gone, Heard
      <4>2. CASE ~Gone(b, k)
        <5>1. c < b.rows[k].seq /\ b.rows[k].seq \in Nat
          BY <3>1, <4>2, RowIs DEF Gone, Heard
        <5>2. w[1].last < b.rows[k].seq
          BY <1>1, <5>1
        <5>3. w[1].page.cursor < b.rows[k].seq
          BY <1>1, <2>2, <4>2, <5>2 DEF Fetched, NoneSkipped, Gone
        <5> QED
          BY <3>2, <4>2, <5>3 DEF Gone, Heard
      <4> QED
        BY <4>1, <4>2
    <3> QED
      BY <1>1, <3>1, <3>2
  <2> QED
    BY <2>1, <2>2
<1>6. \A i \in Pages(v, d), k \in Keys :
        Comes(v, d, u, k, i - 1) /\ Gone(b, k) /\ ~Carries(v[i].page, k) =>
          v[i].page.cursor < b.safe
  BY <1>3, <1>4 DEF GhostsHeard
<1>7. ASSUME Open(v, d, x, g), NEW k \in Keys, Comes(v, d, u, k, Len(v)) PROVE ~Gone(b, k)
  BY <1>4, <1>7 DEF GhostsHeard
<1> QED
  BY <1>5, <1>6, <1>7 DEF GhostsHeard, u

\* A page that is applied leaves no gap below the new cursor.
LEMMA LacksApplied ==
  ASSUME NEW d, NEW w \in Seq(Request), NEW v,
         NEW b \in Box, NEW t \in [Keys -> Nat], NEW c \in Nat, NEW f, NEW x, NEW g,
         Takes(w, d, c, x), w[1].last <= c, Fetched(w, d, b, c), LacksNone(w, d, b, t, c, f)
  PROVE  LacksNone(v, d, b, Applied(t, w[1].page), x, g)
<1> DEFINE u == Applied(t, w[1].page)
<1>1. /\ 1 \in Pages(w, d) /\ 1 \in DOMAIN w /\ IsPage(w[1].page) /\ w[1].page \in Page
      /\ w[1].last \in Nat /\ w[1].page.cursor \in Nat
      /\ x \in Nat /\ x \in {c, w[1].page.cursor} /\ w[1].last <= c
  BY RequestIs DEF Takes, Pages, Fetched
<1>2. /\ \A r \in w[1].page.rows : u[r.key] = IF r.row.state = "live" THEN r.row.seq ELSE 0
      /\ \A k \in Keys : ~Carries(w[1].page, k) => u[k] = t[k]
  BY <1>1, AppliedIs
<1> HIDE DEF u
<1>3. ASSUME NEW k \in Keys, Lacks(b, u, x, k) PROVE FALSE
  <2>0. b.rows[k].state = "live" /\ b.rows[k].seq <= x /\ b.rows[k].seq \in Nat
    BY <1>3, RowIs DEF Lacks
  <2>1. CASE Carries(w[1].page, k)
    <3>1. PICK r \in w[1].page.rows : r.key = k
      BY <2>1 DEF Carries
    <3>2. r.row # b.rows[k]
      BY <1>2, <1>3, <2>0, <3>1 DEF Lacks
    <3>3. /\ Heard(b, k, c)
          /\ \A j \in Pages(w, d) : j <= 1 => Heard(b, k, w[j].page.cursor)
      BY <1>1, <2>0, <3>1, <3>2 DEF Fetched, RowsKnown
    <3>4. Heard(b, k, x)
      BY <1>1, <3>3
    <3> QED
      BY <1>1, <2>0, <3>4 DEF Heard
  <2>2. CASE ~Carries(w[1].page, k)
    <3>1. ~Lacks(b, t, c, k)
      BY <1>1 DEF LacksNone
    <3>2. ~(b.rows[k].seq <= c)
      BY <1>2, <1>3, <2>0, <2>2, <3>1 DEF Lacks
    <3>3. w[1].last < b.rows[k].seq /\ x = w[1].page.cursor
      BY <1>1, <2>0, <3>2
    <3>4. w[1].page.cursor < b.rows[k].seq
      BY <1>1, <2>0, <2>2, <3>3 DEF Fetched, NoneSkipped
    <3> QED
      BY <1>1, <2>0, <3>3, <3>4
  <2> QED
    BY <2>1, <2>2
<1> QED
  BY <1>3 DEF LacksNone, u

-----------------------------------------------------------------------------
(* The wire *)

\* v is w without the request at p, or all of it when there is none.
Remains(v, w, p, d) ==
  \E m : Thins(v, w, m, d) /\ \A j \in DOMAIN v : m[j] # 0 /\ m[j] # p

\* A new request at l of v, which brings no page of d, stands for the one at p of w.
Renews(v, w, p, d, l) ==
  \E m : /\ Thins(v, w, m, d) /\ m[l] = 0
         /\ \A j \in DOMAIN v : j # l => m[j] # 0 /\ m[j] # p

\* The requests behind the first.
LEMMA TailIs ==
  ASSUME NEW w \in Seq(Request), w # <<>>, Line(w)
  PROVE  /\ 1 \in DOMAIN w /\ Head(w) = w[1]
         /\ Tail(w) \in Seq(Request) /\ Len(Tail(w)) = Len(w) - 1 /\ Len(w) \in Nat
         /\ Line(Tail(w))
         /\ \A i \in DOMAIN Tail(w) : /\ i \in Nat /\ i + 1 \in DOMAIN w /\ Tail(w)[i] = w[i + 1]
                                      /\ Tail(w)[i].from # w[1].from
         /\ \A d : Remains(Tail(w), w, 1, d)
<1> DEFINE v == Tail(w)
<1>1. /\ Len(w) \in Nat /\ Len(w) > 0 /\ DOMAIN w = 1..Len(w) /\ Head(w) = w[1]
      /\ v \in Seq(Request) /\ Len(v) = Len(w) - 1 /\ DOMAIN v = 1..(Len(w) - 1)
  <2>1. v \in Seq(Request) /\ Len(v) = Len(w) - 1
    BY HeadTailProperties
  <2>2. Len(w) \in Nat /\ Len(w) # 0 /\ DOMAIN w = 1..Len(w)
    BY LenProperties, EmptySeq
  <2>3. DOMAIN v = 1..Len(v)
    BY <2>1, LenProperties
  <2>4. Head(w) = w[1]
    BY DEF Head
  <2> QED
    BY <2>1, <2>2, <2>3, <2>4
<1>2. \A i \in DOMAIN v : i \in Nat /\ i + 1 \in DOMAIN w /\ v[i] = w[i + 1] /\ i + 1 # 1
  <2>1. \A i \in 1..Len(v) : v[i] = w[i + 1]
    BY HeadTailProperties
  <2> QED
    BY <1>1, <2>1
<1> HIDE DEF v
<1>3. 1 \in DOMAIN w
  BY <1>1
<1>4. \A i \in DOMAIN v : v[i].from # w[1].from
  BY <1>2, <1>3 DEF Line
<1>5. Line(v)
  BY <1>2 DEF Line
<1>6. ASSUME NEW d PROVE Remains(v, w, 1, d)
  <2> DEFINE m == [i \in DOMAIN v |-> i + 1]
  <2>1. m \in [DOMAIN v -> Nat] /\ \A i \in DOMAIN v : m[i] = i + 1 /\ m[i] # 0 /\ m[i] # 1
    BY <1>1
  <2> HIDE DEF m
  <2>2. Thins(v, w, m, d)
    BY <1>2, <2>1 DEF Thins
  <2> QED
    BY <2>1, <2>2 DEF Remains
<1> QED
  BY <1>1, <1>2, <1>3, <1>4, <1>5, <1>6 DEF v

\* A request is added to what remains of w.
LEMMA AppendIs ==
  ASSUME NEW u \in Seq(Request), NEW r \in Request
  PROVE  LET v == Append(u, r)
             n == Len(u) + 1
         IN  /\ v \in Seq(Request) /\ n \in DOMAIN v /\ v[n] = r /\ Len(u) \in Nat
             /\ \A i \in DOMAIN v : i = n \/ (i \in DOMAIN u /\ v[i] = u[i])
             /\ \A i \in DOMAIN u : i \in DOMAIN v /\ v[i] = u[i] /\ i \in Nat /\ i < n
<1> DEFINE v == Append(u, r)
<1>1. v \in Seq(Request) /\ Len(v) = Len(u) + 1 /\ Len(u) \in Nat
      /\ \A i \in 1..(Len(u) + 1) : v[i] = IF i <= Len(u) THEN u[i] ELSE r
  BY AppendProperties, LenProperties
<1>2. DOMAIN u = 1..Len(u) /\ DOMAIN v = 1..(Len(u) + 1)
  BY <1>1, LenProperties
<1> HIDE DEF v
<1> QED
  BY <1>1, <1>2 DEF v

\* Nobody who waits already sends it.
LEMMA AppendLine ==
  ASSUME NEW u \in Seq(Request), NEW r \in Request, Line(u), r.state # "answered",
         \A i \in DOMAIN u : u[i].from # r.from
  PROVE  Line(Append(u, r))
<1> DEFINE v == Append(u, r)
           n == Len(u) + 1
<1>1. /\ n \in Nat /\ v[n] = r
      /\ \A i \in DOMAIN v : i = n \/ (i \in DOMAIN u /\ v[i] = u[i])
      /\ \A i \in DOMAIN u : i \in Nat /\ i < n
  BY AppendIs
<1> HIDE DEF v, n
<1>2. \A i, j \in DOMAIN v : v[i].from = v[j].from => i = j
  BY <1>1 DEF Line
<1>3. \A i, j \in DOMAIN v : j < i /\ v[i].state = "answered" => v[j].state = "answered"
  BY <1>1 DEF Line
<1> QED
  BY <1>2, <1>3 DEF Line, v

\* It brings no page yet.
LEMMA AppendRenews ==
  ASSUME NEW u \in Seq(Request), NEW r \in Request, r.page.tooOld,
         NEW w, NEW p, NEW d, Remains(u, w, p, d)
  PROVE  Renews(Append(u, r), w, p, d, Len(u) + 1)
<1>0. PICK m : Thins(u, w, m, d) /\ \A j \in DOMAIN u : m[j] # 0 /\ m[j] # p
  BY DEF Remains
<1> DEFINE v == Append(u, r)
           l == Len(u) + 1
           n == [i \in DOMAIN v |-> IF i = l THEN 0 ELSE m[i]]
<1>1. /\ l \in Nat /\ v[l] = r /\ l \in DOMAIN v
      /\ \A i \in DOMAIN v : i = l \/ (i \in DOMAIN u /\ v[i] = u[i])
      /\ \A i \in DOMAIN u : i \in DOMAIN v /\ i \in Nat /\ i < l
  BY AppendIs
<1> HIDE DEF v, l
<1>2. /\ n \in [DOMAIN v -> Nat] /\ n[l] = 0
      /\ \A i \in DOMAIN u : n[i] = m[i]
  BY <1>0, <1>1 DEF Thins
<1> HIDE DEF n
<1>3. \A i \in DOMAIN v : IF n[i] = 0 THEN v[i].domain # d \/ v[i].page.tooOld
                                      ELSE n[i] \in DOMAIN w /\ v[i] = w[n[i]]
  BY <1>0, <1>1, <1>2 DEF Thins
<1>4. \A i, j \in DOMAIN v : i < j /\ n[i] # 0 /\ n[j] # 0 => n[i] < n[j]
  BY <1>0, <1>1, <1>2 DEF Thins
<1>5. Thins(v, w, n, d)
  BY <1>2, <1>3, <1>4 DEF Thins
<1>6. \A j \in DOMAIN v : j # l => n[j] # 0 /\ n[j] # p
  BY <1>0, <1>1, <1>2
<1> QED
  BY <1>2, <1>5, <1>6 DEF Renews, v, l

\* Nothing is taken away.
LEMMA AllRemain ==
  ASSUME NEW w \in Seq(Request), NEW d
  PROVE  Remains(w, w, 0, d)
<1> DEFINE m == [j \in DOMAIN w |-> j]
<1>1. m \in [DOMAIN w -> Nat] /\ \A j \in DOMAIN w : m[j] = j /\ m[j] # 0
  BY RequestIs
<1> HIDE DEF m
<1>2. Thins(w, w, m, d)
  BY <1>1 DEF Thins
<1> QED
  BY <1>1, <1>2 DEF Remains

\* One request is taken out.
Without(w, i) == SubSeq(w, 1, i - 1) \o SubSeq(w, i + 1, Len(w))

\* The others keep their order.
LEMMA WithoutIs ==
  ASSUME NEW w \in Seq(Request), NEW p \in DOMAIN w, Line(w)
  PROVE  LET v == Without(w, p)
         IN  /\ v \in Seq(Request)
             /\ Line(v)
             /\ \A i \in DOMAIN v : \E j \in DOMAIN w : j # p /\ v[i] = w[j]
             /\ \A d : Remains(v, w, p, d)
<1> DEFINE v == Without(w, p)
           s == SubSeq(w, 1, p - 1)
           t == SubSeq(w, p + 1, Len(w))
           n == Len(w)
<1>1. n \in Nat /\ DOMAIN w = 1..n /\ p \in 1..n /\ \A i \in 1..n : w[i] \in Request
  BY LenProperties, ElementOfSeq
<1>2. s \in Seq(Request) /\ Len(s) = p - 1 /\ \A i \in 1..(p - 1) : s[i] = w[i]
  <2>1. \A i \in 1..(p - 1) : w[i] \in Request
    BY <1>1
  <2> HIDE DEF n
  <2> QED
    BY <1>1, <2>1, SubSeqProperties
<1>3. t \in Seq(Request) /\ Len(t) = n - p /\ \A i \in 1..(n - p) : t[i] = w[i + p]
  <2>1. \A i \in (p + 1)..n : w[i] \in Request
    BY <1>1
  <2>2. /\ t \in Seq(Request) /\ Len(t) = IF p + 1 <= n THEN n - (p + 1) + 1 ELSE 0
        /\ \A i \in 1..(n - (p + 1) + 1) : t[i] = w[p + 1 + i - 1]
    BY <1>1, <2>1, SubSeqProperties
  <2>3. n \in Nat /\ p \in 1..n
    BY <1>1
  <2> HIDE DEF t, n
  <2>4. Len(t) = n - p
    BY <2>2, <2>3
  <2>5. ASSUME NEW i \in 1..(n - p) PROVE t[i] = w[i + p]
    <3>1. i \in 1..(n - (p + 1) + 1) /\ p + 1 + i - 1 = i + p
      BY <2>3
    <3> QED
      BY <2>2, <3>1
  <2> QED
    BY <2>2, <2>4, <2>5
<1> HIDE DEF s, t, n
<1>4. /\ v \in Seq(Request) /\ Len(v) = n - 1
      /\ \A i \in 1..(n - 1) : v[i] = IF i <= p - 1 THEN s[i] ELSE t[i - (p - 1)]
  <2>1. v = s \o t
    BY DEF Without, s, t
  <2>2. /\ s \o t \in Seq(Request) /\ Len(s \o t) = Len(s) + Len(t)
        /\ \A i \in 1..(Len(s) + Len(t)) :
             (s \o t)[i] = IF i <= Len(s) THEN s[i] ELSE t[i - Len(s)]
    BY <1>2, <1>3, ConcatProperties
  <2> HIDE DEF v
  <2> QED
    BY <1>1, <1>2, <1>3, <2>1, <2>2
<1>5. DOMAIN v = 1..(n - 1)
  BY <1>4, LenProperties
<1> DEFINE m == [i \in DOMAIN v |-> IF i < p THEN i ELSE i + 1]
<1> HIDE DEF v
<1>6. \A i \in DOMAIN v : m[i] = IF i < p THEN i ELSE i + 1
  OBVIOUS
<1>7. /\ m \in [DOMAIN v -> Nat]
      /\ \A i \in DOMAIN v : m[i] # 0 /\ m[i] # p /\ m[i] \in DOMAIN w
      /\ \A i, j \in DOMAIN v : i < j <=> m[i] < m[j]
  BY <1>1, <1>5
<1> HIDE DEF m
<1>8. ASSUME NEW i \in DOMAIN v PROVE v[i] = w[m[i]]
  <2>1. CASE i < p
    BY <1>1, <1>2, <1>4, <1>5, <1>6, <2>1
  <2>2. CASE ~(i < p)
    <3>4. i \in 1..(n - 1) /\ n \in Nat /\ p \in 1..n
      BY <1>1, <1>5
    <3>1. i \in 1..(n - 1) /\ i - (p - 1) \in 1..(n - p) /\ ~(i <= p - 1)
      BY <2>2, <3>4
    <3>2. v[i] = t[i - (p - 1)] /\ t[i - (p - 1)] = w[(i - (p - 1)) + p]
      BY <1>3, <1>4, <3>1
    <3>3. (i - (p - 1)) + p = i + 1
      BY <1>1, <3>1
    <3> QED
      BY <1>6, <2>2, <3>2, <3>3
  <2> QED
    BY <2>1, <2>2
<1>9. \A d : Thins(v, w, m, d)
  BY <1>7, <1>8 DEF Thins
<1>10. Line(v)
  <2>1. \A i, j \in DOMAIN v : i \in Nat /\ j \in Nat /\ m[i] \in Nat /\ (m[i] = m[j] => i = j)
    BY <1>5, <1>6, <1>7
  <2>2. \A i, j \in DOMAIN v : v[i].from = v[j].from => i = j
    BY <1>7, <1>8, <2>1 DEF Line
  <2>3. \A i, j \in DOMAIN v : j < i /\ v[i].state = "answered" => v[j].state = "answered"
    BY <1>7, <1>8 DEF Line
  <2> QED
    BY <2>2, <2>3 DEF Line
<1>11. \A d : Remains(v, w, p, d)
  BY <1>7, <1>9 DEF Remains
<1> QED
  BY <1>4, <1>7, <1>8, <1>10, <1>11 DEF v

\* What a new request says.
LEMMA RequestForIs ==
  ASSUME NEW a \in Actors, NEW d \in Domains, NEW last \in Nat,
         NEW rebuild \in BOOLEAN, NEW flag \in BOOLEAN
  PROVE  LET r == RequestFor(a, d, last, rebuild, flag)
         IN  /\ r \in Request
             /\ r.from = a /\ r.domain = d /\ r.last = last /\ r.page.tooOld
             /\ r.state \in {"sent", "checked"}
             /\ r.state = "sent" <=> Kind[d] = "relation"
             /\ r.rebuild <=> Kind[d] # "conversations" /\ (rebuild \/ last = 0 \/ flag)
<1> DEFINE e == Kind[d] # "conversations" /\ (rebuild \/ last = 0 \/ flag)
           s == IF Kind[d] = "relation" THEN "sent" ELSE "checked"
           r == RequestFor(a, d, last, rebuild, flag)
<1>1. TooOld \in Page /\ TooOld.tooOld
  BY DEF TooOld, Page
<1>2. e \in BOOLEAN /\ s \in {"sent", "checked"} /\ (s = "sent" <=> Kind[d] = "relation")
  OBVIOUS
<1>3. r = [from |-> a, domain |-> d, last |-> last, rebuild |-> e, state |-> s, page |-> TooOld]
  BY DEF RequestFor
<1>4. e <=> Kind[d] # "conversations" /\ (rebuild \/ last = 0 \/ flag)
  OBVIOUS
<1> HIDE DEF e, s, r
<1>5. r \in Request
  BY <1>1, <1>2, <1>3 DEF Request
<1> QED
  BY <1>1, <1>2, <1>3, <1>4, <1>5 DEF r

-----------------------------------------------------------------------------
(* Steps that leave the tables of a domain alone *)

\* A new request asks for rows above the cursor or from below, and does without the
\* horizon only if the domain is open already or the cursor is above the horizon.
Joins(r, w, d, b, c, f) ==
  /\ r.last <= c
  /\ r.rebuild \/ r.state = "checked" => Open(w, d, c, f) \/ b.safe <= c

\* A step that takes requests of a domain away or adds one leaves it in step.
LEMMA Thinned ==
  ASSUME InSync, NEW d \in Domains, NEW m, wire' \in Seq(Request), Thins(wire', wire, m, d),
         server'[d] = server[d], table'[d] = table[d], cursor'[d] = cursor[d],
         exposed \subseteq exposed', rebuilding'[d] => rebuilding[d],
         NoReset => \A i \in DOMAIN wire' : wire'[i].domain = d /\ m[i] = 0 =>
           Joins(wire'[i], wire, d, server[d], cursor[d], rebuilding[d])
  PROVE  InStep(d)'
<1> DEFINE w == wire
           b == server[d]
           c == cursor[d]
           t == table[d]
<1>1. /\ w \in Seq(Request) /\ b \in Box /\ c \in Nat /\ InStep(d)
      /\ b.safe \in Nat
  BY DEF InSync, TypeOK, Box
<1>2. (NoReset)' => NoReset
  BY DEF NoReset
<1>3. (NoPurge)' => NoPurge
  BY DEF NoPurge
<1>4. (NoLate)' => NoLate
  BY DEF NoLate
<1>5. \A i \in DOMAIN wire' : m[i] # 0 => m[i] \in DOMAIN wire /\ wire'[i] = wire[m[i]]
  BY DEF Thins
<1>6. NoReset => \A i \in DOMAIN wire' : wire'[i].domain = d => wire'[i].last <= cursor[d]
  <2> SUFFICES ASSUME NoReset, NEW i \in DOMAIN wire', wire'[i].domain = d
               PROVE  wire'[i].last <= cursor[d]
    OBVIOUS
  <2>1. CASE m[i] = 0
    BY <2>1 DEF Joins
  <2>2. CASE m[i] # 0
    BY <1>1, <1>5, <2>2 DEF InStep
  <2> QED
    BY <2>1, <2>2
<1>7. NoReset => (Open(wire', d, c, rebuilding'[d]) => Open(w, d, c, rebuilding[d]) \/ b.safe <= c)
  <2> SUFFICES ASSUME NoReset, Open(wire', d, c, rebuilding'[d]), ~Open(w, d, c, rebuilding[d])
               PROVE  b.safe <= c
    OBVIOUS
  <2>1. PICK i \in DOMAIN wire' :
          wire'[i].domain = d /\ (wire'[i].rebuild \/ wire'[i].state = "checked")
    BY DEF Open
  <2>2. m[i] = 0
    BY <1>5, <2>1 DEF Open
  <2> QED
    BY <2>1, <2>2 DEF Joins
<1>8. Fetched(wire', d, b, c)
  <2>1. c <= c /\ Fetched(w, d, b, c)
    BY <1>1 DEF InStep
  <2> HIDE DEF b, c
  <2> QED
    BY <1>1, <2>1, FetchedThins
<1>9. NoReset /\ NoPurge => GhostsHeard(wire', d, b, t, c, rebuilding'[d])
  <2> SUFFICES ASSUME NoReset, NoPurge PROVE GhostsHeard(wire', d, b, t, c, rebuilding'[d])
    OBVIOUS
  <2>1. Fetched(w, d, b, c) /\ GhostsHeard(w, d, b, t, c, rebuilding[d])
    BY <1>1 DEF InStep
  <2> HIDE DEF b, c, t
  <2> QED
    BY <1>1, <1>7, <2>1, GhostsThins
<1>10. NoReset /\ NoLate => LacksNone(wire', d, b, t, c, rebuilding'[d])
  <2> SUFFICES ASSUME NoReset, NoLate PROVE LacksNone(wire', d, b, t, c, rebuilding'[d])
    OBVIOUS
  <2>1. LacksNone(w, d, b, t, c, rebuilding[d])
    BY <1>1 DEF InStep
  <2> HIDE DEF b, c, t
  <2> QED
    BY <1>1, <1>7, <2>1, LacksThins
<1>11. Numbered(b)
  BY <1>1 DEF InStep
<1> QED
  BY <1>2, <1>3, <1>4, <1>6, <1>8, <1>9, <1>10, <1>11 DEF InStep

\* A step that does nothing to a domain leaves it in step.
LEMMA Untroubled ==
  ASSUME InSync, NEW d \in Domains, NEW p, wire' \in Seq(Request), Remains(wire', wire, p, d),
         server'[d] = server[d], table'[d] = table[d], cursor'[d] = cursor[d],
         exposed \subseteq exposed', rebuilding'[d] => rebuilding[d]
  PROVE  InStep(d)'
<1>1. PICK m : Thins(wire', wire, m, d) /\ \A j \in DOMAIN wire' : m[j] # 0
  BY DEF Remains
<1> QED
  BY <1>1, Thinned

\* So does one that adds a request and perhaps takes one away.
LEMMA Renewed ==
  ASSUME InSync, NEW d \in Domains, NEW p, NEW l \in DOMAIN wire',
         wire' \in Seq(Request), Renews(wire', wire, p, d, l),
         server'[d] = server[d], table'[d] = table[d], cursor'[d] = cursor[d],
         exposed \subseteq exposed', rebuilding'[d] => rebuilding[d],
         NoReset /\ wire'[l].domain = d =>
           Joins(wire'[l], wire, d, server[d], cursor[d], rebuilding[d])
  PROVE  InStep(d)'
<1>1. PICK m : /\ Thins(wire', wire, m, d)
               /\ \A j \in DOMAIN wire' : j # l => m[j] # 0
  BY DEF Renews
<1>2. NoReset => \A i \in DOMAIN wire' : wire'[i].domain = d /\ m[i] = 0 =>
        Joins(wire'[i], wire, d, server[d], cursor[d], rebuilding[d])
  BY <1>1
<1> QED
  BY <1>1, <1>2, Thinned

\* The requests that stay on the wire are their actors', who have not moved.
LEMMA StillWired ==
  ASSUME InSync, wire' \in Seq(Request), Line(wire'),
         \A i \in DOMAIN wire' : \E j \in DOMAIN wire :
           wire'[i] = wire[j] /\ runs'[wire[j].from] = runs[wire[j].from],
         \A d \in Domains : server'[d] \in Box /\ server[d].safe <= server'[d].safe
  PROVE  Wired'
<1> SUFFICES ASSUME NEW i \in DOMAIN wire'
             PROVE  Fits(wire'[i], runs'[wire'[i].from], server'[wire'[i].domain])
  BY DEF Wired
<1>1. PICK j \in DOMAIN wire : wire'[i] = wire[j] /\ runs'[wire[j].from] = runs[wire[j].from]
  OBVIOUS
<1>2. Fits(wire[j], runs[wire[j].from], server[wire[j].domain])
  BY DEF InSync, Wired
<1>3. wire[j].domain \in Domains /\ wire[j].last \in Nat
  BY RequestIs DEF InSync, TypeOK
<1> DEFINE d == wire[j].domain
<1>4. server[d].safe \in Nat /\ server'[d].safe \in Nat /\ server[d].safe <= server'[d].safe
  BY <1>3 DEF InSync, TypeOK, Box
<1> QED
  BY <1>1, <1>2, <1>3, <1>4 DEF Fits

\* An empty copy that has asked for nothing is in step with every table.
LEMMA Unasked ==
  ASSUME NEW d, NEW b \in Box, Numbered(b), NEW f,
         NEW w, w = <<>>, NEW t, \A k \in Keys : t[k] = 0, NEW c, c = 0
  PROVE  Fetched(w, d, b, c) /\ GhostsHeard(w, d, b, t, c, f) /\ LacksNone(w, d, b, t, c, f)
<1>1. DOMAIN w = {} /\ Len(w) = 0
  OBVIOUS
<1>2. Pages(w, d) = {}
  BY <1>1 DEF Pages
<1>3. b.max \in Nat
  BY DEF Box
<1>4. \A k \in Keys : ~Lacks(b, t, c, k)
  BY RowIs DEF Lacks, Numbered
<1> QED
  BY <1>1, <1>2, <1>3, <1>4 DEF Fetched, GhostsHeard, LacksNone, Comes

\* Init: the first session starts with an empty database.
LEMMA InSyncInit == Init => InSync
<1> SUFFICES ASSUME Init PROVE InSync
  OBVIOUS
<1> USE DEF Init
<1>1. TypeOK
  <2>1. server \in [Domains -> Box]
    BY InitialAssumption
  <2>2. wire \in Seq(Request) /\ chain \in Seq(Notices)
    BY EmptySeq
  <2>3. runs \in [Actors -> Run]
    <3>1. Between(Stages) \in Run
      BY ReplicaAssumption DEF Between, Run
    <3>2. Idle \in Run
      BY EmptySeq DEF Idle, Run
    <3> QED
      BY <3>1, <3>2
  <2>4. /\ table \in [Domains -> [Keys -> Nat]] /\ cursor \in [Domains -> Nat]
        /\ rebuilding \in [Domains -> BOOLEAN] /\ flags \in [Notices -> BOOLEAN]
        /\ status \in [Domains -> {"undefined", "success", "failed"}]
    OBVIOUS
  <2>5. /\ notices \subseteq Domains /\ gone \subseteq Domains \X Keys
        /\ deleted \subseteq Domains \X Keys /\ failed \subseteq Domains
        /\ exposed \subseteq {"reset overlaps", "unguarded purge", "late deletion"}
    OBVIOUS
  <2> QED
    BY <2>1, <2>2, <2>3, <2>4, <2>5 DEF TypeOK
<1>2. Wired
  BY DEF Wired, Line
<1>3. ASSUME NEW d \in Domains PROVE InStep(d)
  <2>1. server[d] \in Box /\ Numbered(server[d])
    BY InitialAssumption
  <2>2. /\ \A k \in Keys : table[d][k] = 0
        /\ cursor[d] = 0 /\ wire = <<>> /\ DOMAIN wire = {}
    OBVIOUS
  <2>3. /\ Fetched(wire, d, server[d], cursor[d])
        /\ GhostsHeard(wire, d, server[d], table[d], cursor[d], rebuilding[d])
        /\ LacksNone(wire, d, server[d], table[d], cursor[d], rebuilding[d])
    BY <2>1, <2>2, Unasked
  <2> QED
    BY <2>1, <2>2, <2>3 DEF InStep
<1> QED
  BY <1>1, <1>2, <1>3 DEF InSync

-----------------------------------------------------------------------------
(* The server's steps *)

\* Writes on the server leave the client in step.
LEMMA ServerWrites ==
  ASSUME InSync, ServerOnly, exposed' = exposed,
         server' \in [Domains -> Box],
         \A d \in Domains : Numbered(server'[d]) /\ Wrote(server[d], server'[d]),
         notices' \subseteq Domains, gone' \subseteq Domains \X Keys
  PROVE  InSync'
<1> USE DEF ServerOnly, queue
<1>1. TypeOK'
  BY DEF InSync, TypeOK
<1>2. Wired'
  <2>1. wire' = wire /\ runs' = runs /\ wire \in Seq(Request) /\ Line(wire)
    BY DEF InSync, TypeOK, Wired
  <2>2. \A d \in Domains : server'[d] \in Box /\ server[d].safe <= server'[d].safe
    <3>1. \A d \in Domains : server'[d] \in Box /\ server[d].safe = server'[d].safe
      BY DEF Wrote
    <3>2. \A d \in Domains : server'[d].safe \in Nat
      BY <3>1 DEF Box
    <3> QED
      BY <3>1, <3>2
  <2> QED
    BY <2>1, <2>2, StillWired
<1>3. ASSUME NEW d \in Domains PROVE InStep(d)'
  <2> DEFINE b == server[d]
             n == server'[d]
             c == cursor[d]
             t == table[d]
             f == rebuilding[d]
  <2>1. /\ wire \in Seq(Request) /\ b \in Box /\ Wrote(b, n) /\ c \in Nat /\ InStep(d)
        /\ Numbered(n)
    BY DEF InSync, TypeOK
  <2>2. /\ wire' = wire /\ cursor'[d] = c /\ table'[d] = t /\ rebuilding'[d] = f
    OBVIOUS
  <2>3. c <= b.max /\ Fetched(wire, d, b, c)
    BY <2>1 DEF InStep, Fetched
  <2> HIDE DEF b, n, c, t, f
  <2>4. Fetched(wire, d, n, c)
    BY <2>1, <2>3, FetchedWrote
  <2>5. GhostsHeard(wire, d, b, t, c, f) => GhostsHeard(wire, d, n, t, c, f)
    BY <2>1, <2>3, GhostsWrote
  <2>6. LacksNone(wire, d, b, t, c, f) => LacksNone(wire, d, n, t, c, f)
    BY <2>1, <2>3, LacksWrote
  <2>7. (NoReset' <=> NoReset) /\ (NoPurge' <=> NoPurge) /\ (NoLate' <=> NoLate)
    BY DEF NoReset, NoPurge, NoLate
  <2> USE DEF b, n, c, t, f
  <2> QED
    BY <2>1, <2>2, <2>4, <2>5, <2>6, <2>7 DEF InStep
<1> QED
  BY <1>1, <1>2, <1>3 DEF InSync

\* One row of one domain is written.
LEMMA WritesOne ==
  ASSUME NEW b \in Box, Numbered(b), NEW k \in Keys, NEW state \in {"live", "deleted"}
  PROVE  /\ Written(b, k, state) \in Box /\ Numbered(Written(b, k, state))
         /\ Wrote(b, Written(b, k, state))
         /\ Wrote(b, b)
<1> DEFINE n == Written(b, k, state)
<1>1. /\ n \in Box /\ Numbered(n)
      /\ n.max = b.max + 1 /\ n.safe = b.safe
      /\ n.rows[k] = [seq |-> b.max + 1, state |-> state]
      /\ \A j \in Keys : j # k => n.rows[j] = b.rows[j]
  BY WrittenIs
<1> HIDE DEF n
<1>2. b.max \in Nat
  BY DEF Box
<1>3. b.max <= n.max /\ n.rows[k].state # "none" /\ b.max < n.rows[k].seq
  BY <1>1, <1>2
<1>4. Wrote(b, n)
  BY <1>1, <1>3 DEF Wrote
<1>5. Wrote(b, b)
  BY <1>2 DEF Wrote
<1> QED
  BY <1>1, <1>4, <1>5 DEF n

\* The other domains of the shared counter only see it move.
LEMMA WritesNone ==
  ASSUME NEW b \in Box, Numbered(b)
  PROVE  LET n == [b EXCEPT !.max = @ + 1]
         IN  n \in Box /\ Numbered(n) /\ Wrote(b, n)
<1> DEFINE n == [b EXCEPT !.max = @ + 1]
<1>1. b.max \in Nat /\ b.max + 1 \in Nat
  BY DEF Box
<1>2. n \in Box /\ n.max = b.max + 1 /\ n.safe = b.safe /\ n.rows = b.rows
  BY <1>1 DEF Box
<1> HIDE DEF n
<1>3. Numbered(n)
  <2> SUFFICES ASSUME NEW k \in Keys
               PROVE  n.rows[k].seq <= n.max /\ (n.rows[k].seq = 0 <=> n.rows[k].state = "none")
    BY DEF Numbered
  <2>1. b.rows[k].seq <= b.max /\ (b.rows[k].seq = 0 <=> b.rows[k].state = "none")
    BY DEF Numbered
  <2>2. b.rows[k].seq \in Nat
    BY RowIs
  <2> QED
    BY <1>1, <1>2, <2>1, <2>2
<1>4. Wrote(b, n)
  BY <1>1, <1>2 DEF Wrote
<1> QED
  BY <1>2, <1>3, <1>4 DEF n

\* Put and Remove.
LEMMA PutKeeps ==
  ASSUME InSync, NEW d \in Domains, NEW k \in Keys, Put(d, k) \/ Remove(d, k)
  PROVE  InSync'
<1>1. PICK state \in {"live", "deleted"} : server' = [server EXCEPT ![d] = Written(@, k, state)]
  BY DEF Put, Remove
<1>2. server \in [Domains -> Box] /\ \A e \in Domains : Numbered(server[e])
  BY DEF InSync, TypeOK, InStep
<1>3. \A e \in Domains : server'[e] = IF e = d THEN Written(server[d], k, state) ELSE server[e]
  BY <1>1, <1>2
<1>4. \A e \in Domains :
        server'[e] \in Box /\ Numbered(server'[e]) /\ Wrote(server[e], server'[e])
  <2> SUFFICES ASSUME NEW e \in Domains
               PROVE  server'[e] \in Box /\ Numbered(server'[e]) /\ Wrote(server[e], server'[e])
    OBVIOUS
  <2>1. /\ Written(server[e], k, state) \in Box /\ Numbered(Written(server[e], k, state))
        /\ Wrote(server[e], Written(server[e], k, state))
        /\ Wrote(server[e], server[e])
    BY <1>2, WritesOne
  <2> QED
    BY <1>2, <1>3, <2>1
<1>5. server' \in [Domains -> Box]
  BY <1>1, <1>2, <1>4
<1>6. /\ ServerOnly /\ exposed' = exposed
      /\ notices' \subseteq Domains /\ gone' \subseteq Domains \X Keys
  BY DEF Put, Remove, InSync, TypeOK
<1> QED
  BY <1>4, <1>5, <1>6, ServerWrites

\* A message and its conversation.
LEMMA ReceiveKeeps ==
  ASSUME InSync, NEW m \in Domains, NEW c \in Domains, NEW k \in Keys, NEW chat \in Chats,
         Receive(m, c, k, chat)
  PROVE  InSync'
<1>1. /\ server' = [server EXCEPT ![m] = Written(@, k, "live"), ![c] = Written(@, chat, "live")]
      /\ m # c /\ chat \in Keys
  BY ReplicaAssumption DEF Receive
<1>2. server \in [Domains -> Box] /\ \A e \in Domains : Numbered(server[e])
  BY DEF InSync, TypeOK, InStep
<1>3. \A e \in Domains : server'[e] = IF e = m THEN Written(server[m], k, "live")
                                     ELSE IF e = c THEN Written(server[c], chat, "live")
                                     ELSE server[e]
  BY <1>1, <1>2
<1>4. \A e \in Domains :
        server'[e] \in Box /\ Numbered(server'[e]) /\ Wrote(server[e], server'[e])
  <2> SUFFICES ASSUME NEW e \in Domains
               PROVE  server'[e] \in Box /\ Numbered(server'[e]) /\ Wrote(server[e], server'[e])
    OBVIOUS
  <2>1. \A j \in Keys :
          /\ Written(server[e], j, "live") \in Box /\ Numbered(Written(server[e], j, "live"))
          /\ Wrote(server[e], Written(server[e], j, "live"))
          /\ Wrote(server[e], server[e])
    BY <1>2, WritesOne
  <2> QED
    BY <1>1, <1>2, <1>3, <2>1
<1>5. server' \in [Domains -> Box]
  BY <1>1, <1>2, <1>4
<1>6. /\ ServerOnly /\ exposed' = exposed
      /\ notices' \subseteq Domains /\ gone' \subseteq Domains \X Keys
  BY DEF Receive, InSync, TypeOK
<1> QED
  BY <1>4, <1>5, <1>6, ServerWrites

\* A tombstone of a message or of a conversation.
LEMMA DeleteKeeps ==
  ASSUME InSync, NEW d \in Domains, NEW k \in Keys, Delete(d, k)
  PROVE  InSync'
<1>1. server' = [e \in Domains |->
                   IF e = d THEN Written(server[e], k, "deleted")
                   ELSE IF Kind[e] = "relation" THEN server[e]
                   ELSE [server[e] EXCEPT !.max = @ + 1]]
  BY DEF Delete, WriteShared
<1>2. server \in [Domains -> Box] /\ \A e \in Domains : Numbered(server[e])
  BY DEF InSync, TypeOK, InStep
<1>4. \A e \in Domains :
        server'[e] \in Box /\ Numbered(server'[e]) /\ Wrote(server[e], server'[e])
  <2> SUFFICES ASSUME NEW e \in Domains
               PROVE  server'[e] \in Box /\ Numbered(server'[e]) /\ Wrote(server[e], server'[e])
    OBVIOUS
  <2>1. /\ Written(server[e], k, "deleted") \in Box /\ Numbered(Written(server[e], k, "deleted"))
        /\ Wrote(server[e], Written(server[e], k, "deleted"))
        /\ Wrote(server[e], server[e])
    BY <1>2, WritesOne
  <2>2. LET n == [server[e] EXCEPT !.max = @ + 1]
        IN  n \in Box /\ Numbered(n) /\ Wrote(server[e], n)
    BY <1>2, WritesNone
  <2> QED
    BY <1>1, <1>2, <2>1, <2>2
<1>5. server' \in [Domains -> Box]
  BY <1>1, <1>4
<1>6. /\ ServerOnly /\ exposed' = exposed
      /\ notices' \subseteq Domains /\ gone' \subseteq Domains \X Keys
  <2>1. <<d, k>> \in Domains \X Keys
    OBVIOUS
  <2>2. gone' = gone \cup {<<d, k>>} /\ gone \subseteq Domains \X Keys
    BY DEF Delete, InSync, TypeOK
  <2>3. ServerOnly /\ exposed' = exposed /\ notices' \subseteq Domains
    BY DEF Delete, InSync, TypeOK
  <2> QED
    BY <2>1, <2>2, <2>3
<1> QED
  BY <1>4, <1>5, <1>6, ServerWrites

\* A purge, in the sight of the horizon or not.
LEMMA PurgeKeeps ==
  ASSUME InSync, NEW d \in Domains, Purge(d)
  PROVE  InSync'
<1> DEFINE b == server[d]
           n == Purged(server[d])
<1>1. /\ server' = [server EXCEPT ![d] = n]
      /\ ServerOnly /\ UNCHANGED <<notices, gone>> /\ exposed \subseteq exposed'
      /\ exposed' \subseteq exposed \cup {"unguarded purge"}
      /\ "unguarded purge" \notin exposed' => ~Unguarded(d)
      /\ Kind[d] = "relation"
  BY DEF Purge
<1> USE DEF ServerOnly, queue
<1>2. b \in Box /\ Numbered(b) /\ server \in [Domains -> Box] /\ InStep(d)
  BY DEF InSync, TypeOK, InStep
<1>3. n \in Box /\ Numbered(n) /\ b.safe <= n.safe
  BY <1>2, PurgedIs
<1>4. TypeOK'
  <2>1. server' \in [Domains -> Box]
    <3> HIDE DEF n
    <3> QED
      BY <1>1, <1>2, <1>3
  <2>2. exposed' \subseteq {"reset overlaps", "unguarded purge", "late deletion"}
    BY <1>1 DEF InSync, TypeOK
  <2> QED
    BY <1>1, <2>1, <2>2 DEF InSync, TypeOK
<1>5. \A e \in Domains : e # d => server'[e] = server[e]
  BY <1>1, <1>2
<1>6. server'[d] = n
  BY <1>1, <1>2
<1>7. Wired'
  <2>1. wire' = wire /\ runs' = runs /\ wire \in Seq(Request) /\ Line(wire)
    BY <1>1 DEF InSync, TypeOK, Wired
  <2>2. \A e \in Domains : server'[e] \in Box /\ server[e].safe <= server'[e].safe
    <3> SUFFICES ASSUME NEW e \in Domains
                 PROVE  server'[e] \in Box /\ server[e].safe <= server'[e].safe
      OBVIOUS
    <3>1. CASE e = d
      BY <1>3, <1>6, <3>1
    <3>2. CASE e # d
      <4>1. server'[e] \in Box /\ server'[e] = server[e]
        BY <1>2, <1>5, <3>2
      <4>2. server[e].safe \in Nat
        BY <4>1 DEF Box
      <4> QED
        BY <4>1, <4>2
    <3> QED
      BY <3>1, <3>2
  <2> QED
    BY <2>1, <2>2, StillWired
<1>8. ASSUME NEW e \in Domains, e # d PROVE InStep(e)'
  <2>1. wire' \in Seq(Request) /\ Remains(wire', wire, 0, e)
    BY <1>1, AllRemain DEF InSync, TypeOK
  <2> QED
    BY <1>1, <1>5, <1>8, <2>1, Untroubled
<1>9. InStep(d)'
  <2> DEFINE c == cursor[d]
             t == table[d]
             f == rebuilding[d]
  <2>1. wire \in Seq(Request) /\ c \in Nat
    BY DEF InSync, TypeOK
  <2>2. /\ wire' = wire /\ cursor'[d] = c /\ table'[d] = t /\ rebuilding'[d] = f
    BY <1>1
  <2>3. Fetched(wire, d, b, c)
    BY <1>2 DEF InStep
  <2>4. (NoReset' <=> NoReset) /\ (NoPurge' => NoPurge) /\ (NoLate' <=> NoLate)
    BY <1>1 DEF NoReset, NoPurge, NoLate
  <2>5. Fetched(wire, d, n, c)
    <3> HIDE DEF b, c
    <3>1. Fetched(wire, d, Purged(b), c)
      BY <1>2, <2>1, <2>3, FetchedPurged
    <3> QED
      BY <3>1 DEF b
  <2>6. LacksNone(wire, d, b, t, c, f) => LacksNone(wire, d, n, t, c, f)
    <3> HIDE DEF b, c, t, f
    <3>1. LacksNone(wire, d, b, t, c, f) => LacksNone(wire, d, Purged(b), t, c, f)
      BY <1>2, <2>1, LacksPurged
    <3> QED
      BY <3>1 DEF b
  <2>7. NoReset' /\ NoPurge' => GhostsHeard(wire, d, n, t, c, f)
    <3> SUFFICES ASSUME NoReset', NoPurge' PROVE GhostsHeard(wire, d, n, t, c, f)
      OBVIOUS
    <3>1. /\ GhostsHeard(wire, d, b, t, c, f)
          /\ \A i \in DOMAIN wire : wire[i].domain = d => wire[i].last <= c
      BY <1>2, <2>4 DEF InStep
    <3>2. ~Open(wire, d, c, f)
      BY <1>1 DEF Open, Unguarded, NoPurge
    <3> HIDE DEF b, c, t, f
    <3>3. GhostsHeard(wire, d, Purged(b), t, c, f)
      BY <1>2, <2>1, <2>3, <3>1, <3>2, GhostsPurged
    <3> QED
      BY <3>3 DEF b
  <2>8. NoReset => \A i \in DOMAIN wire : wire[i].domain = d => wire[i].last <= c
    BY <1>2 DEF InStep
  <2>9. NoReset /\ NoLate => LacksNone(wire, d, n, t, c, f)
    BY <1>2, <2>6 DEF InStep
  <2> HIDE DEF n
  <2> QED
    BY <1>3, <1>6, <2>2, <2>4, <2>5, <2>7, <2>8, <2>9 DEF InStep
<1> QED
  BY <1>4, <1>7, <1>8, <1>9 DEF InSync

\* The request at i is another, which brings no page of d.
Swaps(v, w, i, d) ==
  \E m : /\ Thins(v, w, m, d) /\ m[i] = 0
         /\ \A j \in DOMAIN w : j # i => m[j] # 0

\* A request is replaced by itself with another answer: what that leaves as it was.
LEMMA ServedIs ==
  ASSUME InSync, NEW i \in DOMAIN wire, Served(i), NEW q \in Request,
         wire' = [wire EXCEPT ![i] = q], q.from = wire[i].from, q.domain = wire[i].domain
  PROVE  /\ wire' \in Seq(Request) /\ DOMAIN wire' = DOMAIN wire /\ Len(wire') = Len(wire)
         /\ wire'[i] = q /\ \A j \in DOMAIN wire : j # i => wire'[j] = wire[j]
         /\ Line(wire')
         /\ \A d : d # q.domain \/ q.page.tooOld => Swaps(wire', wire, i, d)
<1>1. wire \in Seq(Request) /\ Line(wire) /\ DOMAIN wire = 1..Len(wire) /\ Len(wire) \in Nat
  BY LenProperties DEF InSync, TypeOK, Wired
<1>2. wire' \in Seq(Request) /\ Len(wire') = Len(wire)
  BY <1>1, ExceptSeq
<1>3. DOMAIN wire' = DOMAIN wire
  OBVIOUS
<1>4. wire'[i] = q /\ \A j \in DOMAIN wire : j # i => wire'[j] = wire[j]
  OBVIOUS
<1>5. /\ wire[i].state # "answered"
      /\ \A j \in DOMAIN wire : j \in Nat /\ (j < i => wire[j].state = "answered")
  BY <1>1 DEF Served
<1>6. Line(wire')
  <2>1. \A j, l \in DOMAIN wire' : wire'[j].from = wire'[l].from => j = l
    BY <1>1, <1>3, <1>4 DEF Line
  <2>2. \A j, l \in DOMAIN wire' :
          l < j /\ wire'[j].state = "answered" => wire'[l].state = "answered"
    <3> SUFFICES ASSUME NEW j \in DOMAIN wire', NEW l \in DOMAIN wire', l < j,
                        wire'[j].state = "answered"
                 PROVE  wire'[l].state = "answered"
      OBVIOUS
    <3>1. CASE j = i
      BY <1>1, <1>3, <1>4, <1>5, <3>1
    <3>2. CASE j # i
      <4>1. wire[l].state = "answered"
        BY <1>1, <1>3, <1>4, <3>2 DEF Line
      <4> QED
        BY <1>3, <1>4, <1>5, <4>1
    <3> QED
      BY <3>1, <3>2
  <2> QED
    BY <2>1, <2>2 DEF Line
<1>7. ASSUME NEW d, d # q.domain \/ q.page.tooOld
      PROVE  Swaps(wire', wire, i, d)
  <2> DEFINE m == [j \in DOMAIN wire |-> IF j = i THEN 0 ELSE j]
  <2>1. /\ m \in [DOMAIN wire -> Nat] /\ m[i] = 0
        /\ \A j \in DOMAIN wire : j # i => m[j] = j /\ m[j] # 0
    BY <1>1
  <2> HIDE DEF m
  <2>2. \A j \in DOMAIN wire' : IF m[j] = 0 THEN wire'[j].domain # d \/ wire'[j].page.tooOld
                                           ELSE m[j] \in DOMAIN wire /\ wire'[j] = wire[m[j]]
    BY <1>3, <1>4, <1>7, <2>1
  <2>3. Thins(wire', wire, m, d)
    BY <1>3, <2>1, <2>2 DEF Thins
  <2> QED
    BY <2>1, <2>3 DEF Swaps
<1> QED
  BY <1>2, <1>3, <1>4, <1>6, <1>7

\* The horizon is checked.
LEMMA CheckKeeps ==
  ASSUME InSync, CheckHorizon
  PROVE  InSync'
<1>1. PICK i \in DOMAIN wire :
        /\ Served(i) /\ wire[i].state = "sent"
        /\ wire' = [wire EXCEPT ![i].state =
                      IF IsTooOld(server[wire[i].domain], wire[i].last, wire[i].rebuild)
                      THEN "answered" ELSE "checked"]
        /\ UNCHANGED <<world, table, cursor, rebuilding, runs, queue, status, failed,
                       exposed, spent>>
  BY DEF CheckHorizon
<1> USE DEF world, queue
<1> DEFINE r == wire[i]
           b == server[wire[i].domain]
           s == IF IsTooOld(b, r.last, r.rebuild) THEN "answered" ELSE "checked"
           q == [wire[i] EXCEPT !.state = s]
<1>2. r \in Request /\ r.domain \in Domains /\ r.last \in Nat /\ r.from \in Actors
      /\ wire \in Seq(Request)
  <2>1. wire \in Seq(Request)
    BY DEF InSync, TypeOK
  <2>2. i \in 1..Len(wire)
    BY <2>1, LenProperties
  <2> QED
    BY <2>1, <2>2, RequestIs, ElementOfSeq
<1>3. Fits(r, runs[r.from], b)
  BY DEF InSync, Wired
<1>4. s \in {"answered", "checked"} /\ (s = "answered" <=> IsTooOld(b, r.last, r.rebuild))
  OBVIOUS
<1>5. wire' = [wire EXCEPT ![i] = q]
  BY <1>1
<1> HIDE DEF s
<1>6. /\ q \in Request /\ q.state = s /\ q.from = r.from /\ q.domain = r.domain
      /\ q.last = r.last /\ q.rebuild = r.rebuild /\ q.page = r.page
  BY <1>2, <1>4 DEF Request
<1> HIDE DEF q, r, b
<1>7. r.page.tooOld
  BY <1>1, <1>3 DEF Fits, r
<1>8. /\ wire' \in Seq(Request) /\ DOMAIN wire' = DOMAIN wire
      /\ wire'[i] = q /\ \A j \in DOMAIN wire : j # i => wire'[j] = wire[j]
      /\ Line(wire')
      /\ \A d : Swaps(wire', wire, i, d)
  <2>1. /\ q.from = wire[i].from /\ q.domain = wire[i].domain /\ q.page.tooOld
        /\ Served(i) /\ wire' = [wire EXCEPT ![i] = q] /\ q \in Request
    BY <1>1, <1>5, <1>6, <1>7 DEF r
  <2> QED
    BY <2>1, ServedIs
<1>9. TypeOK'
  BY <1>1, <1>8 DEF InSync, TypeOK
<1>10. Wired'
  <2> SUFFICES ASSUME NEW j \in DOMAIN wire
               PROVE  Fits(wire'[j], runs'[wire'[j].from], server'[wire'[j].domain])
    BY <1>8 DEF Wired
  <2>1. server' = server /\ runs' = runs
    BY <1>1
  <2>2. CASE j # i
    BY <1>8, <2>1, <2>2 DEF InSync, Wired
  <2>3. CASE j = i
    <3>1. Fits(q, runs[q.from], b)
      BY <1>1, <1>3, <1>4, <1>6, <1>7 DEF Fits, IsTooOld, r
    <3> QED
      BY <1>6, <1>8, <2>1, <2>3, <3>1 DEF b, r
  <2> QED
    BY <2>2, <2>3
<1>11. ASSUME NEW d \in Domains PROVE InStep(d)'
  <2>1. PICK m : /\ Thins(wire', wire, m, d) /\ m[i] = 0
                 /\ \A j \in DOMAIN wire : j # i => m[j] # 0
    BY <1>8 DEF Swaps
  <2>2. /\ server'[d] = server[d] /\ table'[d] = table[d] /\ cursor'[d] = cursor[d]
        /\ exposed \subseteq exposed' /\ rebuilding'[d] = rebuilding[d]
    BY <1>1
  <2>3. ASSUME NoReset, NEW j \in DOMAIN wire', wire'[j].domain = d, m[j] = 0
        PROVE  Joins(wire'[j], wire, d, server[d], cursor[d], rebuilding[d])
    <3>1. j = i /\ wire'[j] = q /\ d = r.domain /\ b = server[d]
      BY <1>6, <1>8, <2>1, <2>3 DEF b, r
    <3>2. r.last <= cursor[d]
      BY <2>3, <3>1 DEF InSync, InStep, r
    <3>3. q.rebuild => Open(wire, d, cursor[d], rebuilding[d])
      BY <1>6, <3>1 DEF Open, r
    <3>4. q.state = "checked" => q.rebuild \/ server[d].safe <= cursor[d]
      <4>1. cursor[d] \in Nat /\ server[d].safe \in Nat
        BY DEF InSync, TypeOK, Box
      <4> QED
        BY <1>2, <1>4, <1>6, <3>1, <3>2, <4>1 DEF IsTooOld
    <3> QED
      BY <1>6, <3>1, <3>2, <3>3, <3>4 DEF Joins
  <2> QED
    BY <1>8, <2>1, <2>2, <2>3, Thinned
<1> QED
  BY <1>9, <1>10, <1>11 DEF InSync

\* The page is read.
LEMMA ReadKeeps ==
  ASSUME InSync, ReadPage
  PROVE  InSync'
<1>1. PICK i \in DOMAIN wire :
        /\ Served(i) /\ wire[i].state = "checked"
        /\ wire' = [wire EXCEPT ![i].state = "answered",
                                ![i].page = PageAfter(server[wire[i].domain], wire[i].last)]
        /\ UNCHANGED <<world, table, cursor, rebuilding, runs, queue, status, failed,
                       exposed, spent>>
  BY DEF ReadPage
<1> USE DEF world, queue
<1> DEFINE r == wire[i]
           b == server[wire[i].domain]
           page == PageAfter(b, r.last)
           q == [wire[i] EXCEPT !.state = "answered", !.page = page]
<1>2. r \in Request /\ r.domain \in Domains /\ r.last \in Nat /\ r.from \in Actors
      /\ wire \in Seq(Request)
  <2>1. wire \in Seq(Request)
    BY DEF InSync, TypeOK
  <2>2. i \in 1..Len(wire)
    BY <2>1, LenProperties
  <2> QED
    BY <2>1, <2>2, RequestIs, ElementOfSeq
<1>3. Fits(r, runs[r.from], b)
  BY DEF InSync, Wired
<1>4. b \in Box /\ Numbered(b)
  BY <1>2 DEF InSync, TypeOK, InStep
<1>5. page \in Page /\ ~page.tooOld
  <2> HIDE DEF b, r
  <2> QED
    BY <1>2, <1>4, PageAfterIs
<1>6. wire' = [wire EXCEPT ![i] = q]
  BY <1>1
<1> HIDE DEF page
<1>7. /\ q \in Request /\ q.state = "answered" /\ q.from = r.from /\ q.domain = r.domain
      /\ q.last = r.last /\ q.rebuild = r.rebuild /\ q.page = page
  BY <1>2, <1>5 DEF Request
<1> HIDE DEF q, r, b
<1>8. /\ wire' \in Seq(Request) /\ DOMAIN wire' = DOMAIN wire /\ Len(wire') = Len(wire)
      /\ wire'[i] = q /\ \A j \in DOMAIN wire : j # i => wire'[j] = wire[j]
      /\ Line(wire')
      /\ \A d : d # q.domain => Swaps(wire', wire, i, d)
  <2>1. /\ q.from = wire[i].from /\ q.domain = wire[i].domain
        /\ Served(i) /\ wire' = [wire EXCEPT ![i] = q] /\ q \in Request
    BY <1>1, <1>6, <1>7 DEF r
  <2> QED
    BY <2>1, ServedIs
<1>9. TypeOK'
  BY <1>1, <1>8 DEF InSync, TypeOK
<1>10. Wired'
  <2> SUFFICES ASSUME NEW j \in DOMAIN wire
               PROVE  Fits(wire'[j], runs'[wire'[j].from], server'[wire'[j].domain])
    BY <1>8 DEF Wired
  <2>1. server' = server /\ runs' = runs
    BY <1>1
  <2>2. CASE j # i
    BY <1>8, <2>1, <2>2 DEF InSync, Wired
  <2>3. CASE j = i
    <3>1. Fits(q, runs[q.from], b)
      BY <1>3, <1>5, <1>7 DEF Fits
    <3> QED
      BY <1>7, <1>8, <2>1, <2>3, <3>1 DEF b, r
  <2> QED
    BY <2>2, <2>3
<1>11. ASSUME NEW d \in Domains, d # q.domain PROVE InStep(d)'
  <2>1. PICK m : /\ Thins(wire', wire, m, d) /\ m[i] = 0
                 /\ \A j \in DOMAIN wire : j # i => m[j] # 0
    BY <1>8, <1>11 DEF Swaps
  <2>2. /\ server'[d] = server[d] /\ table'[d] = table[d] /\ cursor'[d] = cursor[d]
        /\ exposed \subseteq exposed' /\ rebuilding'[d] = rebuilding[d]
    BY <1>1
  <2>3. \A j \in DOMAIN wire' : ~(wire'[j].domain = d /\ m[j] = 0)
    BY <1>8, <1>11, <2>1
  <2> QED
    BY <1>8, <2>1, <2>2, <2>3, Thinned
<1>12. ASSUME NEW d \in Domains, d = q.domain PROVE InStep(d)'
  <2>1. d = wire[i].domain /\ b = server[d]
    BY <1>7, <1>12 DEF b, r
  <2>2. InStep(d) /\ cursor[d] \in Nat
    BY DEF InSync, TypeOK
  <2>3. \A j \in Pages(wire, d) : j \in Nat /\ j < i
    <3> SUFFICES ASSUME NEW j \in Pages(wire, d) PROVE j \in Nat /\ j < i
      OBVIOUS
    <3>1. j \in DOMAIN wire /\ ~wire[j].page.tooOld
      BY DEF Pages
    <3>2. wire[j].state = "answered"
      BY <3>1 DEF InSync, Wired, Fits
    <3>3. j # i /\ ~(i < j)
      BY <1>1, <3>1, <3>2 DEF InSync, Wired, Line
    <3> QED
      BY <1>2, <3>1, <3>3, RequestIs
  <2>4. Read(wire, wire', b, i)
    <3>1. r.page.tooOld
      BY <1>1, <1>3 DEF Fits, r
    <3> QED
      BY <1>1, <1>7, <1>8, <2>1, <2>3, <3>1 DEF Read, r, page
  <2>5. /\ wire' \in Seq(Request) /\ wire \in Seq(Request)
        /\ Fetched(wire, d, b, cursor[d])
    BY <1>2, <1>8, <2>1, <2>2 DEF InStep
  <2>6. Fetched(wire', d, b, cursor[d])
    BY <1>4, <2>1, <2>2, <2>4, <2>5, FetchedRead
  <2>7. GhostsHeard(wire, d, b, table[d], cursor[d], rebuilding[d]) =>
          GhostsHeard(wire', d, b, table[d], cursor[d], rebuilding[d])
    BY <1>4, <2>1, <2>2, <2>4, <2>5, GhostsRead
  <2>8. LacksNone(wire, d, b, table[d], cursor[d], rebuilding[d]) =>
          LacksNone(wire', d, b, table[d], cursor[d], rebuilding[d])
    BY <2>1, <2>4, LacksRead
  <2>9. NoReset => \A j \in DOMAIN wire' : wire'[j].domain = d => wire'[j].last <= cursor[d]
    BY <1>7, <1>8, <2>2 DEF InStep, r
  <2>10. (NoReset' <=> NoReset) /\ (NoPurge' <=> NoPurge) /\ (NoLate' <=> NoLate)
    BY <1>1 DEF NoReset, NoPurge, NoLate
  <2>11. /\ server'[d] = b /\ table'[d] = table[d] /\ cursor'[d] = cursor[d]
         /\ rebuilding'[d] = rebuilding[d]
    BY <1>1, <2>1
  <2> QED
    BY <1>4, <2>1, <2>2, <2>6, <2>7, <2>8, <2>9, <2>10, <2>11 DEF InStep
<1> QED
  BY <1>9, <1>10, <1>11, <1>12 DEF InSync

-----------------------------------------------------------------------------
(* The client's steps *)

\* The runs an actor may have.
LEMMA RunIs ==
  /\ \A todo \in Seq(Domains) : Between(todo) \in Run
  /\ Idle \in Run
  /\ \A pc \in {"idle", "ended"} : [Idle EXCEPT !.pc = pc] \in Run
  /\ Idle.pc = "idle" /\ \A pc : [Idle EXCEPT !.pc = pc].pc = pc
<1>1. <<>> \in Seq(Domains)
  BY EmptySeq
<1> QED
  BY <1>1 DEF Between, Idle, Run

\* Steps that touch no request and no table.
LEMMA Undisturbed ==
  ASSUME InSync, UNCHANGED <<wire, server, table, cursor, rebuilding, exposed>>,
         \A a \in Actors : runs[a].pc = "waiting" => runs'[a] = runs[a]
  PROVE  Wired' /\ \A d \in Domains : InStep(d)'
<1>1. wire \in Seq(Request) /\ Line(wire)
  BY DEF InSync, TypeOK, Wired
<1>2. Wired'
  <2>1. \A i \in DOMAIN wire : runs'[wire[i].from] = runs[wire[i].from]
    BY <1>1, RequestIs DEF InSync, Wired, Fits
  <2>2. \A d \in Domains : server'[d] \in Box /\ server[d].safe <= server'[d].safe
    <3>1. \A d \in Domains : server'[d] \in Box /\ server[d] = server'[d]
      BY DEF InSync, TypeOK
    <3>2. \A d \in Domains : server[d].safe \in Nat
      BY DEF InSync, TypeOK, Box
    <3> QED
      BY <3>1, <3>2
  <2> QED
    BY <1>1, <2>1, <2>2, StillWired
<1>3. ASSUME NEW d \in Domains PROVE InStep(d)'
  <2>1. wire' \in Seq(Request) /\ Remains(wire', wire, 0, d)
    BY <1>1, AllRemain
  <2> QED
    BY <2>1, Untroubled
<1> QED
  BY <1>2, <1>3

\* A stage or a task is entered.
LEMMA BeginKeeps ==
  ASSUME InSync, NEW a \in Actors, Begin(a)
  PROVE  InSync'
<1> DEFINE d == Head(runs[a].todo)
           zero == Kind[d] # "conversations" /\ cursor[d] = 0
           r == RequestFor(a, d, cursor[d], zero, rebuilding[d])
           run == [runs[a] EXCEPT !.pc = "waiting", !.rebuild = zero]
           l == Len(wire) + 1
<1>1. /\ runs[a].pc = "between" /\ runs[a].todo # <<>>
      /\ wire' = Append(wire, r)
      /\ runs' = [runs EXCEPT ![a] = run]
      /\ failed' = failed \ {d}
      /\ UNCHANGED <<world, table, cursor, rebuilding, queue, status, exposed, spent>>
  BY DEF Begin
<1> USE DEF world, queue
<1>2. /\ wire \in Seq(Request) /\ Line(wire) /\ runs \in [Actors -> Run] /\ runs[a] \in Run
      /\ server \in [Domains -> Box]
  BY DEF InSync, TypeOK, Wired
<1>3. d \in Domains /\ runs[a].todo \in Seq(Domains)
  <2>1. runs[a].todo \in Seq(Domains)
    BY <1>2 DEF Run
  <2> QED
    BY <1>1, <2>1, HeadTailProperties
<1>4. cursor[d] \in Nat /\ rebuilding[d] \in BOOLEAN /\ zero \in BOOLEAN
  BY <1>3 DEF InSync, TypeOK
<1> HIDE DEF d
<1>5. /\ r \in Request
      /\ r.from = a /\ r.domain = d /\ r.last = cursor[d] /\ r.page.tooOld
      /\ r.state \in {"sent", "checked"}
      /\ r.state = "sent" <=> Kind[d] = "relation"
      /\ r.rebuild <=> Kind[d] # "conversations" /\ (zero \/ cursor[d] = 0 \/ rebuilding[d])
  <2> HIDE DEF zero
  <2> QED
    BY <1>3, <1>4, RequestForIs
<1>6. run \in Run /\ run.pc = "waiting" /\ run.todo = runs[a].todo /\ run.rebuild = zero
  BY <1>2, <1>4 DEF Run
<1>7. zero => Kind[d] # "conversations"
  OBVIOUS
<1> HIDE DEF r, run, zero
<1>8. \A i \in DOMAIN wire : wire[i].from # a
  BY <1>1 DEF InSync, Wired, Fits
<1>9. /\ wire' \in Seq(Request) /\ l \in DOMAIN wire' /\ wire'[l] = r
      /\ \A i \in DOMAIN wire' : i = l \/ (i \in DOMAIN wire /\ wire'[i] = wire[i])
      /\ \A e : Renews(wire', wire, 0, e, l)
  <2>1. /\ wire' \in Seq(Request) /\ l \in DOMAIN wire' /\ wire'[l] = r
        /\ \A i \in DOMAIN wire' : i = l \/ (i \in DOMAIN wire /\ wire'[i] = wire[i])
    BY <1>1, <1>2, <1>5, AppendIs
  <2>2. ASSUME NEW e PROVE Renews(wire', wire, 0, e, l)
    <3>1. Remains(wire, wire, 0, e)
      BY <1>2, AllRemain
    <3> QED
      BY <1>1, <1>2, <1>5, <3>1, AppendRenews
  <2> QED
    BY <2>1, <2>2
<1>10. Line(wire')
  BY <1>1, <1>2, <1>5, <1>8, AppendLine
<1> HIDE DEF l
<1>11. TypeOK'
  BY <1>1, <1>2, <1>6, <1>9 DEF InSync, TypeOK
<1>12. Wired'
  <2> SUFFICES ASSUME NEW j \in DOMAIN wire'
               PROVE  Fits(wire'[j], runs'[wire'[j].from], server'[wire'[j].domain])
    BY <1>10 DEF Wired
  <2>1. CASE j # l
    <3>1. j \in DOMAIN wire /\ wire'[j] = wire[j] /\ runs'[wire[j].from] = runs[wire[j].from]
      BY <1>1, <1>2, <1>8, <1>9, <2>1
    <3>2. server' = server
      BY <1>1
    <3> QED
      BY <3>1, <3>2 DEF InSync, Wired
  <2>2. CASE j = l
    <3>1. runs'[a] = run
      BY <1>1, <1>2
    <3>2. Fits(r, run, server[d])
      BY <1>1, <1>5, <1>6, <1>7 DEF Fits, d
    <3>3. server' = server
      BY <1>1
    <3> QED
      BY <1>5, <1>9, <2>2, <3>1, <3>2, <3>3
  <2> QED
    BY <2>1, <2>2
<1>13. ASSUME NEW e \in Domains PROVE InStep(e)'
  <2>1. /\ server'[e] = server[e] /\ table'[e] = table[e] /\ cursor'[e] = cursor[e]
        /\ exposed \subseteq exposed' /\ rebuilding'[e] = rebuilding[e]
    BY <1>1
  <2>2. ASSUME wire'[l].domain = e
        PROVE  Joins(wire'[l], wire, e, server[e], cursor[e], rebuilding[e])
    <3>1. e = d
      BY <1>5, <1>9, <2>2
    <3>2. r.rebuild => Open(wire, d, cursor[d], rebuilding[d])
      BY <1>5 DEF Open, zero
    <3>3. r.state = "checked" => Open(wire, d, cursor[d], rebuilding[d])
      BY <1>5 DEF Open
    <3>4. r.last <= cursor[d]
      BY <1>4, <1>5
    <3> QED
      BY <1>9, <3>1, <3>2, <3>3, <3>4 DEF Joins
  <2> QED
    BY <1>9, <2>1, <2>2, Renewed
<1> QED
  BY <1>11, <1>12, <1>13 DEF InSync

\* Every stage is done.
LEMMA EndBackgroundKeeps ==
  ASSUME InSync, EndBackground
  PROVE  InSync'
<1> USE DEF EndBackground, world, queue
<1>1. runs' \in [Actors -> Run]
  <2>1. runs \in [Actors -> Run] /\ [Idle EXCEPT !.pc = "ended"] \in Run
    BY RunIs DEF InSync, TypeOK
  <2> QED
    BY <2>1
<1>2. TypeOK'
  BY <1>1 DEF InSync, TypeOK
<1>3. ASSUME NEW a \in Actors, runs[a].pc = "waiting" PROVE runs'[a] = runs[a]
  <2>1. runs["background"].pc = "between"
    BY DEF Between
  <2>2. a # "background" /\ runs \in [Actors -> Run]
    BY <1>3, <2>1 DEF InSync, TypeOK
  <2> QED
    BY <2>2
<1> QED
  BY <1>2, <1>3, Undisturbed DEF InSync

\* The node at the head of the queue runs.
LEMMA HandleKeeps ==
  ASSUME InSync, Handle
  PROVE  InSync'
<1> USE DEF Handle, world, queue
<1>1. Head(chain) \in Domains
  <2>1. Head(chain) \in Notices
    BY HeadTailProperties DEF InSync, TypeOK
  <2> QED
    BY <2>1 DEF Notices
<1>2. Task(Head(chain)) \in Seq(Domains)
  <2> DEFINE C == {d \in Domains : Kind[d] = "conversations"}
  <2>1. C # {} => (CHOOSE d \in C : TRUE) \in Domains
    OBVIOUS
  <2> DEFINE x == CHOOSE d \in C : TRUE
  <2>2. /\ Task(Head(chain)) = IF Kind[Head(chain)] = "messages" /\ C # {}
                               THEN <<Head(chain), x>> ELSE <<Head(chain)>>
    BY DEF Task
  <2> HIDE DEF C, x
  <2>3. C # {} => x \in Domains
    BY <2>1 DEF x
  <2>4. <<Head(chain)>> \in Seq(Domains)
    BY <1>1
  <2>5. CASE C # {}
    <3>1. <<Head(chain), x>> \in Seq(Domains)
      BY <1>1, <2>3, <2>5
    <3> QED
      BY <2>2, <2>4, <3>1
  <2>6. CASE C = {}
    BY <2>2, <2>4, <2>6
  <2> QED
    BY <2>5, <2>6
<1>3. runs' \in [Actors -> Run]
  BY <1>2, RunIs DEF InSync, TypeOK
<1>4. TypeOK'
  BY <1>3 DEF InSync, TypeOK
<1>5. ASSUME NEW a \in Actors, runs[a].pc = "waiting" PROVE runs'[a] = runs[a]
  BY <1>5 DEF InSync, TypeOK
<1> QED
  BY <1>4, <1>5, Undisturbed DEF InSync

\* The handler is done.
LEMMA HandlerDoneKeeps ==
  ASSUME InSync, HandlerDone
  PROVE  InSync'
<1> USE DEF HandlerDone, world, queue
<1>1. runs' \in [Actors -> Run]
  BY RunIs DEF InSync, TypeOK
<1>2. status' \in [Domains -> {"undefined", "success", "failed"}]
  BY DEF InSync, TypeOK
<1>3. TypeOK'
  BY <1>1, <1>2 DEF InSync, TypeOK
<1>4. ASSUME NEW a \in Actors, runs[a].pc = "waiting" PROVE runs'[a] = runs[a]
  <2>1. runs["handler"].pc = "between"
    BY DEF Between
  <2>2. a # "handler" /\ runs \in [Actors -> Run]
    BY <1>4, <2>1 DEF InSync, TypeOK
  <2> QED
    BY <2>2
<1> QED
  BY <1>3, <1>4, Undisturbed DEF InSync

\* The next node follows.
LEMMA NextNodeKeeps ==
  ASSUME InSync, NextNode
  PROVE  InSync'
<1> USE DEF NextNode, world, queue
<1>1. chain' \in Seq(Notices)
  BY HeadTailProperties DEF InSync, TypeOK
<1>2. TypeOK'
  BY <1>1 DEF InSync, TypeOK
<1> QED
  BY <1>2, Undisturbed DEF InSync

\* A notification is queued.
LEMMA NotifiedKeeps ==
  ASSUME InSync, Notified
  PROVE  InSync'
<1> USE DEF Untouched, world, queue
<1>1. /\ Untouched
      /\ notices' \subseteq Domains /\ gone' \subseteq Domains \X Keys
      /\ deleted' \subseteq Domains \X Keys
      /\ \E n \in Notices : Enqueue(n)
  <2>1. CASE \E d \in Domains : Deliver(d)
    <3>1. PICK d \in Domains : Deliver(d)
      BY <2>1
    <3> QED
      BY <3>1 DEF Deliver, InSync, TypeOK, Notices
  <2>2. CASE \E d \in Domains, k \in Keys : DeliverDeletion(d, k)
    <3>1. PICK d \in Domains, k \in Keys : DeliverDeletion(d, k)
      BY <2>2
    <3>2. <<d, k>> \in Domains \X Keys
      OBVIOUS
    <3>3. DeletionOf(d) \in Notices
      BY DEF DeletionOf, Notices, Deletions
    <3> QED
      BY <3>1, <3>2, <3>3 DEF DeliverDeletion, InSync, TypeOK
  <2> QED
    BY <2>1, <2>2 DEF Notified
<1>2. chain' \in Seq(Notices) /\ flags' \in [Notices -> BOOLEAN]
  <2>1. PICK n \in Notices : Enqueue(n)
    BY <1>1
  <2>2. chain \in Seq(Notices) /\ flags \in [Notices -> BOOLEAN]
    BY DEF InSync, TypeOK
  <2>3. Append(chain, n) \in Seq(Notices)
    BY <2>2, AppendProperties
  <2> QED
    BY <2>1, <2>2, <2>3 DEF Enqueue
<1>3. TypeOK'
  BY <1>1, <1>2 DEF InSync, TypeOK
<1> QED
  BY <1>1, <1>3, Undisturbed DEF InSync

\* Rows are deleted in the copy, of which none is live at the server or of which
\* nothing is said.
LEMMA Shrunk ==
  ASSUME NEW d, NEW w, NEW b, NEW t, NEW c, NEW f, NEW u,
         \A k \in Keys : u[k] = t[k] \/ u[k] = 0
  PROVE  /\ GhostsHeard(w, d, b, t, c, f) => GhostsHeard(w, d, b, u, c, f)
         /\ (\A k \in Keys : u[k] = t[k] \/ b.rows[k].state # "live") =>
              (LacksNone(w, d, b, t, c, f) => LacksNone(w, d, b, u, c, f))
<1>1. \A n : \A k \in Keys : Comes(w, d, u, k, n) => Comes(w, d, t, k, n)
  BY DEF Comes
<1>2. GhostsHeard(w, d, b, t, c, f) => GhostsHeard(w, d, b, u, c, f)
  BY <1>1 DEF GhostsHeard
<1>3. ASSUME \A k \in Keys : u[k] = t[k] \/ b.rows[k].state # "live"
      PROVE  \A k \in Keys : Lacks(b, u, c, k) => Lacks(b, t, c, k)
  BY <1>3 DEF Lacks
<1> QED
  BY <1>2, <1>3 DEF LacksNone

\* The deletions that were announced are carried out.
LEMMA HandleDeletionsKeeps ==
  ASSUME InSync, HandleDeletions
  PROVE  InSync'
<1> DEFINE named == {x \in deleted : DeletionOf(x[1]) = Head(chain)}
<1>1. /\ flags' = [flags EXCEPT ![Head(chain)] = FALSE]
      /\ deleted' = deleted \ named
      /\ table' = [d \in Domains |-> [k \in Keys |-> IF <<d, k>> \in named THEN 0 ELSE table[d][k]]]
      /\ exposed' = IF \E x \in named : server[x[1]].rows[x[2]].state = "live"
                    THEN exposed \cup {"late deletion"} ELSE exposed
      /\ UNCHANGED <<world, wire, cursor, rebuilding, runs, chain, status, failed, spent>>
  BY DEF HandleDeletions
<1> HIDE DEF named
<1> USE DEF world, queue
<1>2. TypeOK'
  <2>1. table' \in [Domains -> [Keys -> Nat]]
    BY <1>1 DEF InSync, TypeOK
  <2>2. exposed' \subseteq {"reset overlaps", "unguarded purge", "late deletion"}
    BY <1>1 DEF InSync, TypeOK
  <2>3. flags' \in [Notices -> BOOLEAN] /\ deleted' \subseteq Domains \X Keys
    BY <1>1 DEF InSync, TypeOK
  <2> QED
    BY <1>1, <2>1, <2>2, <2>3 DEF InSync, TypeOK
<1>3. Wired'
  BY <1>1 DEF InSync, Wired
<1>4. ASSUME NEW d \in Domains PROVE InStep(d)'
  <2> DEFINE t == table[d]
             u == [k \in Keys |-> IF <<d, k>> \in named THEN 0 ELSE table[d][k]]
             b == server[d]
             c == cursor[d]
             f == rebuilding[d]
  <2>1. table'[d] = u /\ wire' = wire /\ server'[d] = b /\ cursor'[d] = c /\ rebuilding'[d] = f
    BY <1>1
  <2>2. \A k \in Keys : u[k] = t[k] \/ u[k] = 0
    OBVIOUS
  <2>3. NoLate' => \A k \in Keys : u[k] = t[k] \/ b.rows[k].state # "live"
    <3> SUFFICES ASSUME NoLate', NEW k \in Keys, <<d, k>> \in named PROVE b.rows[k].state # "live"
      OBVIOUS
    <3>1. ~\E x \in named : server[x[1]].rows[x[2]].state = "live"
      BY <1>1 DEF NoLate
    <3>2. <<d, k>>[1] = d /\ <<d, k>>[2] = k
      OBVIOUS
    <3> QED
      BY <3>1, <3>2
  <2>4. InStep(d)
    BY DEF InSync
  <2>5. (NoReset' <=> NoReset) /\ (NoPurge' <=> NoPurge) /\ (NoLate' => NoLate)
    BY <1>1 DEF NoReset, NoPurge, NoLate
  <2> HIDE DEF t, u, b, c, f
  <2>6. GhostsHeard(wire, d, b, t, c, f) => GhostsHeard(wire, d, b, u, c, f)
    BY <2>2, Shrunk
  <2>7. NoLate' => (LacksNone(wire, d, b, t, c, f) => LacksNone(wire, d, b, u, c, f))
    BY <2>2, <2>3, Shrunk
  <2> QED
    BY <2>1, <2>4, <2>5, <2>6, <2>7 DEF InStep, t, b, c, f
<1> QED
  BY <1>2, <1>3, <1>4 DEF InSync

\* An actor that waits gives its task up, and its request is gone from the wire.
LEMMA GivingUpKeeps ==
  ASSUME InSync, NEW a \in Actors, NEW d \in Domains, GivesUp(a, d), NEW p \in DOMAIN wire,
         wire[p].from = a, wire' \in Seq(Request), Line(wire'),
         \A i \in DOMAIN wire' : \E j \in DOMAIN wire : j # p /\ wire'[i] = wire[j],
         \A e : Remains(wire', wire, p, e),
         UNCHANGED <<world, table, cursor, rebuilding, queue, exposed>>
  PROVE  InSync'
<1> USE DEF world, queue
<1>1. /\ wire \in Seq(Request) /\ Line(wire) /\ runs \in [Actors -> Run]
      /\ runs[a].todo \in Seq(Domains)
  BY DEF InSync, TypeOK, Wired, Run
<1>2. runs' \in [Actors -> Run]
  <2> DEFINE pc == IF a = "background" THEN "ended" ELSE "idle"
  <2>1. pc \in {"idle", "ended"} /\ runs' = [runs EXCEPT ![a] = [Idle EXCEPT !.pc = pc]]
    BY DEF GivesUp
  <2> HIDE DEF pc
  <2>2. [Idle EXCEPT !.pc = pc] \in Run
    BY <2>1, RunIs
  <2> QED
    BY <1>1, <2>1, <2>2
<1>3. status' \in [Domains -> {"undefined", "success", "failed"}]
  BY DEF InSync, TypeOK, GivesUp
<1>4. failed' \subseteq Domains
  <2>1. \A i \in DOMAIN runs[a].todo : runs[a].todo[i] \in Domains
    BY <1>1, LenProperties, ElementOfSeq
  <2> DEFINE todo == runs[a].todo
             left == {todo[i] : i \in DOMAIN todo}
  <2>2. left \subseteq Domains
    BY <2>1
  <2>3. failed' = failed \cup left /\ failed \subseteq Domains
    BY DEF GivesUp, InSync, TypeOK
  <2> QED
    BY <2>2, <2>3
<1>5. TypeOK'
  BY <1>2, <1>3, <1>4 DEF InSync, TypeOK
<1>6. Wired'
  <2>1. \A i \in DOMAIN wire' : \E j \in DOMAIN wire :
          wire'[i] = wire[j] /\ runs'[wire[j].from] = runs[wire[j].from]
    <3> SUFFICES ASSUME NEW i \in DOMAIN wire'
                 PROVE  \E j \in DOMAIN wire :
                          wire'[i] = wire[j] /\ runs'[wire[j].from] = runs[wire[j].from]
      OBVIOUS
    <3>1. PICK j \in DOMAIN wire : j # p /\ wire'[i] = wire[j]
      OBVIOUS
    <3>2. wire[j].from # a /\ wire[j].from \in Actors
      BY <1>1, <3>1, RequestIs DEF Line
    <3> QED
      BY <1>1, <3>1, <3>2 DEF GivesUp
  <2>2. \A e \in Domains : server'[e] \in Box /\ server[e].safe <= server'[e].safe
    <3>1. \A e \in Domains : server'[e] \in Box /\ server[e] = server'[e]
      BY DEF InSync, TypeOK
    <3>2. \A e \in Domains : server[e].safe \in Nat
      BY DEF InSync, TypeOK, Box
    <3> QED
      BY <3>1, <3>2
  <2> QED
    BY <2>1, <2>2, StillWired
<1>7. ASSUME NEW e \in Domains PROVE InStep(e)'
  BY Untroubled
<1> QED
  BY <1>5, <1>6, <1>7 DEF InSync

\* The answer that arrives.
LEMMA ArrivesIs ==
  ASSUME InSync, NEW a \in Actors, NEW d \in Domains, Arrives(a, d)
  PROVE  /\ wire \in Seq(Request) /\ wire # <<>> /\ Line(wire) /\ runs \in [Actors -> Run]
         /\ 1 \in DOMAIN wire /\ Head(wire) = wire[1]
         /\ wire[1].from = a /\ wire[1].domain = d /\ wire[1].state = "answered"
         /\ Fits(wire[1], runs[a], server[d])
         /\ wire[1].last \in Nat /\ wire[1].page \in Page /\ wire[1].page.cursor \in Nat
         /\ runs[a] \in Run /\ runs[a].todo \in Seq(Domains) /\ runs[a].todo # <<>>
<1>1. /\ wire \in Seq(Request) /\ wire # <<>> /\ Line(wire) /\ runs \in [Actors -> Run]
      /\ runs[a].todo \in Seq(Domains)
  BY DEF InSync, TypeOK, Wired, Run, Arrives
<1>2. 1 \in DOMAIN wire /\ Head(wire) = wire[1]
  BY <1>1, TailIs
<1>3. wire[1].from = a /\ wire[1].domain = d /\ wire[1].state = "answered"
  BY <1>2 DEF Arrives
<1>4. Fits(wire[1], runs[a], server[d])
  BY <1>2, <1>3 DEF InSync, Wired
<1>5. runs[a].todo # <<>>
  BY <1>4 DEF Fits
<1>6. wire[1].last \in Nat /\ wire[1].page \in Page /\ wire[1].page.cursor \in Nat
  BY <1>1, <1>2, RequestIs
<1> QED
  BY <1>1, <1>2, <1>3, <1>4, <1>5, <1>6

\* The insert of a message row fails.
LEMMA RejectKeeps ==
  ASSUME InSync, NEW a \in Actors, NEW d \in Domains, Reject(a, d)
  PROVE  InSync'
<1> USE DEF Reject, world, queue
<1>1. /\ wire \in Seq(Request) /\ wire # <<>> /\ Line(wire) /\ 1 \in DOMAIN wire
      /\ wire[1].from = a
  BY ArrivesIs
<1>2. /\ wire' \in Seq(Request) /\ Line(wire')
      /\ \A e : Remains(wire', wire, 1, e)
  BY <1>1, TailIs
<1>3. \A i \in DOMAIN wire' : i \in Nat /\ i + 1 \in DOMAIN wire /\ wire'[i] = wire[i + 1]
  BY <1>1, TailIs
<1>4. \A i \in DOMAIN wire' : \E j \in DOMAIN wire : j # 1 /\ wire'[i] = wire[j]
  <2> SUFFICES ASSUME NEW i \in DOMAIN wire'
               PROVE  \E j \in DOMAIN wire : j # 1 /\ wire'[i] = wire[j]
    OBVIOUS
  <2>1. i + 1 \in DOMAIN wire /\ wire'[i] = wire[i + 1] /\ i \in Nat
    BY <1>3
  <2>2. i # 0
    BY <1>2, RequestIs
  <2> QED
    BY <2>1, <2>2
<1> QED
  BY <1>1, <1>2, <1>4, GivingUpKeeps

\* A request fails.
LEMMA FailKeeps ==
  ASSUME InSync, NEW a \in Actors, NEW d \in Domains, Fail(a, d)
  PROVE  InSync'
<1>1. PICK p \in DOMAIN wire : wire[p].from = a /\ wire' = Without(wire, p)
  BY DEF Fail, Without
<1>2. wire \in Seq(Request) /\ Line(wire)
  BY DEF InSync, TypeOK, Wired
<1>3. /\ wire' \in Seq(Request) /\ Line(wire')
      /\ \A i \in DOMAIN wire' : \E j \in DOMAIN wire : j # p /\ wire'[i] = wire[j]
      /\ \A e : Remains(wire', wire, p, e)
  BY <1>1, <1>2, WithoutIs
<1>4. GivesUp(a, d) /\ UNCHANGED <<world, table, cursor, rebuilding, queue, exposed>>
  BY DEF Fail
<1> QED
  BY <1>1, <1>3, <1>4, GivingUpKeeps

\* After the first answer the others follow, and perhaps a new request.
LEMMA Popped ==
  ASSUME NEW d, NEW v, NEW w, NEW l, Remains(v, w, 1, d) \/ Renews(v, w, 1, d, l)
  PROVE  \E m : Pops(v, w, m, d)
<1>1. CASE Remains(v, w, 1, d)
  BY <1>1 DEF Remains, Pops
<1>2. CASE Renews(v, w, 1, d, l)
  <2>1. PICK m : /\ Thins(v, w, m, d) /\ m[l] = 0
                 /\ \A j \in DOMAIN v : j # l => m[j] # 0 /\ m[j] # 1
    BY <1>2 DEF Renews
  <2> QED
    BY <2>1 DEF Pops
<1> QED
  BY <1>1, <1>2

\* The copy starts again from zero.
LEMMA ResetKeeps ==
  ASSUME InSync, NEW a \in Actors, NEW d \in Domains, Reset(a, d)
  PROVE  InSync'
<1> DEFINE r == RequestFor(a, d, 0, TRUE, TRUE)
           run == [runs[a] EXCEPT !.rebuild = TRUE]
           u == Tail(wire)
           l == Len(u) + 1
<1>1. /\ Arrives(a, d) /\ Head(wire).page.tooOld
      /\ table' = [table EXCEPT ![d] = [k \in Keys |-> 0]]
      /\ cursor' = [cursor EXCEPT ![d] = 0]
      /\ rebuilding' = [rebuilding EXCEPT ![d] = TRUE]
      /\ wire' = Append(u, r)
      /\ runs' = [runs EXCEPT ![a] = run]
      /\ exposed' = IF \E x \in Actors \ {a} : InDomain(x, d)
                    THEN exposed \cup {"reset overlaps"} ELSE exposed
      /\ UNCHANGED <<world, queue, status, failed, spent>>
  BY DEF Reset, ResetCursor
<1> USE DEF world, queue
<1>2. /\ wire \in Seq(Request) /\ wire # <<>> /\ Line(wire) /\ runs \in [Actors -> Run]
      /\ 1 \in DOMAIN wire /\ Head(wire) = wire[1]
      /\ wire[1].from = a /\ wire[1].domain = d /\ wire[1].state = "answered"
      /\ Fits(wire[1], runs[a], server[d])
      /\ runs[a] \in Run
  BY <1>1, ArrivesIs
<1>3. /\ Kind[d] = "relation" /\ runs[a].pc = "waiting"
      /\ runs[a].todo # <<>> /\ Head(runs[a].todo) = d
  BY <1>1, <1>2 DEF Fits
<1>4. /\ r \in Request
      /\ r.from = a /\ r.domain = d /\ r.last = 0 /\ r.page.tooOld
      /\ r.state = "sent" /\ r.rebuild
  <2> DEFINE zero == 0
             yes == TRUE
  <2>1. zero \in Nat /\ yes \in BOOLEAN /\ r = RequestFor(a, d, zero, yes, yes)
    OBVIOUS
  <2> HIDE DEF r, zero, yes
  <2>2. /\ r \in Request
        /\ r.from = a /\ r.domain = d /\ r.last = zero /\ r.page.tooOld
        /\ r.state = "sent" <=> Kind[d] = "relation"
        /\ r.rebuild <=> Kind[d] # "conversations" /\ (yes \/ zero = 0 \/ yes)
    BY <2>1, RequestForIs
  <2> QED
    BY <1>3, <2>2 DEF zero, yes
<1>5. run \in Run /\ run.pc = "waiting" /\ run.todo = runs[a].todo /\ run.rebuild
  BY <1>2, <1>3 DEF Run
<1> HIDE DEF r, run
<1>6. /\ u \in Seq(Request) /\ Line(u)
      /\ \A i \in DOMAIN u : /\ i \in Nat /\ i + 1 \in DOMAIN wire /\ u[i] = wire[i + 1]
                             /\ u[i].from # a
  BY <1>2, TailIs
<1>7. \A e : Remains(u, wire, 1, e)
  BY <1>2, TailIs
<1> HIDE DEF u
<1>8. /\ wire' \in Seq(Request) /\ l \in DOMAIN wire' /\ wire'[l] = r
      /\ \A i \in DOMAIN wire' : i = l \/ (i \in DOMAIN u /\ wire'[i] = u[i])
  BY <1>1, <1>4, <1>6, AppendIs, ZenonT(60)
<1>9. ASSUME NEW e PROVE Renews(wire', wire, 1, e, l)
  BY <1>1, <1>4, <1>6, <1>7, AppendRenews
<1>10. Line(wire')
  BY <1>1, <1>4, <1>6, AppendLine
<1> HIDE DEF l
<1>11. TypeOK'
  <2>1. runs' \in [Actors -> Run]
    BY <1>1, <1>2, <1>5
  <2>2. /\ table' \in [Domains -> [Keys -> Nat]] /\ cursor' \in [Domains -> Nat]
        /\ rebuilding' \in [Domains -> BOOLEAN]
    BY <1>1 DEF InSync, TypeOK
  <2>3. exposed' \subseteq {"reset overlaps", "unguarded purge", "late deletion"}
    BY <1>1 DEF InSync, TypeOK
  <2> QED
    BY <1>1, <1>8, <2>1, <2>2, <2>3 DEF InSync, TypeOK
<1>12. Wired'
  <2> SUFFICES ASSUME NEW j \in DOMAIN wire'
               PROVE  Fits(wire'[j], runs'[wire'[j].from], server'[wire'[j].domain])
    BY <1>10 DEF Wired
  <2>0. server' = server
    BY <1>1
  <2>1. CASE j # l
    <3>1. j \in DOMAIN u /\ wire'[j] = u[j]
      BY <1>8, <2>1
    <3>2. j + 1 \in DOMAIN wire /\ wire'[j] = wire[j + 1] /\ wire[j + 1].from # a
      BY <1>6, <3>1
    <3>4. wire[j + 1].from \in Actors
      BY <1>2, <3>2, RequestIs
    <3>3. runs'[wire[j + 1].from] = runs[wire[j + 1].from]
      BY <1>1, <1>2, <3>2, <3>4
    <3> QED
      BY <2>0, <3>2, <3>3 DEF InSync, Wired
  <2>2. CASE j = l
    <3>1. runs'[a] = run
      BY <1>1, <1>2
    <3>2. Fits(r, run, server[d])
      BY <1>3, <1>4, <1>5 DEF Fits
    <3> QED
      BY <1>4, <1>8, <2>0, <2>2, <3>1, <3>2
  <2> QED
    BY <2>1, <2>2
<1>13. ASSUME NEW e \in Domains, e # d PROVE InStep(e)'
  <2>1. /\ server'[e] = server[e] /\ table'[e] = table[e] /\ cursor'[e] = cursor[e]
        /\ exposed \subseteq exposed' /\ rebuilding'[e] = rebuilding[e]
    BY <1>1, <1>13 DEF InSync, TypeOK
  <2>2. wire'[l].domain # e
    BY <1>4, <1>8, <1>13
  <2>3. Renews(wire', wire, 1, e, l)
    BY <1>9
  <2> QED
    BY <1>8, <2>1, <2>2, <2>3, Renewed
<1>14. InStep(d)'
  <2> DEFINE b == server[d]
             t == [k \in Keys |-> 0]
             c == cursor[d]
  <2>1. /\ server'[d] = b /\ table'[d] = t /\ cursor'[d] = 0
    BY <1>1 DEF InSync, TypeOK
  <2>10. b \in Box /\ c \in Nat
    BY DEF InSync, TypeOK
  <2>11. Numbered(b) /\ Fetched(wire, d, b, c)
    BY DEF InSync, InStep
  <2>2. b \in Box /\ c \in Nat /\ Numbered(b) /\ Fetched(wire, d, b, c) /\ 0 \in Nat /\ 0 <= c
    BY <2>10, <2>11
  <2> HIDE DEF b, c
  <2>3. Fetched(wire', d, b, 0)
    <3>1. PICK m : Thins(wire', wire, m, d)
      BY <1>9 DEF Renews
    <3> QED
      BY <1>2, <1>8, <2>2, <3>1, FetchedThins
  <2>4. NoReset' => \A i \in DOMAIN wire' : wire'[i].domain = d => i = l
    <3> SUFFICES ASSUME NoReset', NEW i \in DOMAIN wire', wire'[i].domain = d, i # l
                 PROVE  FALSE
      OBVIOUS
    <3>1. i \in DOMAIN u /\ wire'[i] = u[i]
      BY <1>8
    <3>2. i + 1 \in DOMAIN wire /\ wire'[i] = wire[i + 1] /\ wire[i + 1].from # a
      BY <1>6, <3>1
    <3>3. wire[i + 1].from \in Actors /\ wire[i + 1].domain = d
      BY <1>2, <3>2, RequestIs
    <3>4. Fits(wire[i + 1], runs[wire[i + 1].from], server[d])
      BY <3>2, <3>3 DEF InSync, Wired
    <3>5. InDomain(wire[i + 1].from, d)
      BY <3>3, <3>4 DEF Fits, InDomain
    <3> QED
      BY <1>1, <3>2, <3>3, <3>5 DEF NoReset
  <2>5. NoReset' => Pages(wire', d) = {}
    BY <1>4, <1>8, <2>4 DEF Pages
  <2>6. NoReset' => \A i \in DOMAIN wire' : wire'[i].domain = d => wire'[i].last <= 0
    BY <1>4, <1>8, <2>4
  <2>7. NoReset' => GhostsHeard(wire', d, b, t, 0, rebuilding'[d])
    BY <2>5 DEF GhostsHeard, Comes
  <2>8. \A k \in Keys : ~Lacks(b, t, 0, k)
    BY <2>2, RowIs DEF Lacks, Numbered
  <2>9. LacksNone(wire', d, b, t, 0, rebuilding'[d])
    BY <2>8 DEF LacksNone
  <2> QED
    BY <2>1, <2>2, <2>3, <2>6, <2>7, <2>9 DEF InStep
<1> QED
  BY <1>11, <1>12, <1>13, <1>14 DEF InSync

\* A domain in which the page that came first is applied, with its cursor or not.
LEMMA AppliedInStep ==
  ASSUME InSync, NEW d \in Domains, 1 \in Pages(wire, d), wire' \in Seq(Request),
         NEW l, Remains(wire', wire, 1, d) \/ Renews(wire', wire, 1, d, l),
         server'[d] = server[d], table'[d] = Applied(table[d], wire[1].page),
         cursor'[d] \in {cursor[d], Saved(cursor[d], wire[1].page)}, exposed' = exposed,
         NoReset => \A i \in DOMAIN wire' : wire'[i].domain = d => wire'[i].last <= cursor'[d],
         Open(wire', d, cursor'[d], rebuilding'[d]) => Open(wire, d, cursor[d], rebuilding[d])
  PROVE  InStep(d)'
<1> DEFINE b == server[d]
           c == cursor[d]
           t == table[d]
           f == rebuilding[d]
           x == cursor'[d]
           g == rebuilding'[d]
           u == Applied(table[d], wire[1].page)
<1>1. /\ wire \in Seq(Request) /\ b \in Box /\ Numbered(b) /\ c \in Nat /\ t \in [Keys -> Nat]
      /\ Fetched(wire, d, b, c) /\ InStep(d)
  BY DEF InSync, TypeOK, InStep
<1>2. wire[1].page.cursor \in Nat /\ 1 \in DOMAIN wire /\ wire[1].domain = d
  BY <1>1, RequestIs DEF Pages
<1>3. Takes(wire, d, c, x)
  <2>1. /\ Saved(c, wire[1].page) \in {c, wire[1].page.cursor}
        /\ Saved(c, wire[1].page) \in Nat /\ c <= Saved(c, wire[1].page)
    <3> DEFINE page == wire[1].page
    <3> HIDE DEF page, c
    <3>1. page.cursor \in Nat /\ c \in Nat
      BY <1>1, <1>2 DEF page
    <3>2. Saved(c, page) \in {c, page.cursor} /\ Saved(c, page) \in Nat /\ c <= Saved(c, page)
      BY <3>1, SavedIs
    <3> QED
      BY <3>2 DEF page
  <2> QED
    BY <1>1, <2>1 DEF Takes
<1>4. PICK m : Pops(wire', wire, m, d)
  BY Popped
<1>5. NoReset => wire[1].last <= c
  BY <1>1, <1>2 DEF InStep
<1>6. (NoReset' <=> NoReset) /\ (NoPurge' <=> NoPurge) /\ (NoLate' <=> NoLate)
  BY DEF NoReset, NoPurge, NoLate
<1>7. Open(wire', d, x, g) => Open(wire, d, c, f)
  OBVIOUS
<1>8. server'[d] = b /\ table'[d] = u /\ cursor'[d] = x /\ rebuilding'[d] = g
  OBVIOUS
<1> HIDE DEF b, c, t, f, x, g
<1>9. u = Applied(t, wire[1].page)
  BY DEF t
<1> HIDE DEF u
<1>10. Fetched(wire', d, b, x)
  BY <1>1, <1>3, <1>4, FetchedApplied
<1>11. NoReset /\ NoPurge => GhostsHeard(wire', d, b, u, x, g)
  <2> SUFFICES ASSUME NoReset, NoPurge PROVE GhostsHeard(wire', d, b, u, x, g)
    OBVIOUS
  <2>1. GhostsHeard(wire, d, b, t, c, f)
    BY <1>1 DEF InStep, b, t, c, f
  <2> QED
    BY <1>1, <1>3, <1>4, <1>5, <1>7, <1>9, <2>1, GhostsApplied
<1>12. NoReset /\ NoLate => LacksNone(wire', d, b, u, x, g)
  <2> SUFFICES ASSUME NoReset, NoLate PROVE LacksNone(wire', d, b, u, x, g)
    OBVIOUS
  <2>1. LacksNone(wire, d, b, t, c, f)
    BY <1>1 DEF InStep, b, t, c, f
  <2> QED
    BY <1>1, <1>3, <1>5, <1>9, <2>1, LacksApplied
<1> QED
  BY <1>1, <1>6, <1>8, <1>10, <1>11, <1>12 DEF InStep, x

\* A page is applied.
LEMMA ApplyKeeps ==
  ASSUME InSync, NEW a \in Actors, NEW d \in Domains, Apply(a, d)
  PROVE  InSync'
<1> DEFINE page == wire[1].page
           g == wire[1].rebuild /\ page.rows # {} /\ page.more
           r == RequestFor(a, d, page.cursor, runs[a].rebuild, g)
           u == Tail(wire)
           l == Len(u) + 1
<1> USE DEF world, queue
<1>1. /\ wire \in Seq(Request) /\ wire # <<>> /\ Line(wire) /\ runs \in [Actors -> Run]
      /\ 1 \in DOMAIN wire /\ Head(wire) = wire[1]
      /\ wire[1].from = a /\ wire[1].domain = d /\ wire[1].state = "answered"
      /\ Fits(wire[1], runs[a], server[d])
      /\ wire[1].last \in Nat /\ page \in Page /\ page.cursor \in Nat
      /\ runs[a] \in Run /\ runs[a].todo \in Seq(Domains) /\ runs[a].todo # <<>>
  BY ArrivesIs DEF Apply
<1>2. /\ ~page.tooOld
      /\ table' = [table EXCEPT ![d] = Applied(@, page)]
      /\ cursor' = [cursor EXCEPT ![d] = Saved(@, page)]
      /\ rebuilding' = [rebuilding EXCEPT ![d] = g]
      /\ IF IsLast(page)
         THEN Completed(a, d) /\ wire' = u
         ELSE /\ wire' = Append(u, RequestFor(a, d, page.cursor, runs[a].rebuild, rebuilding'[d]))
              /\ UNCHANGED <<runs, status>>
      /\ UNCHANGED <<world, queue, failed, exposed, spent>>
  BY <1>1 DEF Apply
<1>3. /\ table[d] \in [Keys -> Nat] /\ cursor[d] \in Nat /\ rebuilding \in [Domains -> BOOLEAN]
      /\ table \in [Domains -> [Keys -> Nat]] /\ cursor \in [Domains -> Nat]
      /\ wire[1].rebuild \in BOOLEAN /\ page.more \in BOOLEAN /\ g \in BOOLEAN
      /\ runs[a].rebuild \in BOOLEAN
  <2>1. wire[1].rebuild \in BOOLEAN
    BY <1>1, RequestIs
  <2> QED
    BY <1>1, <2>1 DEF InSync, TypeOK, Page, Run
<1>4. 1 \in Pages(wire, d) /\ IsPage(page)
  <2>1. 1 \in Pages(wire, d)
    BY <1>1, <1>2 DEF Pages
  <2> QED
    BY <2>1 DEF InSync, InStep, Fetched
<1>5. rebuilding'[d] = g
  BY <1>2, <1>3
<1>6. wire' = Append(u, r) \/ wire' = u
  BY <1>2, <1>5
<1>7. ~IsLast(page) => wire' = Append(u, r) /\ runs' = runs /\ status' = status /\ page.rows # {}
  BY <1>2, <1>5 DEF IsLast
<1>8. /\ u \in Seq(Request) /\ Line(u)
      /\ \A i \in DOMAIN u : /\ i \in Nat /\ i + 1 \in DOMAIN wire /\ u[i] = wire[i + 1]
                             /\ u[i].from # a
  BY <1>1, TailIs
<1>9. \A e : Remains(u, wire, 1, e)
  BY <1>1, TailIs
<1> DEFINE x == cursor'[d]
<1>10. /\ x = Saved(cursor[d], page) /\ x \in Nat /\ cursor[d] <= x /\ page.cursor <= x
       /\ table'[d] = Applied(table[d], page)
  <2>1. x = Saved(cursor[d], page) /\ table'[d] = Applied(table[d], page)
    BY <1>2, <1>3
  <2> HIDE DEF page, x
  <2> QED
    BY <1>1, <1>3, <2>1, SavedIs
<1> HIDE DEF page, x, u, g
<1>11. /\ r \in Request
       /\ r.from = a /\ r.domain = d /\ r.last = page.cursor /\ r.page.tooOld
       /\ r.state \in {"sent", "checked"}
       /\ r.state = "sent" <=> Kind[d] = "relation"
       /\ r.rebuild <=> Kind[d] # "conversations" /\ (runs[a].rebuild \/ page.cursor = 0 \/ g)
  <2> DEFINE again == runs[a].rebuild
             last == page.cursor
  <2>1. again \in BOOLEAN /\ last \in Nat /\ r = RequestFor(a, d, last, again, g)
    BY <1>1, <1>3
  <2> HIDE DEF again, last, r
  <2>2. /\ r \in Request
        /\ r.from = a /\ r.domain = d /\ r.last = last /\ r.page.tooOld
        /\ r.state \in {"sent", "checked"}
        /\ r.state = "sent" <=> Kind[d] = "relation"
        /\ r.rebuild <=> Kind[d] # "conversations" /\ (again \/ last = 0 \/ g)
    BY <1>3, <2>1, RequestForIs
  <2> QED
    BY <2>2 DEF again, last
<1> HIDE DEF r
<1>12. ASSUME wire' = Append(u, r)
       PROVE  /\ wire' \in Seq(Request) /\ l \in DOMAIN wire' /\ wire'[l] = r
              /\ \A i \in DOMAIN wire' : i = l \/ (i \in DOMAIN u /\ wire'[i] = u[i])
              /\ Line(wire')
              /\ \A e : Renews(wire', wire, 1, e, l)
  <2>1. /\ wire' \in Seq(Request) /\ l \in DOMAIN wire' /\ wire'[l] = r
        /\ \A i \in DOMAIN wire' : i = l \/ (i \in DOMAIN u /\ wire'[i] = u[i])
    BY <1>8, <1>11, <1>12, AppendIs
  <2>2. Line(wire')
    BY <1>8, <1>11, <1>12, AppendLine
  <2>3. ASSUME NEW e PROVE Renews(wire', wire, 1, e, l)
    BY <1>8, <1>9, <1>11, <1>12, AppendRenews
  <2> QED
    BY <2>1, <2>2, <2>3
<1> HIDE DEF l
<1>13. /\ wire' \in Seq(Request) /\ Line(wire')
       /\ \A i \in DOMAIN wire' :
            \/ wire' = Append(u, r) /\ i = l
            \/ i \in DOMAIN u /\ wire'[i] = u[i]
       /\ \A e : \/ Remains(wire', wire, 1, e)
                \/ (Renews(wire', wire, 1, e, l) /\ wire' = Append(u, r))
  <2>1. CASE wire' = u
    BY <1>8, <1>9, <2>1
  <2>2. CASE wire' = Append(u, r)
    BY <1>12, <2>2
  <2> QED
    BY <1>6, <2>1, <2>2
<1>14. TypeOK'
  <2>1. table' \in [Domains -> [Keys -> Nat]]
    <3>1. Applied(table[d], page) \in [Keys -> Nat]
      BY <1>1, <1>3, <1>4, AppliedIs
    <3> QED
      BY <1>2, <1>3, <3>1 DEF page
  <2>2. cursor' \in [Domains -> Nat] /\ rebuilding' \in [Domains -> BOOLEAN]
    BY <1>2, <1>3, <1>10 DEF page, x
  <2>3. runs' \in [Actors -> Run] /\ status' \in [Domains -> {"undefined", "success", "failed"}]
    <3>1. CASE IsLast(page)
      <4>1. Between(Tail(runs[a].todo)) \in Run
        BY <1>1, HeadTailProperties, RunIs
      <4>2. runs' = [runs EXCEPT ![a] = Between(Tail(runs[a].todo))]
        BY <1>2, <3>1 DEF Completed, page
      <4>3. status' = status \/ status' = [status EXCEPT ![d] = "success"]
        BY <1>2, <3>1 DEF Completed, page
      <4> QED
        BY <1>1, <4>1, <4>2, <4>3 DEF InSync, TypeOK
    <3>2. CASE ~IsLast(page)
      BY <1>1, <1>7, <3>2 DEF InSync, TypeOK
    <3> QED
      BY <3>1, <3>2
  <2> QED
    BY <1>2, <1>13, <2>1, <2>2, <2>3 DEF InSync, TypeOK
<1>15. \A b \in Actors : b # a => runs'[b] = runs[b]
  <2>1. CASE IsLast(page)
    BY <1>1, <1>2, <2>1 DEF Completed, page
  <2>2. CASE ~IsLast(page)
    BY <1>7, <2>2
  <2> QED
    BY <2>1, <2>2
<1>16. Wired'
  <2> SUFFICES ASSUME NEW j \in DOMAIN wire'
               PROVE  Fits(wire'[j], runs'[wire'[j].from], server'[wire'[j].domain])
    BY <1>13 DEF Wired
  <2>0. server' = server
    BY <1>2
  <2>1. CASE j \in DOMAIN u /\ wire'[j] = u[j]
    <3>1. /\ j + 1 \in DOMAIN wire /\ wire'[j] = wire[j + 1] /\ wire[j + 1].from # a
          /\ wire[j + 1].from \in Actors
      BY <1>1, <1>8, <2>1, RequestIs
    <3>2. runs'[wire[j + 1].from] = runs[wire[j + 1].from]
      BY <1>15, <3>1
    <3> QED
      BY <2>0, <3>1, <3>2 DEF InSync, Wired
  <2>2. CASE ~(j \in DOMAIN u /\ wire'[j] = u[j])
    <3>1. wire' = Append(u, r) /\ wire'[j] = r
      BY <1>12, <1>13, <2>2
    <3>2. ~IsLast(page)
      <4>1. wire' # u
        BY <2>2
      <4> QED
        BY <1>2, <4>1 DEF page
    <3>3. runs' = runs
      BY <1>7, <3>2
    <3>4. Fits(r, runs[a], server[d])
      <4>1. r.last = 0 => r.rebuild \/ Kind[d] = "conversations"
        BY <1>11
      <4>2. runs[a].rebuild => r.rebuild
        <5>1. runs[a].rebuild => wire[1].rebuild
          BY <1>1 DEF Fits
        <5>2. ASSUME runs[a].rebuild PROVE Kind[d] # "conversations"
          BY <1>1, <5>1, <5>2 DEF Fits
        <5> QED
          BY <1>11, <5>2
      <4> QED
        BY <1>1, <1>11, <4>1, <4>2 DEF Fits
    <3> QED
      BY <1>11, <2>0, <3>1, <3>3, <3>4
  <2> QED
    BY <2>1, <2>2
<1>17. ASSUME NEW e \in Domains, e # d PROVE InStep(e)'
  <2>1. /\ server'[e] = server[e] /\ table'[e] = table[e] /\ cursor'[e] = cursor[e]
        /\ exposed \subseteq exposed' /\ rebuilding'[e] = rebuilding[e]
    BY <1>2, <1>3, <1>17
  <2>2. CASE Remains(wire', wire, 1, e)
    BY <1>13, <2>1, <2>2, Untroubled
  <2>3. CASE Renews(wire', wire, 1, e, l) /\ wire' = Append(u, r)
    <3>1. l \in DOMAIN wire' /\ wire'[l].domain # e
      BY <1>11, <1>12, <1>17, <2>3
    <3> QED
      BY <1>13, <2>1, <2>3, <3>1, Renewed
  <2> QED
    BY <1>13, <2>2, <2>3
<1>18. InStep(d)'
  <2>1. server'[d] = server[d] /\ exposed' = exposed
    BY <1>2
  <2>2. Remains(wire', wire, 1, d) \/ Renews(wire', wire, 1, d, l)
    BY <1>13
  <2>3. \A i \in DOMAIN u : u[i] = wire[i + 1] /\ i + 1 \in DOMAIN wire
    BY <1>8
  <2>4. NoReset => \A i \in DOMAIN wire' : wire'[i].domain = d => wire'[i].last <= x
    <3> SUFFICES ASSUME NoReset, NEW i \in DOMAIN wire', wire'[i].domain = d
                 PROVE  wire'[i].last <= x
      OBVIOUS
    <3>1. CASE wire' = Append(u, r) /\ i = l
      <4>1. wire'[i] = r
        BY <1>12, <3>1
      <4> QED
        BY <1>10, <1>11, <4>1
    <3>2. CASE i \in DOMAIN u /\ wire'[i] = u[i]
      <4>1. i + 1 \in DOMAIN wire /\ wire'[i] = wire[i + 1] /\ wire[i + 1].last \in Nat
        BY <1>1, <2>3, <3>2, RequestIs
      <4>2. wire[i + 1].last <= cursor[d]
        BY <4>1 DEF InSync, InStep
      <4> QED
        BY <1>3, <1>10, <4>1, <4>2
    <3> QED
      BY <1>13, <3>1, <3>2
  <2>5. ASSUME Open(wire', d, x, rebuilding'[d]), ~Open(wire, d, cursor[d], rebuilding[d])
        PROVE  FALSE
    <3>1. Kind[d] = "relation" /\ cursor[d] # 0 /\ x # 0
      BY <1>3, <1>10, <2>5 DEF Open
    <3>2. ~wire[1].rebuild /\ ~g
      BY <1>1, <2>5 DEF Open, g
    <3>3. PICK i \in DOMAIN wire' :
            wire'[i].domain = d /\ (wire'[i].rebuild \/ wire'[i].state = "checked")
      BY <1>5, <2>5, <3>1, <3>2 DEF Open
    <3>4. CASE wire' = Append(u, r) /\ i = l
      <4>1. wire'[i] = r
        BY <1>12, <3>4
      <4>2. r.rebuild
        BY <1>11, <3>1, <3>3, <4>1
      <4>3. ~runs[a].rebuild
        BY <1>1, <3>2 DEF Fits
      <4>4. page.cursor = 0
        BY <1>11, <3>2, <4>2, <4>3
      <4>5. page.rows # {}
        BY <1>2, <1>7, <1>12, <1>8, <3>4 DEF page
      <4>6. PICK row \in page.rows : 0 < row.row.seq /\ row.row.seq <= page.cursor
        BY <1>4, <4>5 DEF IsPage
      <4>7. row.row.seq \in Nat
        BY <1>1, RequestIs, <4>6 DEF page, Row
      <4> QED
        BY <4>4, <4>6, <4>7
    <3>5. CASE i \in DOMAIN u /\ wire'[i] = u[i]
      BY <2>3, <2>5, <3>3, <3>5 DEF Open
    <3> QED
      BY <1>13, <3>4, <3>5
  <2>6. cursor'[d] = x
    BY DEF x
  <2>7. table'[d] = Applied(table[d], wire[1].page) /\ x = Saved(cursor[d], wire[1].page)
    BY <1>10 DEF page
  <2> QED
    BY <1>4, <1>13, <2>1, <2>2, <2>4, <2>5, <2>6, <2>7, AppliedInStep
<1> QED
  BY <1>14, <1>16, <1>17, <1>18 DEF InSync

-----------------------------------------------------------------------------
(* A new gateway *)

\* An empty wire has no places.
LEMMA NoPlaces == DOMAIN <<>> = {}
OBVIOUS

\* A new gateway has no request, no flag and no notification.
LEMMA FreshIs ==
  ASSUME InSync, Fresh, table' \in [Domains -> [Keys -> Nat]], cursor' = cursor,
         exposed' \subseteq {"reset overlaps", "unguarded purge", "late deletion"}
  PROVE  /\ TypeOK' /\ Wired'
         /\ wire' \in Seq(Request) /\ \A d : Remains(wire', wire, 1, d)
         /\ server' = server /\ \A d \in Domains : ~rebuilding'[d]
<1> USE DEF Fresh
<1>1. runs' \in [Actors -> Run]
  <2>1. Between(Stages) \in Run /\ Idle \in Run
    BY ReplicaAssumption, RunIs
  <2> QED
    BY <2>1
<1>2. wire' \in Seq(Request) /\ chain' \in Seq(Notices) /\ DOMAIN wire' = {}
  <2>1. DOMAIN <<>> = {}
    BY NoPlaces
  <2>2. wire' \in Seq(Request) /\ chain' \in Seq(Notices)
    BY EmptySeq
  <2>3. wire' = <<>>
    OBVIOUS
  <2>4. DOMAIN wire' = DOMAIN <<>>
    BY <2>3, Zenon
  <2> QED
    BY <2>1, <2>2, <2>4
<1>3. /\ rebuilding' \in [Domains -> BOOLEAN] /\ flags' \in [Notices -> BOOLEAN]
      /\ status' \in [Domains -> {"undefined", "success", "failed"}]
      /\ \A d \in Domains : ~rebuilding'[d]
  OBVIOUS
<1>4. TypeOK'
  BY <1>1, <1>2, <1>3 DEF InSync, TypeOK
<1>5. Wired'
  BY <1>2 DEF Wired, Line
<1>6. ASSUME NEW d PROVE Remains(wire', wire, 1, d)
  <2> DEFINE m == [i \in DOMAIN wire' |-> 0]
  <2>1. Thins(wire', wire, m, d) /\ \A i \in DOMAIN wire' : m[i] # 0 /\ m[i] # 1
    BY <1>2 DEF Thins
  <2> HIDE DEF m
  <2> QED
    BY <2>1 DEF Remains
<1> QED
  BY <1>2, <1>3, <1>4, <1>5, <1>6

\* A restart.
LEMMA RestartKeeps ==
  ASSUME InSync, Restart
  PROVE  InSync'
<1>1. Fresh /\ UNCHANGED <<table, cursor, exposed>>
  BY DEF Restart
<1>2. /\ TypeOK' /\ Wired'
      /\ wire' \in Seq(Request) /\ \A d : Remains(wire', wire, 1, d)
      /\ server' = server /\ \A d \in Domains : ~rebuilding'[d]
  BY <1>1, FreshIs DEF InSync, TypeOK
<1>3. ASSUME NEW d \in Domains PROVE InStep(d)'
  BY <1>1, <1>2, Untroubled
<1> QED
  BY <1>2, <1>3 DEF InSync

\* The process dies halfway through a page or a reset.
LEMMA DieKeeps ==
  ASSUME InSync, NEW a \in Actors, NEW d \in Domains, Die(a, d)
  PROVE  InSync'
<1> DEFINE page == wire[1].page
           u == IF page.tooOld THEN [k \in Keys |-> 0] ELSE Applied(table[d], page)
<1>1. /\ wire \in Seq(Request)
      /\ 1 \in DOMAIN wire /\ Head(wire) = wire[1]
      /\ wire[1].domain = d /\ wire[1].state = "answered"
      /\ Fits(wire[1], runs[a], server[d])
      /\ wire[1].last \in Nat /\ page \in Page
  BY ArrivesIs DEF Die
<1>2. /\ Fresh /\ cursor' = cursor
      /\ table' = [table EXCEPT ![d] = u]
      /\ exposed' = IF page.tooOld /\ wire[1].last < cursor[d]
                    THEN exposed \cup {"reset overlaps"} ELSE exposed
  BY <1>1 DEF Die
<1>3. /\ table \in [Domains -> [Keys -> Nat]] /\ cursor[d] \in Nat
      /\ server[d] \in Box /\ Numbered(server[d]) /\ Fetched(wire, d, server[d], cursor[d])
  BY DEF InSync, TypeOK, InStep
<1>4. ~page.tooOld => 1 \in Pages(wire, d) /\ IsPage(page)
  <2>1. ~page.tooOld => 1 \in Pages(wire, d)
    BY <1>1 DEF Pages
  <2> QED
    BY <1>3, <2>1 DEF Fetched
<1>5. u \in [Keys -> Nat]
  <2>1. CASE page.tooOld
    BY <2>1
  <2>2. CASE ~page.tooOld
    <3>1. Applied(table[d], page) \in [Keys -> Nat]
      BY <1>1, <1>3, <1>4, <2>2, AppliedIs
    <3> QED
      BY <2>2, <3>1
  <2> QED
    BY <2>1, <2>2
<1> HIDE DEF u, page
<1>6. /\ table' \in [Domains -> [Keys -> Nat]] /\ table'[d] = u
      /\ \A e \in Domains : e # d => table'[e] = table[e]
  BY <1>2, <1>3, <1>5
<1>7. exposed' \subseteq {"reset overlaps", "unguarded purge", "late deletion"}
      /\ exposed \subseteq exposed'
  BY <1>2 DEF InSync, TypeOK
<1>8. /\ TypeOK' /\ Wired'
      /\ wire' \in Seq(Request) /\ \A e : Remains(wire', wire, 1, e)
      /\ server' = server /\ \A e \in Domains : ~rebuilding'[e]
  BY <1>2, <1>6, <1>7, FreshIs
<1>9. wire' = <<>> /\ DOMAIN wire' = {}
  <2>1. DOMAIN <<>> = {}
    BY NoPlaces
  <2>2. wire' = <<>>
    BY <1>2 DEF Fresh
  <2>3. DOMAIN wire' = DOMAIN <<>>
    BY <2>2, Zenon
  <2> QED
    BY <2>1, <2>2, <2>3
<1>10. ASSUME NEW e \in Domains, e # d PROVE InStep(e)'
  BY <1>2, <1>6, <1>7, <1>8, <1>10, Untroubled
<1>11. CASE ~page.tooOld
  <2>1. exposed' = exposed
    BY <1>2, <1>11
  <2>2. table'[d] = Applied(table[d], wire[1].page)
    BY <1>6, <1>11 DEF page, u
  <2>3. Open(wire', d, cursor'[d], rebuilding'[d]) => Open(wire, d, cursor[d], rebuilding[d])
    BY <1>2, <1>8, <1>9 DEF Open
  <2>4. /\ 1 \in Pages(wire, d) /\ server'[d] = server[d]
        /\ cursor'[d] \in {cursor[d], Saved(cursor[d], wire[1].page)}
        /\ \A i \in DOMAIN wire' : wire'[i].domain = d => wire'[i].last <= cursor'[d]
        /\ Remains(wire', wire, 1, d)
    BY <1>2, <1>4, <1>8, <1>9, <1>11
  <2>5. InStep(d)'
    BY <1>8, <2>1, <2>2, <2>3, <2>4, AppliedInStep
  <2> QED
    BY <1>8, <1>10, <2>5 DEF InSync
<1>12. CASE page.tooOld
  <2> DEFINE b == server[d]
             c == cursor[d]
             g == rebuilding'[d]
  <2>1. Kind[d] = "relation" /\ wire[1].last < b.safe
    BY <1>1, <1>12 DEF Fits, page
  <2>2. \A k \in Keys : u[k] = 0
    BY <1>12 DEF u
  <2>3. Pages(wire', d) = {}
    BY <1>9 DEF Pages
  <2>4. Fetched(wire', d, b, c)
    <3>1. c <= b.max
      BY <1>3 DEF Fetched
    <3> QED
      BY <2>3, <3>1 DEF Fetched
  <2>5. GhostsHeard(wire', d, b, u, c, g)
    BY <2>2, <2>3 DEF GhostsHeard, Comes
  <2>6. NoReset' => NoReset /\ wire[1].last = c
    <3> SUFFICES ASSUME NoReset' PROVE NoReset /\ wire[1].last = c
      OBVIOUS
    <3>1. NoReset /\ ~(wire[1].last < c)
      BY <1>2, <1>12 DEF NoReset
    <3>2. wire[1].last <= c
      BY <1>1, <3>1 DEF InSync, InStep
    <3> QED
      BY <1>1, <1>3, <3>1, <3>2
  <2>7. NoReset' => LacksNone(wire', d, b, u, c, g)
    <3> SUFFICES ASSUME NoReset', NEW k \in Keys, Lacks(b, u, c, k)
                 PROVE  ~Open(wire', d, c, g) /\ c < b.safe /\ Pages(wire', d) = {}
      BY DEF LacksNone
    <3>1. c < b.safe
      BY <2>1, <2>6
    <3>2. c # 0
      <4>1. b.rows[k].state = "live" /\ b.rows[k].seq <= c /\ b.rows[k].seq # 0
        BY <1>3 DEF Lacks, Numbered
      <4>2. b.rows[k].seq \in Nat
        BY <1>3, RowIs
      <4> QED
        BY <4>1, <4>2
    <3>3. ~Open(wire', d, c, g)
      BY <1>8, <1>9, <2>1, <3>2 DEF Open
    <3> QED
      BY <2>3, <3>1, <3>3
  <2>8. /\ server'[d] = b /\ cursor'[d] = c /\ table'[d] = u
        /\ \A i \in DOMAIN wire' : wire'[i].domain = d => wire'[i].last <= cursor'[d]
    BY <1>2, <1>6, <1>8, <1>9
  <2>9. InStep(d)'
    BY <1>3, <2>4, <2>5, <2>7, <2>8 DEF InStep
  <2> QED
    BY <1>8, <1>10, <2>9 DEF InSync
<1> QED
  BY <1>11, <1>12

-----------------------------------------------------------------------------
(* The theorems *)

\* Every step keeps the client in step with the server.
LEMMA InSyncNext == InSync /\ [Next]_vars => InSync'
<1> SUFFICES ASSUME InSync, [Next]_vars PROVE InSync'
  OBVIOUS
<1>1. CASE Continue
  BY <1>1, BeginKeeps, EndBackgroundKeeps, HandleKeeps, HandleDeletionsKeeps,
     HandlerDoneKeeps, NextNodeKeeps DEF Continue
<1>2. CASE Serve
  BY <1>2, CheckKeeps, ReadKeeps DEF Serve
<1>3. CASE Answered
  BY <1>3, ResetKeeps, ApplyKeeps, RejectKeeps DEF Answered
<1>4. CASE Notified
  BY <1>4, NotifiedKeeps
<1>5. CASE Write
  BY <1>5, PutKeeps, DeleteKeeps, ReceiveKeeps, PurgeKeeps DEF Write
<1>6. CASE Fault
  BY <1>6, FailKeeps, DieKeeps, RestartKeeps DEF Fault
<1>7. CASE UNCHANGED vars
  <2>1. UNCHANGED <<wire, server, table, cursor, rebuilding, exposed>> /\ runs' = runs
    BY <1>7 DEF vars, world
  <2>2. TypeOK'
    BY <1>7 DEF InSync, TypeOK, vars, world, queue
  <2> QED
    BY <2>1, <2>2, Undisturbed DEF InSync
<1> QED
  BY <1>1, <1>2, <1>3, <1>4, <1>5, <1>6, <1>7 DEF Next

\* The client is always in step with the server.
THEOREM AlwaysInSync == Spec => []InSync
BY InSyncInit, InSyncNext, PTL DEF Spec

\* The local copies, the cursors and the wire always have their types.
THEOREM ReplicaTyped == Spec => []TypeOK
<1>1. InSync => TypeOK
  BY DEF InSync
<1> QED
  BY <1>1, AlwaysInSync, PTL

\* NoneMissing: the cursor never passes a live row that the copy lacks.
THEOREM CursorSkipsNothing == Spec => []NoneMissing
<1>1. InSync => NoneMissing
  <2> SUFFICES ASSUME InSync, exposed \cap {"reset overlaps", "late deletion"} = {},
                      NEW d \in Domains, NEW k \in Keys,
                      Live(d, k), server[d].rows[k].seq <= cursor[d],
                      table[d][k] # server[d].rows[k].seq
               PROVE  cursor[d] < server[d].safe
    BY DEF NoneMissing
  <2>1. NoReset /\ NoLate
    BY DEF NoReset, NoLate
  <2>2. LacksNone(wire, d, server[d], table[d], cursor[d], rebuilding[d])
    BY <2>1 DEF InSync, InStep
  <2>3. Lacks(server[d], table[d], cursor[d], k)
    BY DEF Lacks, Live
  <2> QED
    BY <2>2, <2>3 DEF LacksNone
<1> QED
  BY <1>1, AlwaysInSync, PTL

\* NoGhost: a row of the copy that the server no longer has is one that the client
\* will still hear of.
THEOREM GhostsAreHeardOf == Spec => []NoGhost
<1>1. InSync => NoGhost
  <2> SUFFICES ASSUME InSync, exposed \cap {"unguarded purge", "reset overlaps"} = {},
                      NEW d \in Domains, NEW k \in Keys, table[d][k] # 0, ~Live(d, k)
               PROVE  \/ server[d].rows[k].state = "deleted" /\ server[d].rows[k].seq > cursor[d]
                      \/ cursor[d] < server[d].safe
    BY DEF NoGhost
  <2>1. NoReset /\ NoPurge
    BY DEF NoReset, NoPurge
  <2>2. GhostsHeard(wire, d, server[d], table[d], cursor[d], rebuilding[d])
    BY <2>1 DEF InSync, InStep
  <2>3. Heard(server[d], k, cursor[d])
    BY <2>2 DEF GhostsHeard, Live
  <2>4. /\ server[d].rows[k].state \in {"none", "live", "deleted"}
        /\ server[d].rows[k].seq \in Nat /\ cursor[d] \in Nat
    BY RowIs DEF InSync, TypeOK
  <2> QED
    BY <2>3, <2>4 DEF Heard, Live
<1> QED
  BY <1>1, AlwaysInSync, PTL

-----------------------------------------------------------------------------
(* What brings the rest of a relation's rows *)

\* Actor a will ask for domain d after what it does now.
ToBegin(a, d) ==
  /\ runs[a].pc \in {"between", "waiting"}
  /\ \E i \in DOMAIN runs[a].todo : runs[a].todo[i] = d /\ (runs[a].pc = "waiting" => i > 1)

\* A sync of d is still to begin: it is announced, queued or on somebody's list.
Waiting(d) == d \in notices \/ flags[d] \/ \E a \in Actors : ToBegin(a, d)

\* The page has a tombstone of row k.
Buries(page, k) == \E r \in page.rows : r.key = k /\ r.row.state = "deleted"

\* With the last page of a sync, at place i, the copy has all that the server has:
\* no row is above it, and what vanished since is deleted by it and not brought back.
Completes(w, d, b, t, i) ==
  /\ \A k \in Keys : b.rows[k].seq <= w[i].last \/ b.rows[k].seq <= w[i].page.cursor
  /\ \A k \in Keys : Gone(b, k) =>
       /\ Comes(w, d, t, k, i) => Buries(w[i].page, k)
       /\ \A j \in Pages(w, d) : j > i => ~Brings(w[j].page, k)

\* The request at i is still to be read, will be followed by another, or completes.
Sees(w, d, b, t, i) ==
  /\ w[i].domain = d
  /\ w[i].page.tooOld \/ ~IsLast(w[i].page) \/ Completes(w, d, b, t, i)

\* There is nothing to be brought.
CaughtUp(w, d, b, t, c) ==
  \A k \in Keys : /\ b.rows[k].seq <= c
                  /\ Comes(w, d, t, k, Len(w)) => ~Gone(b, k)
                  /\ ~Lacks(b, t, c, k)

\* Whoever can bring what the copy of d lacks does.
InHand(d) ==
  \/ Waiting(d)
  \/ \E i \in DOMAIN wire : Sees(wire, d, server[d], table[d], i)
  \/ CaughtUp(wire, d, server[d], table[d], cursor[d])

\* A type that is flagged has a node in the chain, and relations are never deleted
\* by name.
Queued ==
  /\ \A n \in Notices : flags[n] => \E i \in DOMAIN chain : chain[i] = n
  /\ \A x \in gone \cup deleted : Kind[x[1]] # "relation"

\* It is so of every relation whose last sync did not fail.
AllInHand == exposed = {} => \A d \in Relations \ failed : InHand(d)

NothingForgotten == InSync /\ Queued /\ AllInHand

\* Every request but the one at p is still there.
Stays(v, w, p) == \A i \in DOMAIN w : i # p => \E j \in DOMAIN v : v[j] = w[i]

\* What sees to a domain still does when other requests come and go, and no more
\* reaches the copy before it than did.
LEMMA SeesThins ==
  ASSUME NEW d, NEW w \in Seq(Request), Line(w), NEW v \in Seq(Request), NEW m,
         Thins(v, w, m, d), NEW b, NEW t, NEW u,
         \A k \in Keys : \A j \in Pages(v, d) : Comes(v, d, u, k, j) => Comes(w, d, t, k, m[j]),
         NEW i \in DOMAIN w, Sees(w, d, b, t, i), NEW j \in DOMAIN v, v[j] = w[i]
  PROVE  Sees(v, d, b, u, j)
<1>1. CASE w[i].page.tooOld \/ ~IsLast(w[i].page)
  BY <1>1 DEF Sees
<1>2. CASE ~w[i].page.tooOld /\ Completes(w, d, b, t, i)
  <2>1. j \in Pages(v, d) /\ w[i].domain = d
    BY <1>2 DEF Sees, Pages
  <2>2. m[j] \in DOMAIN w /\ v[j] = w[m[j]]
    BY <2>1, PagesThin
  <2>3. m[j] = i
    BY <2>2 DEF Line
  <2>4. ASSUME NEW q \in Pages(v, d), j < q
        PROVE  m[q] \in Pages(w, d) /\ m[q] > i /\ v[q] = w[m[q]]
    <3>1. m[q] \in Pages(w, d) /\ v[q] = w[m[q]] /\ m[j] < m[q] /\ m[j] \in Nat /\ m[q] \in Nat
      BY <2>1, <2>4, PagesThin
    <3> QED
      BY <2>3, <3>1
  <2>5. Completes(v, d, b, u, j)
    <3>1. ASSUME NEW k \in Keys, Gone(b, k), Comes(v, d, u, k, j)
          PROVE  Buries(v[j].page, k)
      BY <1>2, <2>1, <2>3, <3>1 DEF Completes
    <3>2. ASSUME NEW k \in Keys, Gone(b, k), NEW q \in Pages(v, d), q > j
          PROVE  ~Brings(v[q].page, k)
      <4>1. j \in Nat /\ q \in Nat
        BY RequestIs DEF Pages
      <4>2. m[q] \in Pages(w, d) /\ m[q] > i /\ v[q] = w[m[q]]
        BY <2>4, <3>2, <4>1
      <4> QED
        BY <1>2, <3>2, <4>2 DEF Completes
    <3>3. \A k \in Keys : b.rows[k].seq <= v[j].last \/ b.rows[k].seq <= v[j].page.cursor
      BY <1>2 DEF Completes
    <3> QED
      BY <3>1, <3>2, <3>3 DEF Completes
  <2> QED
    BY <2>1, <2>5 DEF Sees
<1> QED
  BY <1>1, <1>2 DEF Sees

\* No more reaches the copy in front of a page that remains.
LEMMA ComesFewer ==
  ASSUME NEW d, NEW w \in Seq(Request), NEW v \in Seq(Request), NEW m, Thins(v, w, m, d),
         NEW t, NEW k \in Keys, NEW j \in Pages(v, d), Comes(v, d, t, k, j)
  PROVE  Comes(w, d, t, k, m[j])
<1>1. CASE t[k] # 0
  BY <1>1 DEF Comes
<1>2. CASE t[k] = 0
  <2>1. PICK i \in Pages(v, d) : i <= j /\ Brings(v[i].page, k)
    BY <1>2 DEF Comes
  <2>2. m[i] \in Pages(w, d) /\ m[i] \in Nat /\ v[i] = w[m[i]] /\ i \in Nat /\ j \in Nat /\ m[j] \in Nat
    BY PagesThin
  <2>3. m[i] <= m[j]
    <3>1. CASE i = j
      BY <2>2, <3>1
    <3>2. CASE i < j
      <4>1. m[i] < m[j]
        BY <3>2, PagesThin
      <4> QED
        BY <2>2, <4>1
    <3> QED
      BY <2>1, <2>2, <3>1, <3>2
  <2> QED
    BY <2>1, <2>2, <2>3 DEF Comes
<1> QED
  BY <1>1, <1>2

\* Nor when the first page is applied.
LEMMA ComesFewerApplied ==
  ASSUME NEW d, NEW w \in Seq(Request), NEW v \in Seq(Request), NEW m, Pops(v, w, m, d),
         NEW b \in Box, NEW t \in [Keys -> Nat], NEW c \in Nat, NEW x, Takes(w, d, c, x),
         Fetched(w, d, b, c), NEW k \in Keys,
         NEW j \in Pages(v, d), Comes(v, d, Applied(t, w[1].page), k, j)
  PROVE  Comes(w, d, t, k, m[j])
<1> DEFINE u == Applied(t, w[1].page)
<1>1. 1 \in Pages(w, d) /\ 1 \in DOMAIN w /\ IsPage(w[1].page) /\ w[1].page \in Page
  BY RequestIs DEF Takes, Pages, Fetched
<1>2. /\ \A r \in w[1].page.rows : u[r.key] = IF r.row.state = "live" THEN r.row.seq ELSE 0
      /\ \A i \in Keys : ~Carries(w[1].page, i) => u[i] = t[i]
  BY <1>1, AppliedIs
<1> HIDE DEF u
<1>3. u[k] # 0 => t[k] # 0 \/ Brings(w[1].page, k)
  BY <1>2 DEF Carries, Brings
<1>4. Thins(v, w, m, d)
  BY DEF Pops
<1>5. m[j] \in Nat /\ 0 < m[j]
  BY <1>4, PagesThin
<1>6. CASE Comes(v, d, t, k, j)
  BY <1>4, <1>6, ComesFewer
<1>7. CASE ~Comes(v, d, t, k, j)
  <2>1. u[k] # 0 /\ t[k] = 0
    BY <1>7 DEF Comes, u
  <2>2. Brings(w[1].page, k) /\ 1 <= m[j]
    BY <1>3, <1>5, <2>1
  <2> QED
    BY <1>1, <2>2 DEF Comes
<1> QED
  BY <1>6, <1>7

\* A copy that has all stays so when requests go or wait to be read.
LEMMA CaughtUpThins ==
  ASSUME NEW d, NEW w \in Seq(Request), NEW v \in Seq(Request), NEW m, Thins(v, w, m, d),
         NEW b, NEW t, NEW c, CaughtUp(w, d, b, t, c)
  PROVE  CaughtUp(v, d, b, t, c)
<1>1. \A k \in Keys : Comes(v, d, t, k, Len(v)) => Comes(w, d, t, k, Len(w))
  BY ComesThins
<1> QED
  BY <1>1 DEF CaughtUp

\* Nothing that is above the page or below the cursor is lacking when it was applied.
LEMMA AppliedLacksNone ==
  ASSUME NEW d, NEW w \in Seq(Request), NEW b \in Box, NEW t \in [Keys -> Nat],
         NEW c \in Nat, NEW f, NEW x,
         Takes(w, d, c, x), w[1].last <= c, Fetched(w, d, b, c), LacksNone(w, d, b, t, c, f),
         NEW k \in Keys
  PROVE  ~Lacks(b, Applied(t, w[1].page), x, k)
<1>1. LacksNone(w, d, b, Applied(t, w[1].page), x, TRUE)
  BY LacksApplied
<1>2. Open(w, d, x, TRUE)
  BY DEF Open
<1> QED
  BY <1>1, <1>2 DEF LacksNone

\* It stays so when a page is applied that was asked for before.
LEMMA CaughtUpApplied ==
  ASSUME NEW d, NEW w \in Seq(Request), NEW v \in Seq(Request), NEW m, Pops(v, w, m, d),
         NEW b \in Box, NEW t \in [Keys -> Nat], NEW c \in Nat, NEW f, NEW x,
         Takes(w, d, c, x), w[1].last <= c, Fetched(w, d, b, c), LacksNone(w, d, b, t, c, f),
         CaughtUp(w, d, b, t, c)
  PROVE  CaughtUp(v, d, b, Applied(t, w[1].page), x)
<1> DEFINE u == Applied(t, w[1].page)
<1>1. \A k \in Keys : Comes(v, d, u, k, Len(v)) => Comes(w, d, t, k, Len(w))
  BY ComesApplied
<1>2. \A k \in Keys : ~Lacks(b, u, x, k)
  BY AppliedLacksNone
<1> HIDE DEF u
<1>3. ASSUME NEW k \in Keys PROVE b.rows[k].seq <= x
  <2>1. b.rows[k].seq \in Nat /\ b.rows[k].seq <= c /\ c <= x /\ x \in Nat
    BY RowIs DEF CaughtUp, Takes
  <2> QED
    BY <2>1
<1> QED
  BY <1>1, <1>2, <1>3 DEF CaughtUp, u

\* The last page of a sync that completes leaves nothing to be brought.
LEMMA LastApplied ==
  ASSUME NEW d, NEW w \in Seq(Request), NEW v \in Seq(Request), NEW m, Pops(v, w, m, d),
         NEW b \in Box, NEW t \in [Keys -> Nat], NEW c \in Nat, NEW f, NEW x,
         Takes(w, d, c, x), w[1].page.cursor <= x, w[1].last <= c,
         Fetched(w, d, b, c), LacksNone(w, d, b, t, c, f), Completes(w, d, b, t, 1)
  PROVE  CaughtUp(v, d, b, Applied(t, w[1].page), x)
<1> DEFINE u == Applied(t, w[1].page)
<1>1. /\ 1 \in Pages(w, d) /\ 1 \in DOMAIN w /\ IsPage(w[1].page) /\ w[1].page \in Page
      /\ w[1].last \in Nat /\ w[1].page.cursor \in Nat /\ x \in Nat /\ c <= x
  BY RequestIs DEF Takes, Pages, Fetched
<1>2. /\ \A r \in w[1].page.rows : u[r.key] = IF r.row.state = "live" THEN r.row.seq ELSE 0
      /\ \A k \in Keys : ~Carries(w[1].page, k) => u[k] = t[k]
  BY <1>1, AppliedIs
<1>3. \A k \in Keys : ~Lacks(b, u, x, k)
  BY AppliedLacksNone
<1> HIDE DEF u
<1>4. ASSUME NEW k \in Keys PROVE b.rows[k].seq <= x
  <2>1. b.rows[k].seq \in Nat /\ (b.rows[k].seq <= w[1].last \/ b.rows[k].seq <= w[1].page.cursor)
    BY RowIs DEF Completes
  <2> QED
    BY <1>1, <2>1
<1>6. \A j \in Pages(v, d) : m[j] \in Pages(w, d) /\ v[j] = w[m[j]] /\ m[j] \in Nat /\ 0 < m[j]
  BY PagesThin, Z3 DEF Pops
<1>5. ASSUME NEW k \in Keys, Comes(v, d, u, k, Len(v)), Gone(b, k) PROVE FALSE
  <2>1. Comes(w, d, t, k, 1) => Buries(w[1].page, k)
    BY <1>5 DEF Completes
  <2>2. CASE u[k] # 0
    <3>1. CASE Carries(w[1].page, k)
      <4>1. PICK r \in w[1].page.rows : r.key = k
        BY <3>1 DEF Carries
      <4>2. r.row.state = "live"
        BY <1>2, <2>2, <4>1
      <4>3. Comes(w, d, t, k, 1)
        BY <1>1, <4>1, <4>2 DEF Comes, Brings
      <4>4. PICK s \in w[1].page.rows : s.key = k /\ s.row.state = "deleted"
        BY <2>1, <4>3 DEF Buries
      <4> QED
        BY <1>1, <4>1, <4>2, <4>4 DEF IsPage
    <3>2. CASE ~Carries(w[1].page, k)
      <4>1. t[k] # 0
        BY <1>2, <2>2, <3>2
      <4> QED
        BY <2>1, <3>2, <4>1 DEF Comes, Buries, Carries
    <3> QED
      BY <3>1, <3>2
  <2>3. CASE u[k] = 0
    <3>1. PICK j \in Pages(v, d) : Brings(v[j].page, k)
      BY <1>5, <2>3 DEF Comes
    <3>2. m[j] \in Pages(w, d) /\ v[j] = w[m[j]] /\ m[j] \in Nat /\ 0 < m[j] /\ m[j] # 1
      BY <1>6, <3>1 DEF Pops, Pages
    <3>3. m[j] > 1
      BY <3>2
    <3> QED
      BY <1>5, <3>1, <3>2, <3>3 DEF Completes
  <2> QED
    BY <2>2, <2>3
<1> QED
  BY <1>3, <1>4, <1>5 DEF CaughtUp, u

\* A purge that falls into no unguarded sync: what it takes from under the copy was
\* on the last page, or above it.
LEMMA InHandPurged ==
  ASSUME NEW d, NEW w \in Seq(Request), NEW b \in Box, Numbered(b), NEW t,
         NEW c \in Nat, NEW f, Fetched(w, d, b, c), GhostsHeard(w, d, b, t, c, f),
         \A i \in DOMAIN w : w[i].domain = d => w[i].last <= c
  PROVE  /\ CaughtUp(w, d, b, t, c) => CaughtUp(w, d, Purged(b), t, c)
         /\ \A i \in DOMAIN w : Sees(w, d, b, t, i) => Sees(w, d, Purged(b), t, i)
<1> DEFINE n == Purged(b)
<1>1. /\ n \in Box
      /\ \A k \in Keys : IF b.rows[k].state = "deleted"
                         THEN n.rows[k] = NoRow
                         ELSE n.rows[k] = b.rows[k]
  BY PurgedIs
<1> HIDE DEF n
<1>2. \A k \in Keys : n.rows[k].seq = 0 \/ n.rows[k] = b.rows[k]
  BY <1>1 DEF NoRow
<1>3. ASSUME NEW k \in Keys, Gone(n, k), ~Gone(b, k)
      PROVE  b.rows[k].state = "deleted" /\ b.rows[k].seq \in Nat
  BY <1>1, <1>3, RowIs DEF Gone
<1>4. ASSUME NEW k \in Keys, Gone(n, k), ~Gone(b, k), NEW j, Comes(w, d, t, k, j)
      PROVE  c < b.rows[k].seq
  <2>1. b.rows[k].state = "deleted"
    BY <1>3, <1>4
  <2>2. Heard(b, k, c)
    <3>1. CASE t[k] # 0
      BY <2>1, <3>1 DEF GhostsHeard
    <3>2. CASE t[k] = 0
      <4>1. PICK q \in Pages(w, d) : Brings(w[q].page, k)
        BY <1>4, <3>2 DEF Comes
      <4>2. PICK r \in w[q].page.rows : r.key = k /\ r.row.state = "live"
        BY <4>1 DEF Brings
      <4> QED
        BY <2>1, <4>2 DEF Fetched, RowsKnown
    <3> QED
      BY <3>1, <3>2
  <2> QED
    BY <2>1, <2>2 DEF Heard
<1>5. ASSUME CaughtUp(w, d, b, t, c) PROVE CaughtUp(w, d, n, t, c)
  <2>1. ASSUME NEW k \in Keys PROVE n.rows[k].seq <= c /\ ~Lacks(n, t, c, k)
    <3>1. b.rows[k].seq <= c /\ ~Lacks(b, t, c, k)
      BY <1>5 DEF CaughtUp
    <3> QED
      BY <1>1, <1>2, <3>1 DEF Lacks, NoRow
  <2>2. ASSUME NEW k \in Keys, Comes(w, d, t, k, Len(w)), Gone(n, k) PROVE FALSE
    <3>1. ~Gone(b, k) /\ b.rows[k].seq <= c
      BY <1>5, <2>2 DEF CaughtUp
    <3> QED
      BY <1>3, <1>4, <2>2, <3>1
  <2> QED
    BY <2>1, <2>2 DEF CaughtUp
<1>6. ASSUME NEW i \in DOMAIN w, Sees(w, d, b, t, i) PROVE Sees(w, d, n, t, i)
  <2>1. CASE w[i].page.tooOld \/ ~IsLast(w[i].page)
    BY <1>6, <2>1 DEF Sees
  <2>2. CASE ~w[i].page.tooOld /\ IsLast(w[i].page)
    <3>1. i \in Pages(w, d) /\ Completes(w, d, b, t, i) /\ w[i].domain = d
      BY <1>6, <2>2 DEF Sees, Pages
    <3>2. /\ w[i].last \in Nat /\ w[i].page.cursor \in Nat /\ w[i].last <= c /\ i \in Nat
      BY <3>1, RequestIs
    <3>3. RowsKnown(w, d, b, c, i) /\ NoneSkipped(w, b, i)
      BY <3>1 DEF Fetched
    <3>4. ASSUME NEW k \in Keys
          PROVE  n.rows[k].seq <= w[i].last \/ n.rows[k].seq <= w[i].page.cursor
      BY <1>2, <3>1, <3>2 DEF Completes
    <3>5. ASSUME NEW k \in Keys, Gone(n, k), Comes(w, d, t, k, i)
          PROVE  Buries(w[i].page, k)
      <4>1. CASE Gone(b, k)
        BY <3>1, <3>5, <4>1 DEF Completes
      <4>2. CASE ~Gone(b, k)
        <5>1. b.rows[k].state = "deleted" /\ b.rows[k].seq \in Nat /\ c < b.rows[k].seq
          BY <1>3, <1>4, <3>5, <4>2
        <5>2. w[i].last < b.rows[k].seq
          BY <3>2, <5>1
        <5>3. b.rows[k].seq <= w[i].page.cursor
          BY <3>1, <3>2, <5>1, <5>2 DEF Completes
        <5>4. Carries(w[i].page, k)
          BY <3>2, <3>3, <5>1, <5>2, <5>3 DEF NoneSkipped
        <5>5. PICK r \in w[i].page.rows : r.key = k
          BY <5>4 DEF Carries
        <5>6. ~Heard(b, k, w[i].page.cursor)
          BY <3>2, <5>1, <5>3 DEF Heard
        <5>7. r.row.state = "deleted"
          BY <3>1, <3>2, <3>3, <5>1, <5>5, <5>6 DEF RowsKnown
        <5> QED
          BY <5>5, <5>7 DEF Buries
      <4> QED
        BY <4>1, <4>2
    <3>6. ASSUME NEW k \in Keys, Gone(n, k), NEW j \in Pages(w, d), j > i, Brings(w[j].page, k)
          PROVE  FALSE
      <4>1. CASE Gone(b, k)
        BY <3>1, <3>6, <4>1 DEF Completes
      <4>2. CASE ~Gone(b, k)
        <5>1. b.rows[k].state = "deleted" /\ b.rows[k].seq \in Nat
          BY <1>3, <3>6, <4>2
        <5>2. PICK r \in w[j].page.rows : r.key = k /\ r.row.state = "live"
          BY <3>6 DEF Brings
        <5>3. j \in Nat /\ i <= j
          BY <3>2, <3>6, RequestIs DEF Pages
        <5>4. Heard(b, k, c) /\ Heard(b, k, w[i].page.cursor)
          BY <3>1, <5>1, <5>2, <5>3 DEF Fetched, RowsKnown
        <5>5. c < b.rows[k].seq /\ w[i].page.cursor < b.rows[k].seq
          BY <5>1, <5>4 DEF Heard
        <5> QED
          BY <3>1, <3>2, <5>1, <5>5 DEF Completes
      <4> QED
        BY <4>1, <4>2
    <3>7. Completes(w, d, n, t, i)
      BY <3>4, <3>5, <3>6 DEF Completes
    <3> QED
      BY <3>1, <3>7 DEF Sees
  <2> QED
    BY <2>1, <2>2
<1> QED
  BY <1>5, <1>6 DEF n

\* A page that is read is followed by another, or is the last and completes the sync:
\* a request that has been checked keeps purges out.
LEMMA InHandRead ==
  ASSUME NEW w \in Seq(Request), NEW v \in Seq(Request), NEW b \in Box, Numbered(b),
         NEW i, Read(w, v, b, i), NEW d, d = w[i].domain,
         NEW t, NEW c \in Nat, NEW f, GhostsHeard(w, d, b, t, c, f)
  PROVE  /\ CaughtUp(w, d, b, t, c) => CaughtUp(v, d, b, t, c)
         /\ \A j \in DOMAIN w : Sees(w, d, b, t, j) => Sees(v, d, b, t, j)
<1>1. GhostsHeard(w, d, b, t, c, TRUE)
  <2>1. Open(w, d, c, f)
    BY DEF Open, Read
  <2> QED
    BY <2>1 DEF GhostsHeard
<1>2. GhostsHeard(v, d, b, t, c, TRUE)
  BY <1>1, GhostsRead
<1>3. \A k \in Keys : Comes(v, d, t, k, Len(v)) => ~Gone(b, k)
  <2>1. Open(v, d, c, TRUE)
    BY DEF Open
  <2> QED
    BY <1>2, <2>1 DEF GhostsHeard
<1>4. ASSUME NEW k \in Keys, NEW j, Comes(v, d, t, k, j) PROVE ~Gone(b, k)
  <2>1. \A q \in Pages(v, d) : q <= Len(v)
    BY RequestIs DEF Pages
  <2>2. Comes(v, d, t, k, Len(v))
    BY <1>4, <2>1 DEF Comes
  <2> QED
    BY <1>3, <2>2
<1>5. ASSUME NEW k \in Keys, NEW j \in Pages(v, d), Brings(v[j].page, k) PROVE ~Gone(b, k)
  <2>1. j \in Nat
    BY RequestIs DEF Pages
  <2>2. Comes(v, d, t, k, j)
    BY <1>5, <2>1 DEF Comes
  <2> QED
    BY <1>4, <2>2
<1>6. ASSUME NEW j, \A k \in Keys : b.rows[k].seq <= v[j].last \/ b.rows[k].seq <= v[j].page.cursor
      PROVE  Completes(v, d, b, t, j)
  BY <1>4, <1>5, <1>6 DEF Completes
<1>7. CaughtUp(w, d, b, t, c) => CaughtUp(v, d, b, t, c)
  BY <1>3 DEF CaughtUp
<1>8. ASSUME NEW j \in DOMAIN w, Sees(w, d, b, t, j), j # i PROVE Sees(v, d, b, t, j)
  <2>1. v[j] = w[j]
    BY <1>8 DEF Read
  <2>2. Completes(w, d, b, t, j) => Completes(v, d, b, t, j)
    BY <1>6, <2>1 DEF Completes
  <2> QED
    BY <1>8, <2>1, <2>2 DEF Sees
<1>9. Sees(v, d, b, t, i)
  <2>1. i \in Nat /\ w[i].last \in Nat /\ v[i].last = w[i].last /\ v[i].domain = d
    BY PagesRead DEF Read
  <2> DEFINE page == v[i].page
  <2>2. /\ IsPage(page)
        /\ \A r \in page.rows : r.key \in Keys /\ r.row = b.rows[r.key]
        /\ \A k \in Keys : w[i].last < b.rows[k].seq /\ ~Carries(page, k) => page.more
        /\ page.more => page.rows # {}
    BY <2>1, PageAfterIs DEF Read
  <2> HIDE DEF page
  <2>3. ASSUME IsLast(page), NEW k \in Keys
        PROVE  b.rows[k].seq <= w[i].last \/ b.rows[k].seq <= page.cursor
    <3>1. ~page.more
      BY <2>2, <2>3 DEF IsLast
    <3>2. b.rows[k].seq \in Nat
      BY RowIs
    <3>3. CASE Carries(page, k)
      BY <2>2, <3>3 DEF Carries, IsPage
    <3>4. CASE ~Carries(page, k)
      BY <2>1, <2>2, <3>1, <3>2, <3>4
    <3> QED
      BY <3>3, <3>4
  <2>4. IsLast(page) => Completes(v, d, b, t, i)
    BY <1>6, <2>1, <2>3 DEF page
  <2> QED
    BY <2>1, <2>4 DEF Sees, page
<1> QED
  BY <1>7, <1>8, <1>9

\* Requests that only change their state change nothing of it.
LEMMA InHandChecked ==
  ASSUME NEW d, NEW w, NEW v, DOMAIN v = DOMAIN w, Len(v) = Len(w),
         \A i \in DOMAIN w : /\ v[i].domain = w[i].domain /\ v[i].page = w[i].page
                             /\ v[i].last = w[i].last,
         NEW b, NEW t, NEW c
  PROVE  /\ CaughtUp(w, d, b, t, c) => CaughtUp(v, d, b, t, c)
         /\ \A j \in DOMAIN w : Sees(w, d, b, t, j) => Sees(v, d, b, t, j)
<1>1. Pages(v, d) = Pages(w, d) /\ \A i \in Pages(w, d) : v[i].page = w[i].page /\ i \in DOMAIN w
  BY DEF Pages
<1>2. \A k, n : Comes(v, d, t, k, n) <=> Comes(w, d, t, k, n)
  BY <1>1 DEF Comes
<1>3. CaughtUp(w, d, b, t, c) => CaughtUp(v, d, b, t, c)
  BY <1>2 DEF CaughtUp
<1>4. ASSUME NEW j \in DOMAIN w, Completes(w, d, b, t, j) PROVE Completes(v, d, b, t, j)
  BY <1>1, <1>2, <1>4 DEF Completes
<1> QED
  BY <1>3, <1>4 DEF Sees

-----------------------------------------------------------------------------
(* Nothing is forgotten *)

\* A relation is a domain.
LEMMA RelationIs == \A d \in Relations : d \in Domains /\ Kind[d] = "relation"
BY DEF Relations

\* A sync that is still to begin is so until its actor moves or the flag is cleared.
LEMMA StillWaiting ==
  ASSUME NEW d, Waiting(d), d \in notices => d \in notices' \/ flags'[d],
         flags[d] => flags'[d], \A a \in Actors : ToBegin(a, d) => ToBegin(a, d)'
  PROVE  Waiting(d)'
BY DEF Waiting

\* A domain that a step leaves alone, but for requests of others, stays in hand.
LEMMA StillInHand ==
  ASSUME InSync, NEW d \in Domains, wire' \in Seq(Request), NEW m, Thins(wire', wire, m, d),
         NEW p, Stays(wire', wire, p), p \in DOMAIN wire => wire[p].domain # d,
         server'[d] = server[d], table'[d] = table[d], cursor'[d] = cursor[d],
         Waiting(d) => Waiting(d)', InHand(d)
  PROVE  InHand(d)'
<1>1. wire \in Seq(Request) /\ Line(wire)
  BY DEF InSync, TypeOK, Wired
<1>2. ASSUME NEW i \in DOMAIN wire, Sees(wire, d, server[d], table[d], i)
      PROVE  InHand(d)'
  <2>1. i # p
    BY <1>2 DEF Sees
  <2>2. PICK j \in DOMAIN wire' : wire'[j] = wire[i]
    BY <2>1 DEF Stays
  <2> DEFINE t == table[d]
             b == server[d]
             v == wire'
             w == wire
  <2> HIDE DEF t, b
  <2>3. v \in Seq(Request) /\ w \in Seq(Request) /\ Line(w) /\ Thins(v, w, m, d)
    BY <1>1
  <2>4. i \in DOMAIN w /\ j \in DOMAIN v /\ v[j] = w[i] /\ Sees(w, d, b, t, i)
    BY <1>2, <2>2 DEF b, t
  <2> HIDE DEF v, w
  <2>5. \A k \in Keys : \A q \in Pages(v, d) : Comes(v, d, t, k, q) => Comes(w, d, t, k, m[q])
    BY <2>3, ComesFewer
  <2>6. Sees(v, d, b, t, j)
    BY <2>3, <2>4, <2>5, SeesThins
  <2> QED
    BY <2>4, <2>6 DEF InHand, b, t, v
<1>3. ASSUME CaughtUp(wire, d, server[d], table[d], cursor[d]) PROVE InHand(d)'
  <2> DEFINE t == table[d]
             b == server[d]
             c == cursor[d]
             v == wire'
             w == wire
  <2>1. v \in Seq(Request) /\ w \in Seq(Request) /\ Thins(v, w, m, d) /\ CaughtUp(w, d, b, t, c)
    BY <1>1, <1>3
  <2> HIDE DEF t, b, c, v, w
  <2>2. CaughtUp(v, d, b, t, c)
    BY <2>1, CaughtUpThins
  <2> QED
    BY <2>2 DEF InHand, b, t, c, v
<1> QED
  BY <1>2, <1>3 DEF InHand

\* So does one of which nothing changes.
LEMMA Unmoved ==
  ASSUME NEW d, wire' = wire, server'[d] = server[d], table'[d] = table[d],
         cursor'[d] = cursor[d], Waiting(d) => Waiting(d)', InHand(d)
  PROVE  InHand(d)'
BY DEF InHand

\* A new session asks for every domain.
LEMMA AllWait ==
  ASSUME runs'["background"] = Between(Stages), NEW d \in Domains
  PROVE  InHand(d)'
<1>1. PICK i \in DOMAIN Stages : d = Stages[i]
  BY DEF Domains
<1>2. runs'["background"].pc = "between" /\ runs'["background"].todo = Stages
  BY DEF Between
<1>3. ToBegin("background", d)'
  BY <1>1, <1>2 DEF ToBegin
<1> QED
  BY <1>3 DEF InHand, Waiting, Actors

\* What a request stays with when another goes or joins.
LEMMA TailStays ==
  ASSUME NEW w \in Seq(Request), w # <<>>
  PROVE  Stays(Tail(w), w, 1)
<1>1. /\ Tail(w) \in Seq(Request) /\ Len(Tail(w)) = Len(w) - 1
      /\ \A i \in 1..Len(Tail(w)) : Tail(w)[i] = w[i + 1]
  BY HeadTailProperties
<1>2. /\ DOMAIN w = 1..Len(w) /\ DOMAIN Tail(w) = 1..Len(Tail(w))
      /\ Len(w) \in Nat /\ Len(Tail(w)) \in Nat
  BY <1>1, LenProperties
<1> SUFFICES ASSUME NEW i \in DOMAIN w, i # 1
             PROVE  \E j \in DOMAIN Tail(w) : Tail(w)[j] = w[i]
  BY DEF Stays
<1>3. i - 1 \in 1..Len(Tail(w)) /\ (i - 1) + 1 = i
  BY <1>1, <1>2
<1> QED
  BY <1>1, <1>2, <1>3

\* A request that joins takes none away.
LEMMA AppendStays ==
  ASSUME NEW u \in Seq(Request), NEW r \in Request, NEW w, NEW p, Stays(u, w, p)
  PROVE  Stays(Append(u, r), w, p)
<1>1. \A i \in DOMAIN u : i \in DOMAIN Append(u, r) /\ Append(u, r)[i] = u[i]
  BY AppendIs
<1> QED
  BY <1>1 DEF Stays

\* Without the request at p every other is still there.
LEMMA WithoutStays ==
  ASSUME NEW w \in Seq(Request), NEW p \in DOMAIN w
  PROVE  Stays(Without(w, p), w, p)
<1> DEFINE v == Without(w, p)
           n == Len(w)
           s == SubSeq(w, 1, p - 1)
           t == SubSeq(w, p + 1, n)
<1>1. n \in Nat /\ DOMAIN w = 1..n /\ p \in 1..n
  BY LenProperties
<1>2. /\ s \in Seq(Request) /\ Len(s) = p - 1 /\ \A i \in 1..(p - 1) : s[i] = w[i]
  BY <1>1, SubSeqProperties
<1>3. /\ t \in Seq(Request) /\ Len(t) = n - p
      /\ \A i \in 1..(n - p) : t[i] = w[i + p]
  BY <1>1, SubSeqProperties
<1>4. /\ v \in Seq(Request) /\ Len(v) = n - 1
      /\ \A i \in 1..(n - 1) : v[i] = IF i <= p - 1 THEN s[i] ELSE t[i - (p - 1)]
  <2>1. v = s \o t
    BY DEF Without
  <2>2. /\ s \o t \in Seq(Request) /\ Len(s \o t) = Len(s) + Len(t)
        /\ \A i \in 1..(Len(s) + Len(t)) :
             (s \o t)[i] = IF i <= Len(s) THEN s[i] ELSE t[i - Len(s)]
    BY <1>2, <1>3, ConcatProperties
  <2> HIDE DEF v, s, t
  <2> QED
    BY <1>1, <1>2, <1>3, <2>1, <2>2
<1>5. DOMAIN v = 1..(n - 1)
  BY <1>4, LenProperties
<1> HIDE DEF v, s, t
<1> SUFFICES ASSUME NEW i \in DOMAIN w, i # p PROVE \E j \in DOMAIN v : v[j] = w[i]
  BY DEF Stays, v
<1>6. CASE i < p
  <2>1. i \in 1..(n - 1) /\ i <= p - 1 /\ i \in 1..(p - 1)
    BY <1>1, <1>6
  <2> QED
    BY <1>2, <1>4, <1>5, <2>1
<1>7. CASE ~(i < p)
  <2>1. /\ i - 1 \in 1..(n - 1) /\ ~(i - 1 <= p - 1) /\ (i - 1) - (p - 1) = i - p
        /\ i - p \in 1..(n - p) /\ (i - p) + p = i
    BY <1>1, <1>7
  <2> QED
    BY <1>3, <1>4, <1>5, <2>1
<1> QED
  BY <1>6, <1>7

\* Init: the background sync asks for every domain.
LEMMA ForgottenInit == Init => NothingForgotten
<1> SUFFICES ASSUME Init PROVE NothingForgotten
  OBVIOUS
<1>1. InSync
  BY InSyncInit
<1>2. Queued
  BY DEF Init, Queued
<1>3. ASSUME NEW d \in Relations PROVE InHand(d)
  <2>1. PICK i \in DOMAIN Stages : d = Stages[i]
    BY DEF Relations, Domains
  <2>2. runs["background"] = Between(Stages)
    BY DEF Init, Actors
  <2>3. ToBegin("background", d)
    BY <2>1, <2>2 DEF ToBegin, Between
  <2> QED
    BY <2>3 DEF InHand, Waiting, Actors
<1> QED
  BY <1>1, <1>2, <1>3 DEF NothingForgotten, AllInHand

\* A write on the server: if it is of a relation, it is announced.
LEMMA WritesInHand ==
  ASSUME NothingForgotten, ServerOnly, exposed' = exposed, notices \subseteq notices',
         \A d \in Relations : server'[d] = server[d] \/ d \in notices'
  PROVE  AllInHand'
<1> USE DEF ServerOnly, queue
<1> SUFFICES ASSUME exposed = {}, NEW d \in Relations \ failed PROVE InHand(d)'
  BY DEF AllInHand
<1>1. InHand(d)
  BY DEF NothingForgotten, AllInHand
<1>2. CASE d \in notices'
  BY <1>2 DEF InHand, Waiting
<1>3. CASE server'[d] = server[d]
  <2>1. Waiting(d) => Waiting(d)'
    BY StillWaiting DEF ToBegin
  <2> QED
    BY <1>1, <1>3, <2>1, Unmoved
<1> QED
  BY <1>2, <1>3

\* A write of any kind of row, and its announcement.
LEMMA WriteInHand ==
  ASSUME NothingForgotten, NEW d \in Domains, NEW k \in Keys,
         Put(d, k) \/ Remove(d, k) \/ Delete(d, k)
  PROVE  AllInHand'
<1>1. ServerOnly /\ exposed' = exposed /\ notices \subseteq notices'
  BY DEF Put, Remove, Delete
<1>2. \A e \in Relations : e # d => server'[e] = server[e]
  <2>1. server \in [Domains -> Box]
    BY DEF NothingForgotten, InSync, TypeOK
  <2> QED
    BY <2>1, RelationIs DEF Put, Remove, Delete, WriteShared
<1>3. d \in Relations => d \in notices'
  BY RelationIs DEF Put, Remove, Delete
<1> QED
  BY <1>1, <1>2, <1>3, WritesInHand

\* A message is received: its row and its conversation's.
LEMMA ReceiveInHand ==
  ASSUME NothingForgotten, NEW m \in Domains, NEW c \in Domains, NEW k \in Keys,
         NEW chat \in Chats, Receive(m, c, k, chat)
  PROVE  AllInHand'
<1>1. ServerOnly /\ exposed' = exposed /\ notices \subseteq notices'
  BY DEF Receive
<1>2. \A e \in Relations : server'[e] = server[e]
  <2>1. server \in [Domains -> Box]
    BY DEF NothingForgotten, InSync, TypeOK
  <2>2. \A e \in Relations : e \in Domains /\ e # m /\ e # c
    BY RelationIs DEF Receive
  <2> QED
    BY <2>1, <2>2 DEF Receive
<1> QED
  BY <1>1, <1>2, WritesInHand

\* A purge takes away what every copy has done without already, or what the last
\* page of a sync buries.
LEMMA PurgeInHand ==
  ASSUME NothingForgotten, NEW d \in Domains, Purge(d)
  PROVE  AllInHand'
<1> USE DEF ServerOnly, queue
<1> SUFFICES ASSUME exposed' = {}, NEW e \in Relations \ failed PROVE InHand(e)'
  BY DEF AllInHand, Purge
<1>1. /\ server' = [server EXCEPT ![d] = Purged(server[d])]
      /\ ServerOnly /\ UNCHANGED <<notices, gone>> /\ exposed = {}
  BY DEF Purge
<1>2. e \in Domains /\ InHand(e) /\ server \in [Domains -> Box]
  BY <1>1, RelationIs DEF NothingForgotten, AllInHand, InSync, TypeOK
<1>3. Waiting(e) => Waiting(e)'
  BY <1>1, StillWaiting DEF ToBegin
<1>4. CASE e # d
  <2>1. server'[e] = server[e]
    BY <1>1, <1>2, <1>4
  <2> QED
    BY <1>1, <1>2, <1>3, <2>1, Unmoved
<1>5. CASE e = d
  <2> DEFINE b == server[d]
             t == table[d]
             c == cursor[d]
             f == rebuilding[d]
  <2>1. NoReset /\ NoPurge
    BY <1>1 DEF NoReset, NoPurge
  <2>2. wire \in Seq(Request) /\ b \in Box /\ c \in Nat /\ InStep(d)
    BY DEF NothingForgotten, InSync, TypeOK
  <2>3. /\ Numbered(b) /\ Fetched(wire, d, b, c) /\ GhostsHeard(wire, d, b, t, c, f)
        /\ \A i \in DOMAIN wire : wire[i].domain = d => wire[i].last <= c
    BY <2>1, <2>2 DEF InStep
  <2>4. server'[d] = Purged(b) /\ wire' = wire /\ table'[d] = t /\ cursor'[d] = c
    BY <1>1, <1>2
  <2> HIDE DEF b, t, c, f
  <2>5. /\ CaughtUp(wire, d, b, t, c) => CaughtUp(wire, d, Purged(b), t, c)
        /\ \A i \in DOMAIN wire : Sees(wire, d, b, t, i) => Sees(wire, d, Purged(b), t, i)
    BY <2>2, <2>3, InHandPurged
  <2>6. Waiting(d) \/ (\E i \in DOMAIN wire : Sees(wire, d, b, t, i)) \/ CaughtUp(wire, d, b, t, c)
    BY <1>2, <1>5 DEF InHand, b, t, c
  <2> QED
    BY <1>3, <1>5, <2>4, <2>5, <2>6 DEF InHand
<1> QED
  BY <1>4, <1>5

\* The horizon is checked.
LEMMA CheckInHand ==
  ASSUME NothingForgotten, CheckHorizon
  PROVE  AllInHand'
<1> USE DEF world, queue
<1>1. PICK i \in DOMAIN wire :
        /\ Served(i)
        /\ wire' = [wire EXCEPT ![i].state =
                      IF IsTooOld(server[wire[i].domain], wire[i].last, wire[i].rebuild)
                      THEN "answered" ELSE "checked"]
        /\ UNCHANGED <<world, table, cursor, rebuilding, runs, queue, status, failed,
                       exposed, spent>>
  BY DEF CheckHorizon
<1>2. InSync /\ wire \in Seq(Request) /\ wire[i] \in Request
  <2>1. wire \in Seq(Request)
    BY DEF NothingForgotten, InSync, TypeOK
  <2> QED
    BY <2>1, ElementOfSeq, LenProperties DEF NothingForgotten
<1> DEFINE s == IF IsTooOld(server[wire[i].domain], wire[i].last, wire[i].rebuild)
                THEN "answered" ELSE "checked"
           q == [wire[i] EXCEPT !.state = s]
<1>10. wire' = [wire EXCEPT ![i] = q] /\ s \in {"answered", "checked"}
  BY <1>1
<1> HIDE DEF s
<1>11. /\ q \in Request /\ q.from = wire[i].from /\ q.domain = wire[i].domain
       /\ q.page = wire[i].page /\ q.last = wire[i].last
  BY <1>2, <1>10 DEF Request
<1> HIDE DEF q
<1>3. /\ DOMAIN wire' = DOMAIN wire /\ Len(wire') = Len(wire)
      /\ \A j \in DOMAIN wire : /\ wire'[j].domain = wire[j].domain
                                /\ wire'[j].page = wire[j].page /\ wire'[j].last = wire[j].last
  <2>1. /\ DOMAIN wire' = DOMAIN wire /\ Len(wire') = Len(wire)
        /\ wire'[i] = q /\ \A j \in DOMAIN wire : j # i => wire'[j] = wire[j]
    BY <1>1, <1>2, <1>10, <1>11, ServedIs
  <2> QED
    BY <1>11, <2>1
<1> SUFFICES ASSUME exposed = {}, NEW d \in Relations \ failed PROVE InHand(d)'
  BY <1>1 DEF AllInHand
<1>4. InHand(d)
  BY DEF NothingForgotten, AllInHand
<1>5. Waiting(d) => Waiting(d)'
  BY <1>1, StillWaiting DEF ToBegin
<1> DEFINE b == server[d]
           t == table[d]
           c == cursor[d]
           v == wire'
<1>6. server'[d] = b /\ table'[d] = t /\ cursor'[d] = c /\ v = wire'
  BY <1>1
<1>7. DOMAIN v = DOMAIN wire /\ Len(v) = Len(wire)
      /\ \A j \in DOMAIN wire : /\ v[j].domain = wire[j].domain
                                /\ v[j].page = wire[j].page /\ v[j].last = wire[j].last
  BY <1>3
<1> HIDE DEF b, t, c, v
<1>8. /\ CaughtUp(wire, d, b, t, c) => CaughtUp(v, d, b, t, c)
      /\ \A j \in DOMAIN wire : Sees(wire, d, b, t, j) => Sees(v, d, b, t, j)
  BY <1>7, InHandChecked
<1>9. Waiting(d) \/ (\E j \in DOMAIN wire : Sees(wire, d, b, t, j)) \/ CaughtUp(wire, d, b, t, c)
  BY <1>4 DEF InHand, b, t, c
<1> QED
  BY <1>5, <1>6, <1>7, <1>8, <1>9 DEF InHand

\* What reading a page does.
LEMMA ReadIs ==
  ASSUME InSync, NEW i \in DOMAIN wire, Served(i), wire[i].state = "checked",
         wire' = [wire EXCEPT ![i].state = "answered",
                              ![i].page = PageAfter(server[wire[i].domain], wire[i].last)]
  PROVE  /\ wire' \in Seq(Request)
         /\ Read(wire, wire', server[wire[i].domain], i)
         /\ \A d : d # wire[i].domain => Swaps(wire', wire, i, d)
<1> DEFINE r == wire[i]
           b == server[wire[i].domain]
           page == PageAfter(b, r.last)
           q == [wire[i] EXCEPT !.state = "answered", !.page = page]
<1>2. r \in Request /\ r.domain \in Domains /\ r.last \in Nat /\ r.from \in Actors
      /\ wire \in Seq(Request)
  <2>1. wire \in Seq(Request)
    BY DEF InSync, TypeOK
  <2>2. i \in 1..Len(wire)
    BY <2>1, LenProperties
  <2> QED
    BY <2>1, <2>2, RequestIs, ElementOfSeq
<1>3. r.page.tooOld
  BY DEF InSync, Wired, Fits
<1>4. b \in Box /\ Numbered(b)
  BY <1>2 DEF InSync, TypeOK, InStep
<1>5. page \in Page
  <2> HIDE DEF b, r
  <2> QED
    BY <1>2, <1>4, PageAfterIs
<1>6. wire' = [wire EXCEPT ![i] = q]
  OBVIOUS
<1> HIDE DEF page
<1>7. /\ q \in Request /\ q.state = "answered" /\ q.from = r.from /\ q.domain = r.domain
      /\ q.last = r.last /\ q.rebuild = r.rebuild /\ q.page = page
  BY <1>2, <1>5 DEF Request
<1> HIDE DEF q
<1>8. /\ wire' \in Seq(Request) /\ DOMAIN wire' = DOMAIN wire /\ Len(wire') = Len(wire)
      /\ wire'[i] = q /\ \A j \in DOMAIN wire : j # i => wire'[j] = wire[j]
      /\ \A d : d # q.domain => Swaps(wire', wire, i, d)
  BY <1>6, <1>7, ServedIs
<1>9. \A j \in Pages(wire, wire[i].domain) : j < i
  <2> SUFFICES ASSUME NEW j \in Pages(wire, wire[i].domain) PROVE j < i
    OBVIOUS
  <2>1. j \in DOMAIN wire /\ ~wire[j].page.tooOld
    BY DEF Pages
  <2>2. wire[j].state = "answered"
    BY <2>1 DEF InSync, Wired, Fits
  <2>3. j # i /\ ~(i < j)
    BY <2>1, <2>2 DEF InSync, Wired, Line
  <2> QED
    BY <1>2, <2>1, <2>3, RequestIs
<1> QED
  BY <1>3, <1>7, <1>8, <1>9 DEF Read, page

\* A page is read.
LEMMA ReadInHand ==
  ASSUME NothingForgotten, ReadPage
  PROVE  AllInHand'
<1> USE DEF world, queue
<1>1. PICK i \in DOMAIN wire :
        /\ Served(i) /\ wire[i].state = "checked"
        /\ wire' = [wire EXCEPT ![i].state = "answered",
                                ![i].page = PageAfter(server[wire[i].domain], wire[i].last)]
        /\ UNCHANGED <<world, table, cursor, rebuilding, runs, queue, status, failed,
                       exposed, spent>>
  BY DEF ReadPage
<1>2. InSync /\ wire \in Seq(Request)
  BY DEF NothingForgotten, InSync, TypeOK
<1>3. /\ wire' \in Seq(Request)
      /\ Read(wire, wire', server[wire[i].domain], i)
      /\ \A d : d # wire[i].domain => Swaps(wire', wire, i, d)
  BY <1>1, <1>2, ReadIs
<1> SUFFICES ASSUME exposed = {}, NEW d \in Relations \ failed PROVE InHand(d)'
  BY <1>1 DEF AllInHand
<1>4. InHand(d) /\ d \in Domains
  BY RelationIs DEF NothingForgotten, AllInHand
<1>5. Waiting(d) => Waiting(d)'
  BY <1>1, StillWaiting DEF ToBegin
<1>6. server'[d] = server[d] /\ table'[d] = table[d] /\ cursor'[d] = cursor[d]
  BY <1>1
<1>7. CASE d # wire[i].domain
  <2>1. PICK m : Thins(wire', wire, m, d)
    BY <1>3, <1>7 DEF Swaps
  <2>2. Stays(wire', wire, i)
    BY <1>3 DEF Read, Stays
  <2> QED
    BY <1>2, <1>3, <1>4, <1>5, <1>6, <1>7, <2>1, <2>2, StillInHand
<1>8. CASE d = wire[i].domain
  <2> DEFINE b == server[d]
             t == table[d]
             c == cursor[d]
             f == rebuilding[d]
             v == wire'
  <2>1. NoReset /\ NoPurge
    BY DEF NoReset, NoPurge
  <2>2. b \in Box /\ c \in Nat /\ InStep(d)
    BY <1>2, <1>4 DEF InSync, TypeOK
  <2>3. Numbered(b) /\ GhostsHeard(wire, d, b, t, c, f)
    BY <2>1, <2>2 DEF InStep
  <2>4. /\ v \in Seq(Request) /\ v = wire' /\ DOMAIN v = DOMAIN wire
        /\ Read(wire, v, b, i)
        /\ server'[d] = b /\ table'[d] = t /\ cursor'[d] = c
    BY <1>3, <1>6, <1>8 DEF Read
  <2> HIDE DEF b, t, c, f, v
  <2> DEFINE w == wire
  <2>7. /\ w \in Seq(Request) /\ v \in Seq(Request) /\ b \in Box /\ Numbered(b)
        /\ Read(w, v, b, i) /\ d = w[i].domain /\ c \in Nat /\ GhostsHeard(w, d, b, t, c, f)
    BY <1>2, <1>8, <2>2, <2>3, <2>4
  <2> HIDE DEF w
  <2>8. /\ CaughtUp(w, d, b, t, c) => CaughtUp(v, d, b, t, c)
        /\ \A j \in DOMAIN w : Sees(w, d, b, t, j) => Sees(v, d, b, t, j)
    BY <2>7, InHandRead
  <2>5. /\ CaughtUp(wire, d, b, t, c) => CaughtUp(v, d, b, t, c)
        /\ \A j \in DOMAIN wire : Sees(wire, d, b, t, j) => Sees(v, d, b, t, j)
    BY <2>8 DEF w
  <2>6. Waiting(d) \/ (\E j \in DOMAIN wire : Sees(wire, d, b, t, j)) \/ CaughtUp(wire, d, b, t, c)
    BY <1>4 DEF InHand, b, t, c
  <2> QED
    BY <1>5, <2>4, <2>5, <2>6 DEF InHand
<1> QED
  BY <1>7, <1>8

\* A sync begins.
LEMMA BeginInHand ==
  ASSUME NothingForgotten, NEW a \in Actors, Begin(a)
  PROVE  AllInHand'
<1> USE DEF world, queue
<1> DEFINE h == Head(runs[a].todo)
           zero == Kind[h] # "conversations" /\ cursor[h] = 0
           r == RequestFor(a, h, cursor[h], zero, rebuilding[h])
           l == Len(wire) + 1
<1>1. /\ runs[a].pc = "between" /\ runs[a].todo # <<>>
      /\ wire' = Append(wire, r)
      /\ runs' = [runs EXCEPT ![a] = [runs[a] EXCEPT !.pc = "waiting", !.rebuild = zero]]
      /\ failed' = failed \ {h}
      /\ UNCHANGED <<world, table, cursor, rebuilding, queue, status, exposed, spent>>
  BY DEF Begin
<1>2. /\ InSync /\ wire \in Seq(Request) /\ runs \in [Actors -> Run] /\ runs[a] \in Run
      /\ runs[a].todo \in Seq(Domains)
  BY DEF NothingForgotten, InSync, TypeOK, Run
<1>3. h \in Domains /\ h = runs[a].todo[1] /\ 1 \in DOMAIN runs[a].todo
  BY <1>1, <1>2, HeadTailProperties, LenProperties
<1>4. cursor[h] \in Nat /\ rebuilding[h] \in BOOLEAN /\ zero \in BOOLEAN
  BY <1>2, <1>3 DEF InSync, TypeOK
<1>10. /\ runs'[a].pc = "waiting" /\ runs'[a].todo = runs[a].todo
       /\ \A b \in Actors : b # a => runs'[b] = runs[b]
  BY <1>1, <1>2 DEF Run
<1> HIDE DEF h
<1>5. r \in Request /\ r.domain = h /\ r.page.tooOld
  <2> HIDE DEF zero
  <2> QED
    BY <1>3, <1>4, RequestForIs
<1> HIDE DEF r, zero
<1>6. wire' \in Seq(Request) /\ l \in DOMAIN wire' /\ wire'[l] = r
  BY <1>1, <1>2, <1>5, AppendIs
<1>7. Stays(wire', wire, 0)
  <2>1. Stays(wire, wire, 0)
    BY DEF Stays
  <2> QED
    BY <1>1, <1>2, <1>5, <2>1, AppendStays
<1>8. \A e : Renews(wire', wire, 0, e, l)
  <2> SUFFICES ASSUME NEW e PROVE Renews(wire', wire, 0, e, l)
    OBVIOUS
  <2>1. Remains(wire, wire, 0, e)
    BY <1>2, AllRemain
  <2> QED
    BY <1>1, <1>2, <1>5, <2>1, AppendRenews
<1> HIDE DEF l
<1> SUFFICES ASSUME exposed = {}, NEW d \in Relations \ failed' PROVE InHand(d)'
  BY <1>1 DEF AllInHand
<1>9. CASE d = h
  BY <1>5, <1>6, <1>9 DEF InHand, Sees
<1>11. CASE d # h
  <2>1. InHand(d) /\ d \in Domains
    BY <1>1, <1>11, RelationIs DEF NothingForgotten, AllInHand
  <2>2. ASSUME NEW b \in Actors, ToBegin(b, d) PROVE ToBegin(b, d)'
    <3>1. CASE b = a
      <4>1. PICK i \in DOMAIN runs[a].todo : runs[a].todo[i] = d
        BY <2>2, <3>1 DEF ToBegin
      <4>2. i \in 1..Len(runs[a].todo) /\ Len(runs[a].todo) \in Nat
        BY <1>2, LenProperties
      <4>3. i # 1
        BY <1>3, <1>11, <4>1
      <4>4. i > 1
        BY <4>2, <4>3
      <4> QED
        BY <1>10, <3>1, <4>1, <4>4 DEF ToBegin
    <3>2. CASE b # a
      BY <1>10, <2>2, <3>2 DEF ToBegin
    <3> QED
      BY <3>1, <3>2
  <2>3. Waiting(d) => Waiting(d)'
    BY <1>1, <2>2, StillWaiting
  <2>4. PICK m : Thins(wire', wire, m, d)
    BY <1>8 DEF Renews
  <2>5. 0 \notin DOMAIN wire
    BY <1>2, LenProperties
  <2>6. server'[d] = server[d] /\ table'[d] = table[d] /\ cursor'[d] = cursor[d]
    BY <1>1
  <2> QED
    BY <1>2, <1>6, <1>7, <2>1, <2>3, <2>4, <2>5, <2>6, StillInHand
<1> QED
  BY <1>9, <1>11

\* Steps that touch neither the tables of the relations nor the wire.
LEMMA QuietInHand ==
  ASSUME NothingForgotten, wire' = wire, failed' = failed, server' = server, cursor' = cursor,
         exposed' = {} => exposed = {}, \A d \in Relations : table'[d] = table[d],
         \A d \in Relations : Waiting(d) => Waiting(d)'
  PROVE  AllInHand'
<1> SUFFICES ASSUME exposed' = {}, NEW d \in Relations \ failed PROVE InHand(d)'
  BY DEF AllInHand
<1>1. InHand(d)
  BY DEF NothingForgotten, AllInHand
<1> QED
  BY <1>1, Unmoved

\* The background sync ends, a handler does, or a node without a flag goes.
LEMMA EndInHand ==
  ASSUME NothingForgotten, EndBackground \/ HandlerDone \/ NextNode
  PROVE  AllInHand'
<1> USE DEF EndBackground, HandlerDone, NextNode, world, queue
<1>1. /\ wire' = wire /\ failed' = failed /\ server' = server /\ cursor' = cursor
      /\ exposed' = exposed /\ table' = table /\ notices' = notices /\ flags' = flags
  OBVIOUS
<1>2. ASSUME NEW d \in Relations, NEW b \in Actors, ToBegin(b, d) PROVE ToBegin(b, d)'
  <2>1. runs \in [Actors -> Run]
    BY DEF NothingForgotten, InSync, TypeOK
  <2>2. runs[b] # Between(<<>>)
    BY <1>2 DEF ToBegin, Between
  <2>3. runs'[b] = runs[b]
    BY <2>1, <2>2 DEF Actors
  <2> QED
    BY <1>2, <2>3 DEF ToBegin
<1>3. ASSUME NEW d \in Relations, Waiting(d) PROVE Waiting(d)'
  BY <1>1, <1>2, <1>3, StillWaiting
<1> QED
  BY <1>1, <1>3, QuietInHand

\* A handler runs: what was flagged is on its list.
LEMMA HandleInHand ==
  ASSUME NothingForgotten, Handle
  PROVE  AllInHand'
<1> USE DEF Handle, world, queue
<1>1. /\ wire' = wire /\ failed' = failed /\ server' = server /\ cursor' = cursor
      /\ exposed' = exposed /\ table' = table /\ notices' = notices
  OBVIOUS
<1>2. /\ runs \in [Actors -> Run] /\ flags \in [Notices -> BOOLEAN]
      /\ "handler" \in Actors /\ runs["handler"].pc = "idle"
      /\ runs'["handler"] = Between(Task(Head(chain)))
      /\ \A b \in Actors : b # "handler" => runs'[b] = runs[b]
  BY DEF NothingForgotten, InSync, TypeOK, Actors
<1>3. ASSUME NEW d \in Relations, Waiting(d) PROVE Waiting(d)'
  <2>1. CASE flags[d] /\ d = Head(chain)
    <3>1. Task(d) = <<d>>
      BY RelationIs DEF Task
    <3>2. ToBegin("handler", d)'
      BY <1>2, <2>1, <3>1 DEF ToBegin, Between
    <3> QED
      BY <1>2, <3>2 DEF Waiting
  <2>2. CASE ~(flags[d] /\ d = Head(chain))
    <3>1. flags[d] => flags'[d]
      BY <1>2, <2>2
    <3>2. ASSUME NEW b \in Actors, ToBegin(b, d) PROVE ToBegin(b, d)'
      BY <1>2, <3>2 DEF ToBegin
    <3> QED
      BY <1>1, <1>3, <3>1, <3>2, StillWaiting
  <2> QED
    BY <2>1, <2>2
<1> QED
  BY <1>1, <1>3, QuietInHand

\* Rows are deleted by name: none is a relation's.
LEMMA HandleDeletionsInHand ==
  ASSUME NothingForgotten, HandleDeletions
  PROVE  AllInHand'
<1> DEFINE named == {x \in deleted : DeletionOf(x[1]) = Head(chain)}
<1> USE DEF world, queue
<1>1. /\ Head(chain) \in Deletions
      /\ flags' = [flags EXCEPT ![Head(chain)] = FALSE]
      /\ table' = [d \in Domains |-> [k \in Keys |-> IF <<d, k>> \in named THEN 0 ELSE table[d][k]]]
      /\ exposed' = {} => exposed = {}
      /\ UNCHANGED <<world, wire, cursor, rebuilding, runs, chain, status, failed, spent>>
  BY DEF HandleDeletions
<1>2. ASSUME NEW d \in Relations PROVE table'[d] = table[d]
  <2>1. \A k \in Keys : <<d, k>> \notin named
    BY RelationIs DEF NothingForgotten, Queued
  <2>2. d \in Domains /\ table[d] \in [Keys -> Nat]
    BY RelationIs DEF NothingForgotten, InSync, TypeOK
  <2> HIDE DEF named
  <2> QED
    BY <1>1, <2>1, <2>2
<1>3. ASSUME NEW d \in Relations, Waiting(d) PROVE Waiting(d)'
  <2>1. d # Head(chain) /\ d \in Notices
    BY <1>1, NoticeAssumption, RelationIs DEF Notices
  <2>2. flags'[d] = flags[d]
    BY <1>1, <2>1 DEF NothingForgotten, InSync, TypeOK
  <2> QED
    BY <1>1, <1>3, <2>2, StillWaiting DEF ToBegin
<1> QED
  BY <1>1, <1>2, <1>3, QuietInHand

\* A notification is flagged.
LEMMA NotifiedInHand ==
  ASSUME NothingForgotten, Notified
  PROVE  AllInHand'
<1> USE DEF Untouched, world, queue
<1>1. /\ wire' = wire /\ failed' = failed /\ server' = server /\ cursor' = cursor
      /\ exposed' = exposed /\ table' = table /\ runs' = runs
  BY DEF Notified, Deliver, DeliverDeletion
<1>2. flags \in [Notices -> BOOLEAN]
  BY DEF NothingForgotten, InSync, TypeOK
<1>3. \A d \in Relations : flags[d] => flags'[d]
  BY <1>2, RelationIs DEF Notified, Deliver, DeliverDeletion, Enqueue, Notices
<1>4. ASSUME NEW d \in Relations, d \in notices PROVE d \in notices' \/ flags'[d]
  <2>1. d \in Notices
    BY RelationIs DEF Notices
  <2> QED
    BY <1>2, <1>4, <2>1 DEF Notified, Deliver, DeliverDeletion, Enqueue
<1>5. ASSUME NEW d \in Relations, Waiting(d) PROVE Waiting(d)'
  BY <1>1, <1>3, <1>4, <1>5, StillWaiting DEF ToBegin
<1> QED
  BY <1>1, <1>5, QuietInHand

\* An actor gives up: what it had still to ask for has failed.
LEMMA GivingUpInHand ==
  ASSUME NothingForgotten, NEW a \in Actors, NEW d \in Domains, GivesUp(a, d),
         NEW p \in DOMAIN wire, wire[p].from = a, wire' \in Seq(Request),
         Stays(wire', wire, p), \A e : Remains(wire', wire, p, e),
         UNCHANGED <<world, table, cursor, rebuilding, queue, exposed>>
  PROVE  AllInHand'
<1> USE DEF world, queue
<1>1. /\ InSync /\ wire \in Seq(Request) /\ runs \in [Actors -> Run] /\ runs[a] \in Run
      /\ runs[a].todo \in Seq(Domains)
  BY DEF NothingForgotten, InSync, TypeOK, Run
<1>2. /\ failed' = failed \cup {runs[a].todo[i] : i \in DOMAIN runs[a].todo}
      /\ \A b \in Actors : b # a => runs'[b] = runs[b]
  BY <1>1 DEF GivesUp
<1>3. wire[p].domain = Head(runs[a].todo) /\ runs[a].todo # <<>>
  BY DEF NothingForgotten, InSync, Wired, Fits
<1>4. 1 \in DOMAIN runs[a].todo /\ wire[p].domain = runs[a].todo[1]
  BY <1>1, <1>3, HeadTailProperties, LenProperties
<1> SUFFICES ASSUME exposed = {}, NEW e \in Relations \ failed' PROVE InHand(e)'
  BY DEF AllInHand
<1>5. InHand(e) /\ e \in Domains /\ wire[p].domain # e
  BY <1>2, <1>4, RelationIs DEF NothingForgotten, AllInHand
<1>6. ASSUME NEW b \in Actors, ToBegin(b, e) PROVE ToBegin(b, e)'
  <2>1. b # a
    BY <1>2, <1>6 DEF ToBegin
  <2> QED
    BY <1>2, <1>6, <2>1 DEF ToBegin
<1>7. Waiting(e) => Waiting(e)'
  BY <1>6, StillWaiting
<1>8. PICK m : Thins(wire', wire, m, e)
  BY DEF Remains
<1> QED
  BY <1>1, <1>5, <1>7, <1>8, StillInHand

\* An answer that the domain refuses: its actor gives up.
LEMMA RejectInHand ==
  ASSUME NothingForgotten, NEW a \in Actors, NEW d \in Domains, Reject(a, d)
  PROVE  AllInHand'
<1> USE DEF Reject, world, queue
<1>1. /\ wire \in Seq(Request) /\ wire # <<>> /\ Line(wire) /\ 1 \in DOMAIN wire
      /\ wire[1].from = a
  BY ArrivesIs DEF NothingForgotten
<1>2. /\ wire' \in Seq(Request) /\ \A e : Remains(wire', wire, 1, e)
  BY <1>1, TailIs
<1>3. Stays(wire', wire, 1)
  BY <1>1, TailStays
<1> QED
  BY <1>1, <1>2, <1>3, GivingUpInHand

\* A request fails: its actor gives up.
LEMMA FailInHand ==
  ASSUME NothingForgotten, NEW a \in Actors, NEW d \in Domains, Fail(a, d)
  PROVE  AllInHand'
<1>1. PICK p \in DOMAIN wire : wire[p].from = a /\ wire' = Without(wire, p)
  BY DEF Fail, Without
<1>2. wire \in Seq(Request) /\ Line(wire)
  BY DEF NothingForgotten, InSync, TypeOK, Wired
<1>3. /\ wire' \in Seq(Request) /\ \A e : Remains(wire', wire, p, e)
  BY <1>1, <1>2, WithoutIs
<1>4. Stays(wire', wire, p)
  BY <1>1, <1>2, WithoutStays
<1>5. GivesUp(a, d) /\ UNCHANGED <<world, table, cursor, rebuilding, queue, exposed>>
  BY DEF Fail
<1> QED
  BY <1>1, <1>3, <1>4, <1>5, GivingUpInHand

\* A reset asks again, from zero.
LEMMA ResetInHand ==
  ASSUME NothingForgotten, NEW a \in Actors, NEW d \in Domains, Reset(a, d)
  PROVE  AllInHand'
<1> DEFINE r == RequestFor(a, d, 0, TRUE, TRUE)
           u == Tail(wire)
           l == Len(u) + 1
<1> USE DEF world, queue
<1>1. /\ Arrives(a, d)
      /\ table' = [table EXCEPT ![d] = [k \in Keys |-> 0]]
      /\ cursor' = [cursor EXCEPT ![d] = 0]
      /\ wire' = Append(u, r)
      /\ runs' = [runs EXCEPT ![a] = [runs[a] EXCEPT !.rebuild = TRUE]]
      /\ exposed' = {} => exposed = {}
      /\ UNCHANGED <<world, queue, status, failed, spent>>
  BY DEF Reset, ResetCursor
<1>2. /\ InSync /\ wire \in Seq(Request) /\ wire # <<>> /\ Line(wire)
      /\ runs \in [Actors -> Run] /\ 1 \in DOMAIN wire /\ wire[1].domain = d
  BY <1>1, ArrivesIs DEF NothingForgotten
<1>3. r \in Request /\ r.domain = d /\ r.page.tooOld
  <2> DEFINE zero == 0
             yes == TRUE
  <2>1. zero \in Nat /\ yes \in BOOLEAN /\ r = RequestFor(a, d, zero, yes, yes)
    OBVIOUS
  <2> HIDE DEF r, zero, yes
  <2> QED
    BY <2>1, RequestForIs
<1>4. \A b \in Actors : runs'[b].pc = runs[b].pc /\ runs'[b].todo = runs[b].todo
  BY <1>1, <1>2 DEF Run
<1> HIDE DEF r
<1>5. u \in Seq(Request) /\ Stays(u, wire, 1) /\ \A e : Remains(u, wire, 1, e)
  BY <1>2, TailIs, TailStays
<1> HIDE DEF u
<1>6. wire' \in Seq(Request) /\ l \in DOMAIN wire' /\ wire'[l] = r
  BY <1>1, <1>3, <1>5, AppendIs
<1>7. Stays(wire', wire, 1)
  BY <1>1, <1>3, <1>5, AppendStays
<1>8. \A e : Renews(wire', wire, 1, e, l)
  BY <1>1, <1>3, <1>5, AppendRenews
<1> HIDE DEF l
<1> SUFFICES ASSUME exposed' = {}, NEW e \in Relations \ failed PROVE InHand(e)'
  BY <1>1 DEF AllInHand
<1>9. CASE e = d
  BY <1>3, <1>6, <1>9 DEF InHand, Sees
<1>10. CASE e # d
  <2>1. InHand(e) /\ e \in Domains
    BY <1>1, RelationIs DEF NothingForgotten, AllInHand
  <2>2. Waiting(e) => Waiting(e)'
    BY <1>1, <1>4, StillWaiting DEF ToBegin
  <2>3. PICK m : Thins(wire', wire, m, e)
    BY <1>8 DEF Renews
  <2>4. server'[e] = server[e] /\ table'[e] = table[e] /\ cursor'[e] = cursor[e]
    BY <1>1, <1>10, <2>1 DEF NothingForgotten, InSync, TypeOK
  <2> QED
    BY <1>2, <1>6, <1>7, <1>10, <2>1, <2>2, <2>3, <2>4, StillInHand
<1> QED
  BY <1>9, <1>10

\* A new session asks for all.
LEMMA FreshInHand ==
  ASSUME Fresh
  PROVE  Queued' /\ AllInHand'
<1>1. Queued'
  BY DEF Fresh, Queued
<1>2. runs'["background"] = Between(Stages)
  BY DEF Fresh, Actors
<1>3. \A d \in Relations : InHand(d)'
  BY <1>2, AllWait, RelationIs
<1> QED
  BY <1>1, <1>3 DEF AllInHand

\* A page of d is applied: if it was the last, it leaves nothing to be brought.
LEMMA AppliedInHand ==
  ASSUME InSync, exposed = {}, NEW d \in Domains, 1 \in Pages(wire, d),
         wire' \in Seq(Request), NEW m, Pops(wire', wire, m, d), Stays(wire', wire, 1),
         server'[d] = server[d], table'[d] = Applied(table[d], wire[1].page),
         cursor'[d] = Saved(cursor[d], wire[1].page),
         IsLast(wire[1].page) \/ \E l \in DOMAIN wire' : wire'[l].domain = d /\ wire'[l].page.tooOld,
         Waiting(d) => Waiting(d)', InHand(d)
  PROVE  InHand(d)'
<1> DEFINE b == server[d]
           t == table[d]
           c == cursor[d]
           f == rebuilding[d]
           x == cursor'[d]
           w == wire
           v == wire'
           u == Applied(t, w[1].page)
<1>1. NoReset /\ NoLate
  BY DEF NoReset, NoLate
<1>2. /\ b \in Box /\ t \in [Keys -> Nat] /\ c \in Nat /\ w \in Seq(Request) /\ Line(w)
      /\ InStep(d)
  BY DEF InSync, TypeOK, Wired
<1>3. /\ Fetched(w, d, b, c) /\ LacksNone(w, d, b, t, c, f)
      /\ \A i \in DOMAIN w : w[i].domain = d => w[i].last <= c
  BY <1>1, <1>2 DEF InStep
<1>4. 1 \in DOMAIN w /\ w[1].domain = d /\ ~w[1].page.tooOld /\ 1 \in Pages(w, d)
  BY DEF Pages
<1>5. w[1].page.cursor \in Nat /\ w[1].last <= c
  BY <1>2, <1>3, <1>4, RequestIs
<1>6. v \in Seq(Request) /\ Pops(v, w, m, d) /\ Thins(v, w, m, d) /\ Stays(v, w, 1)
  BY DEF Pops
<1>7. x = Saved(c, w[1].page) /\ server'[d] = b /\ table'[d] = u /\ wire' = v /\ cursor'[d] = x
  OBVIOUS
<1>8. Waiting(d) \/ (\E i \in DOMAIN w : Sees(w, d, b, t, i)) \/ CaughtUp(w, d, b, t, c)
  BY DEF InHand
<1>9. IsLast(w[1].page) \/ \E l \in DOMAIN v : Sees(v, d, b, u, l)
  BY DEF Sees
<1> HIDE DEF b, t, c, f, x, w, v
<1>10. Takes(w, d, c, x) /\ w[1].page.cursor <= x
  <2> DEFINE page == w[1].page
  <2>1. page.cursor \in Nat /\ x = Saved(c, page)
    BY <1>5, <1>7
  <2> HIDE DEF page
  <2>2. /\ Saved(c, page) \in {c, page.cursor} /\ Saved(c, page) \in Nat
        /\ c <= Saved(c, page) /\ page.cursor <= Saved(c, page)
    BY <1>2, <2>1, SavedIs
  <2> QED
    BY <1>4, <2>1, <2>2 DEF Takes, page
<1>11. CASE Waiting(d)
  BY <1>11 DEF InHand
<1>12. ASSUME CaughtUp(w, d, b, t, c) PROVE CaughtUp(v, d, b, u, x)
  BY <1>2, <1>3, <1>5, <1>6, <1>10, <1>12, CaughtUpApplied
<1>13. ASSUME Completes(w, d, b, t, 1) PROVE CaughtUp(v, d, b, u, x)
  BY <1>2, <1>3, <1>5, <1>6, <1>10, <1>13, LastApplied
<1>14. ASSUME NEW i \in DOMAIN w, Sees(w, d, b, t, i), i # 1
       PROVE  \E j \in DOMAIN v : Sees(v, d, b, u, j)
  <2>1. PICK j \in DOMAIN v : v[j] = w[i]
    BY <1>6, <1>14 DEF Stays
  <2>2. \A k \in Keys : \A q \in Pages(v, d) : Comes(v, d, u, k, q) => Comes(w, d, t, k, m[q])
    BY <1>2, <1>3, <1>6, <1>10, ComesFewerApplied
  <2> HIDE DEF u
  <2>3. Sees(v, d, b, u, j)
    BY <1>2, <1>6, <1>14, <2>1, <2>2, SeesThins
  <2> QED
    BY <2>3
<1>15. ASSUME Sees(w, d, b, t, 1) PROVE CaughtUp(v, d, b, u, x) \/ \E j \in DOMAIN v : Sees(v, d, b, u, j)
  BY <1>4, <1>9, <1>13, <1>15 DEF Sees
<1>16. CaughtUp(v, d, b, u, x) \/ (\E j \in DOMAIN v : Sees(v, d, b, u, j)) \/ Waiting(d)
  BY <1>8, <1>12, <1>14, <1>15
<1> QED
  BY <1>7, <1>11, <1>16 DEF InHand

\* A page is applied.
LEMMA ApplyInHand ==
  ASSUME NothingForgotten, NEW a \in Actors, NEW d \in Domains, Apply(a, d)
  PROVE  AllInHand'
<1> DEFINE page == wire[1].page
           g == wire[1].rebuild /\ page.rows # {} /\ page.more
           r == RequestFor(a, d, page.cursor, runs[a].rebuild, g)
           u == Tail(wire)
           l == Len(u) + 1
<1> USE DEF world, queue
<1>1. /\ InSync /\ wire \in Seq(Request) /\ wire # <<>> /\ Line(wire)
      /\ runs \in [Actors -> Run] /\ 1 \in DOMAIN wire /\ Head(wire) = wire[1]
      /\ wire[1].from = a /\ wire[1].domain = d
      /\ page.cursor \in Nat /\ runs[a] \in Run
      /\ runs[a].todo \in Seq(Domains) /\ runs[a].todo # <<>>
      /\ runs[a].pc = "waiting"
  BY ArrivesIs DEF Apply, NothingForgotten, Fits
<1>2. /\ ~page.tooOld
      /\ table' = [table EXCEPT ![d] = Applied(@, page)]
      /\ cursor' = [cursor EXCEPT ![d] = Saved(@, page)]
      /\ rebuilding' = [rebuilding EXCEPT ![d] = g]
      /\ IF IsLast(page)
         THEN Completed(a, d) /\ wire' = u
         ELSE /\ wire' = Append(u, RequestFor(a, d, page.cursor, runs[a].rebuild, rebuilding'[d]))
              /\ UNCHANGED <<runs, status>>
      /\ UNCHANGED <<world, queue, failed, exposed, spent>>
  BY <1>1 DEF Apply
<1>3. /\ table \in [Domains -> [Keys -> Nat]] /\ cursor \in [Domains -> Nat]
      /\ rebuilding \in [Domains -> BOOLEAN] /\ g \in BOOLEAN /\ runs[a].rebuild \in BOOLEAN
  <2>1. wire[1].rebuild \in BOOLEAN /\ page \in Page
    BY <1>1, RequestIs
  <2> QED
    BY <1>1, <2>1 DEF InSync, TypeOK, Page, Run
<1>4. rebuilding'[d] = g
  BY <1>2, <1>3
<1>5. (IsLast(page) /\ wire' = u) \/ wire' = Append(u, r)
  BY <1>2, <1>4
<1>7. ASSUME NEW b \in Actors, NEW e \in Domains, ToBegin(b, e) PROVE ToBegin(b, e)'
  <2>1. CASE runs'[b] = runs[b]
    BY <1>7, <2>1 DEF ToBegin
  <2>2. CASE runs'[b] # runs[b]
    <3>1. b = a /\ runs'[a] = Between(Tail(runs[a].todo))
      BY <1>1, <1>2, <2>2 DEF Completed
    <3>2. PICK i \in DOMAIN runs[a].todo : runs[a].todo[i] = e /\ i > 1
      BY <1>1, <1>7, <3>1 DEF ToBegin
    <3> DEFINE todo == runs[a].todo
    <3>3. todo \in Seq(Domains) /\ todo # <<>> /\ i \in DOMAIN todo /\ todo[i] = e
      BY <1>1, <3>2
    <3> HIDE DEF todo
    <3>4. /\ Tail(todo) \in Seq(Domains) /\ Len(Tail(todo)) = Len(todo) - 1
          /\ \A j \in 1..Len(Tail(todo)) : Tail(todo)[j] = todo[j + 1]
      BY <3>3, HeadTailProperties
    <3>5. /\ Len(todo) \in Nat /\ i \in 1..Len(todo) /\ DOMAIN Tail(todo) = 1..Len(Tail(todo))
      BY <3>3, <3>4, LenProperties
    <3>6. i - 1 \in DOMAIN Tail(todo) /\ (i - 1) + 1 = i
      BY <3>2, <3>4, <3>5
    <3>7. Tail(todo)[i - 1] = e
      BY <3>3, <3>4, <3>5, <3>6
    <3> QED
      BY <3>1, <3>6, <3>7 DEF ToBegin, Between, todo
  <2> QED
    BY <2>1, <2>2
<1> HIDE DEF page, u, g
<1>6. r \in Request /\ r.domain = d /\ r.page.tooOld
  <2> DEFINE again == runs[a].rebuild
             last == page.cursor
  <2>1. again \in BOOLEAN /\ last \in Nat /\ r = RequestFor(a, d, last, again, g)
    BY <1>1, <1>3
  <2> HIDE DEF again, last, r
  <2>2. /\ r \in Request
        /\ r.from = a /\ r.domain = d /\ r.last = last /\ r.page.tooOld
        /\ r.state \in {"sent", "checked"}
        /\ r.state = "sent" <=> Kind[d] = "relation"
        /\ r.rebuild <=> Kind[d] # "conversations" /\ (again \/ last = 0 \/ g)
    BY <1>3, <2>1, RequestForIs
  <2> QED
    BY <2>2
<1> HIDE DEF r
<1>8. u \in Seq(Request) /\ Stays(u, wire, 1) /\ \A e : Remains(u, wire, 1, e)
  BY <1>1, TailIs, TailStays DEF u
<1>9. ASSUME wire' = Append(u, r)
      PROVE  /\ wire' \in Seq(Request) /\ l \in DOMAIN wire' /\ wire'[l] = r
             /\ Stays(wire', wire, 1) /\ \A e : Renews(wire', wire, 1, e, l)
  <2>1. wire' \in Seq(Request) /\ l \in DOMAIN wire' /\ wire'[l] = r
    BY <1>6, <1>8, <1>9, AppendIs
  <2>2. Stays(wire', wire, 1)
    BY <1>6, <1>8, <1>9, AppendStays
  <2>3. \A e : Renews(wire', wire, 1, e, l)
    BY <1>6, <1>8, <1>9, AppendRenews
  <2> QED
    BY <2>1, <2>2, <2>3
<1> HIDE DEF l
<1>10. /\ wire' \in Seq(Request) /\ Stays(wire', wire, 1)
       /\ \A e : \E m : Pops(wire', wire, m, e)
  <2>1. wire' \in Seq(Request) /\ Stays(wire', wire, 1)
    BY <1>5, <1>8, <1>9
  <2>2. \A e : Remains(wire', wire, 1, e) \/ Renews(wire', wire, 1, e, l)
    BY <1>5, <1>8, <1>9
  <2> QED
    BY <2>1, <2>2, Popped
<1> SUFFICES ASSUME exposed = {}, NEW e \in Relations \ failed PROVE InHand(e)'
  BY <1>2 DEF AllInHand
<1>11. InHand(e) /\ e \in Domains
  BY RelationIs DEF NothingForgotten, AllInHand
<1>12. Waiting(e) => Waiting(e)'
  BY <1>2, <1>7, <1>11, StillWaiting
<1>13. PICK m : Pops(wire', wire, m, e)
  BY <1>10
<1>14. CASE e # d
  <2>1. server'[e] = server[e] /\ table'[e] = table[e] /\ cursor'[e] = cursor[e]
    BY <1>2, <1>3, <1>11, <1>14
  <2>2. Thins(wire', wire, m, e)
    BY <1>13 DEF Pops
  <2> QED
    BY <1>1, <1>10, <1>11, <1>12, <1>14, <2>1, <2>2, StillInHand
<1>15. CASE e = d
  <2>1. /\ server'[d] = server[d] /\ table'[d] = Applied(table[d], wire[1].page)
        /\ cursor'[d] = Saved(cursor[d], wire[1].page)
    BY <1>2, <1>3 DEF page
  <2>2. 1 \in Pages(wire, d)
    BY <1>1, <1>2 DEF Pages, page
  <2>3. IsLast(wire[1].page) \/ \E q \in DOMAIN wire' : wire'[q].domain = d /\ wire'[q].page.tooOld
    BY <1>5, <1>6, <1>9 DEF page
  <2>4. Pops(wire', wire, m, d) /\ InHand(d) /\ (Waiting(d) => Waiting(d)')
    BY <1>11, <1>12, <1>13, <1>15
  <2>5. InHand(d)'
    BY <1>1, <1>10, <2>1, <2>2, <2>3, <2>4, AppliedInHand
  <2> QED
    BY <1>15, <2>5
<1> QED
  BY <1>14, <1>15

\* Every flagged type keeps a node, and only messages and conversations are named.
LEMMA QueuedNext ==
  ASSUME NothingForgotten, [Next]_vars
  PROVE  Queued'
<1> USE DEF world, queue
<1>1. /\ Queued /\ chain \in Seq(Notices) /\ flags \in [Notices -> BOOLEAN]
  BY DEF NothingForgotten, InSync, TypeOK
<1>2. ASSUME chain' = chain, gone' = gone, deleted' \subseteq deleted,
             \A n \in Notices : flags'[n] => flags[n]
      PROVE  Queued'
  BY <1>1, <1>2 DEF Queued
<1>3. ASSUME NEW n, n \in Notices, Enqueue(n)
      PROVE  \A q \in Notices : flags'[q] => \E i \in DOMAIN chain' : chain'[i] = q
  <2>1. CASE flags[n]
    BY <1>1, <1>3, <2>1 DEF Enqueue, Queued
  <2>2. CASE ~flags[n]
    <3>1. chain' = Append(chain, n) /\ flags' = [flags EXCEPT ![n] = TRUE]
      BY <1>3, <2>2 DEF Enqueue
    <3>2. /\ \A i \in DOMAIN chain : i \in DOMAIN Append(chain, n) /\ Append(chain, n)[i] = chain[i]
          /\ Len(chain) + 1 \in DOMAIN Append(chain, n) /\ Append(chain, n)[Len(chain) + 1] = n
      BY <1>1, <1>3, AppendProperties, LenProperties
    <3> QED
      BY <1>1, <3>1, <3>2 DEF Queued
  <2> QED
    BY <2>1, <2>2
<1>4. CASE \E a \in Actors : Begin(a)
  BY <1>2, <1>4 DEF Begin
<1>5. CASE EndBackground \/ HandlerDone
  BY <1>2, <1>5 DEF EndBackground, HandlerDone
<1>6. CASE Handle
  BY <1>1, <1>2, <1>6 DEF Handle
<1>7. CASE HandleDeletions
  BY <1>1, <1>2, <1>7 DEF HandleDeletions
<1>8. CASE NextNode
  <2>1. /\ chain # <<>> /\ ~flags[Head(chain)] /\ chain' = Tail(chain)
        /\ UNCHANGED <<gone, flags, deleted>>
    BY <1>8 DEF NextNode
  <2>2. /\ Tail(chain) \in Seq(Notices) /\ Len(Tail(chain)) = Len(chain) - 1
        /\ \A j \in 1..Len(Tail(chain)) : Tail(chain)[j] = chain[j + 1]
        /\ Head(chain) = chain[1]
    BY <1>1, <2>1, HeadTailProperties
  <2>3. ASSUME NEW n \in Notices, flags[n]
        PROVE  \E i \in DOMAIN Tail(chain) : Tail(chain)[i] = n
    <3>1. PICK i \in DOMAIN chain : chain[i] = n
      BY <1>1, <2>3 DEF Queued
    <3>2. i # 1 /\ i \in 1..Len(chain) /\ Len(chain) \in Nat
      BY <1>1, <2>1, <2>2, <2>3, <3>1, LenProperties
    <3>3. DOMAIN Tail(chain) = 1..Len(Tail(chain))
      BY <2>2, LenProperties
    <3>4. i - 1 \in DOMAIN Tail(chain) /\ (i - 1) + 1 = i
      BY <2>2, <3>2, <3>3
    <3> QED
      BY <2>2, <3>1, <3>3, <3>4
  <2> QED
    BY <1>1, <2>1, <2>3 DEF Queued
<1>9. CASE Serve
  BY <1>2, <1>9 DEF Serve, CheckHorizon, ReadPage
<1>10. CASE Answered
  BY <1>2, <1>10 DEF Answered, Reset, Apply, Reject
<1>11. CASE \E d \in Domains : Deliver(d)
  <2>1. PICK d \in Domains : Deliver(d)
    BY <1>11
  <2>2. Enqueue(d) /\ gone' = gone /\ deleted' = deleted /\ d \in Notices
    BY <2>1 DEF Deliver, Notices
  <2> QED
    BY <1>1, <1>3, <2>2 DEF Queued
<1>12. CASE \E d \in Domains, k \in Keys : DeliverDeletion(d, k)
  <2>1. PICK d \in Domains, k \in Keys : DeliverDeletion(d, k)
    BY <1>12
  <2>2. /\ Enqueue(DeletionOf(d)) /\ <<d, k>> \in gone /\ gone' = gone \ {<<d, k>>}
        /\ deleted' = deleted \cup {<<d, k>>} /\ DeletionOf(d) \in Notices
    BY <2>1 DEF DeliverDeletion, Notices, Deletions, DeletionOf
  <2>3. \A x \in gone' \cup deleted' : x \in gone \cup deleted
    BY <2>2
  <2> QED
    BY <1>1, <1>3, <2>2, <2>3 DEF Queued
<1>13. CASE \E d \in Domains, k \in Keys : Put(d, k) \/ Remove(d, k)
  BY <1>2, <1>13 DEF Put, Remove, ServerOnly
<1>14. CASE \E d \in Domains, k \in Keys : Delete(d, k)
  <2>1. PICK d \in Domains, k \in Keys : Delete(d, k)
    BY <1>14
  <2>2. /\ Kind[d] # "relation" /\ gone' = gone \cup {<<d, k>>}
        /\ UNCHANGED <<chain, flags, deleted>>
    BY <2>1 DEF Delete, ServerOnly
  <2>3. \A x \in gone' : x \in gone \/ x[1] = d
    BY <2>2
  <2> QED
    BY <1>1, <2>2, <2>3 DEF Queued
<1>15. CASE \E m, c \in Domains, k \in Keys, chat \in Chats : Receive(m, c, k, chat)
  BY <1>2, <1>15 DEF Receive, ServerOnly
<1>16. CASE \E d \in Domains : Purge(d)
  BY <1>2, <1>16 DEF Purge, ServerOnly
<1>17. CASE \E a \in Actors, d \in Domains : Fail(a, d)
  BY <1>2, <1>17 DEF Fail
<1>18. CASE Restart \/ \E a \in Actors, d \in Domains : Die(a, d)
  BY <1>18, FreshInHand DEF Restart, Die
<1>19. CASE UNCHANGED vars
  BY <1>2, <1>19 DEF vars
<1> QED
  BY <1>4, <1>5, <1>6, <1>7, <1>8, <1>9, <1>10, <1>11, <1>12, <1>13, <1>14, <1>15, <1>16,
     <1>17, <1>18, <1>19
     DEF Next, Continue, Notified, Write, Fault

\* Every step keeps it: a lemma per action.
LEMMA ForgottenNext == NothingForgotten /\ [Next]_vars => NothingForgotten'
<1> SUFFICES ASSUME NothingForgotten, [Next]_vars PROVE NothingForgotten'
  OBVIOUS
<1>1. InSync'
  BY InSyncNext DEF NothingForgotten
<1>2. Queued'
  BY QueuedNext
<1>3. AllInHand'
  <2>1. CASE \E a \in Actors : Begin(a)
    BY <2>1, BeginInHand
  <2>2. CASE EndBackground \/ HandlerDone \/ NextNode
    BY <2>2, EndInHand
  <2>3. CASE Handle
    BY <2>3, HandleInHand
  <2>4. CASE HandleDeletions
    BY <2>4, HandleDeletionsInHand
  <2>5. CASE Serve
    BY <2>5, CheckInHand, ReadInHand DEF Serve
  <2>6. CASE Answered
    BY <2>6, ResetInHand, ApplyInHand, RejectInHand DEF Answered
  <2>7. CASE Notified
    BY <2>7, NotifiedInHand
  <2>8. CASE \E d \in Domains, k \in Keys : Put(d, k) \/ Remove(d, k) \/ Delete(d, k)
    BY <2>8, WriteInHand
  <2>9. CASE \E m, c \in Domains, k \in Keys, chat \in Chats : Receive(m, c, k, chat)
    BY <2>9, ReceiveInHand
  <2>10. CASE \E d \in Domains : Purge(d)
    BY <2>10, PurgeInHand
  <2>11. CASE \E a \in Actors, d \in Domains : Fail(a, d)
    BY <2>11, FailInHand
  <2>12. CASE Restart \/ \E a \in Actors, d \in Domains : Die(a, d)
    BY <2>12, FreshInHand DEF Restart, Die
  <2>13. CASE UNCHANGED vars
    <3>1. \A d \in Relations : Waiting(d) => Waiting(d)'
      BY <2>13, StillWaiting DEF vars, world, queue, ToBegin
    <3> QED
      BY <2>13, <3>1, QuietInHand DEF vars, world, queue
  <2> QED
    BY <2>1, <2>2, <2>3, <2>4, <2>5, <2>6, <2>7, <2>8, <2>9, <2>10, <2>11, <2>12, <2>13
       DEF Next, Continue, Write, Fault
<1> QED
  BY <1>1, <1>2, <1>3 DEF NothingForgotten

\* What a relation's copy lacks is announced, queued, asked for or on its way, or the
\* copy lacks nothing, in every reachable state outside of the exposed windows.
THEOREM NeverForgotten == Spec => []NothingForgotten
BY ForgottenInit, ForgottenNext, PTL DEF Spec

\* QuiescentSame holds: an empty queue and idle sync loops mean that the copy of every
\* relation whose last sync did not fail is the server's table.
THEOREM WakeUpsNeverLost == Spec => []QuiescentSame
<1>1. NothingForgotten => QuiescentSame
  <2> SUFFICES ASSUME NothingForgotten, exposed = {}, NEW d \in Relations \ failed, Quiet(d)
               PROVE  Same(d)
    BY DEF QuiescentSame
  <2> DEFINE b == server[d]
             t == table[d]
             c == cursor[d]
  <2>1. d \in Domains /\ d \in Notices /\ InHand(d) /\ InSync /\ Queued
    BY RelationIs DEF NothingForgotten, AllInHand, Notices
  <2>2. NoReset /\ NoPurge
    BY DEF NoReset, NoPurge
  <2>3. b \in Box /\ t \in [Keys -> Nat] /\ c \in Nat /\ wire \in Seq(Request) /\ InStep(d)
    BY <2>1 DEF InSync, TypeOK
  <2>4. GhostsHeard(wire, d, b, t, c, rebuilding[d])
    BY <2>2, <2>3 DEF InStep
  <2>5. \A a \in Actors : runs[a].pc \notin {"between", "waiting"}
    BY DEF Quiet, Actors
  <2>6. ~Waiting(d)
    BY <2>1, <2>5 DEF Quiet, Waiting, ToBegin, Queued
  <2>7. \A i \in DOMAIN wire : FALSE
    BY <2>1, <2>3, <2>5, RequestIs DEF InSync, Wired, Fits
  <2>8. CaughtUp(wire, d, b, t, c)
    BY <2>1, <2>6, <2>7 DEF InHand
  <2> SUFFICES ASSUME NEW k \in Keys
               PROVE  t[k] = IF Live(d, k) THEN b.rows[k].seq ELSE 0
    BY DEF Same
  <2>9. b.rows[k].seq <= c /\ ~Lacks(b, t, c, k) /\ (t[k] # 0 => ~Gone(b, k))
    BY <2>8 DEF CaughtUp, Comes
  <2>10. CASE Live(d, k)
    BY <2>9, <2>10 DEF Live, Lacks
  <2>11. CASE ~Live(d, k)
    <3> SUFFICES ASSUME t[k] # 0 PROVE FALSE
      BY <2>11
    <3>1. Heard(b, k, c) /\ ~Gone(b, k)
      BY <2>4, <2>9, <2>11 DEF GhostsHeard, Live
    <3>2. c < b.rows[k].seq /\ b.rows[k].seq \in Nat
      BY <2>3, <3>1, RowIs DEF Heard, Gone
    <3> QED
      BY <2>3, <2>9, <3>2
  <2> QED
    BY <2>10, <2>11
<1> QED
  BY <1>1, NeverForgotten, PTL
=============================================================================
