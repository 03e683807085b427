----------------------------- MODULE MCSession -----------------------------
(***************************************************************************)
(* Instances of Session and of DisplayCache for TLC.  The two meet only    *)
(* where a session starts and ends, which each of them models, so a        *)
(* behaviour here is one of Session or one of DisplayCache.                *)
(***************************************************************************)
EXTENDS Session, DisplayCache

CONSTANT MaxFlows  \* flows that are under way at once

MCSlots == 1..MaxFlows

MCReads == {<<1, 2>>}

\* One entry, evicted whenever two ids are shown; a queue that two ids overflow,
\* and one that holds them both, for two loads of one request each.  A cache that
\* holds both, filled by one load of two requests.
MCSizes ==
  {[cache |-> 1, queue |-> q, batch |-> 1, request |-> 1] : q \in {1, 2}}
    \cup {[cache |-> 2, queue |-> 2, batch |-> 2, request |-> 1]}

SessionOnly(A) == A /\ CacheInit /\ UNCHANGED cacheVars

CacheOnly == CacheNext /\ Init /\ UNCHANGED vars

MCInit == Init /\ CacheInit /\ storage = mode

MCSpec ==
  /\ MCInit
  /\ [][SessionOnly(Next) \/ CacheOnly]_<<vars, cacheVars>>
  /\ WF_<<vars, cacheVars>>(SessionOnly(Progress))
=============================================================================
