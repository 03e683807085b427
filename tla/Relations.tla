----------------------------- MODULE Relations -----------------------------
(***************************************************************************)
(* Friend requests and blocks between two users (add_friend, accept_friend,*)
(* reject_friend, delete_friend, block_user and unblock_user in            *)
(* server/internal/service/contact.go and blocklist.go).                   *)
(*                                                                         *)
(* Each user's row about the other is in his own shard: a request that     *)
(* concerns both is two transactions, the caller's own first, and nothing  *)
(* orders it with another request.  The block check before it is two more  *)
(* reads.  A pair of users is independent of every other pair.             *)
(***************************************************************************)
EXTENDS Naturals, FiniteSets

CONSTANTS
  Pair,          \* the two users
  Handlers,      \* goroutines that serve their connections
  MaxCalls,      \* bound: requests
  MaxLosses      \* bound: database errors and restarts

ASSUME RelationsAssumption ==
  /\ IsFiniteSet(Pair) /\ Cardinality(Pair) = 2
  /\ {MaxCalls, MaxLosses} \subseteq Nat

VARIABLES
  contact,   \* each user's row about the other; a tombstone is "none"
  blocks,    \* who has the other on his blocklist
  call,      \* what each goroutine executes
  gone,      \* history: who took his own row away
  missed,    \* history: whose row missed a write since it was last changed
  stale,     \* history: a window was entered (see Overtaken and BlockList)
  calls, losses

relations == <<contact, blocks, call, gone, missed, stale, calls, losses>>

Statuses == {"none", "outgoing", "incoming", "friend"}

Calls == {"add", "accept", "reject", "delete", "block", "unblock"}

\* The reads and transactions of a request, in their order.
Stages == {"checkMine", "checkTheirs", "list", "mine", "theirs"}

NoCall == [op |-> "none", by |-> CHOOSE u \in Pair : TRUE, at |-> "idle"]

Peer(u) == CHOOSE v \in Pair : v # u

InFlight(u, op, stages) ==
  \E h \in Handlers : call[h].op = op /\ call[h].by = u /\ call[h].at \in stages

GoTo(h, stage) == call' = [call EXCEPT ![h].at = stage]

End(h) == call' = [call EXCEPT ![h] = NoCall]

-----------------------------------------------------------------------------
\* What the pair can be when nothing is under way.
PairInit ==
  /\ \E u \in Pair :
       contact \in {[v \in Pair |-> "none"], [v \in Pair |-> "friend"],
                    [v \in Pair |-> IF v = u THEN "outgoing" ELSE "incoming"]}
  /\ blocks = {} /\ gone = {} /\ missed = {} /\ stale = FALSE
  /\ call = [h \in Handlers |-> NoCall]
  /\ calls = 0 /\ losses = 0

First(op) ==
  CASE op \in {"add", "accept"}    -> "checkMine"
    [] op \in {"reject", "delete"} -> "mine"
    [] op \in {"block", "unblock"} -> "list"

\* Which of the idle goroutines it is makes no difference.
Receive(u, op) ==
  LET h == CHOOSE g \in Handlers : call[g] = NoCall IN
  /\ \E g \in Handlers : call[g] = NoCall /\ calls < MaxCalls
  /\ calls' = calls + 1
  /\ call' = [call EXCEPT ![h] = [op |-> op, by |-> u, at |-> First(op)]]
  /\ UNCHANGED <<contact, blocks, gone, missed, stale, losses>>

\* isEitherWayBlocked: the caller's list, then the other's.
CheckBlocks(h) ==
  LET mine == call[h].at = "checkMine"
      of   == IF mine THEN call[h].by ELSE Peer(call[h].by) IN
  /\ call[h].at \in {"checkMine", "checkTheirs"}
  /\ IF of \in blocks THEN End(h) ELSE GoTo(h, IF mine THEN "checkTheirs" ELSE "mine")
  /\ UNCHANGED <<contact, blocks, gone, missed, stale, calls, losses>>

\* BlocklistStore.Upsert and Delete.  The block comes after the check of a
\* request that has not yet written.
BlockList(h) ==
  LET u == call[h].by IN
  /\ call[h].at = "list"
  /\ IF call[h].op = "block"
     THEN /\ blocks' = blocks \cup {u}
          /\ stale' = (stale \/ InFlight(Peer(u), "add", {"mine", "theirs"}))
          /\ GoTo(h, "mine")
     ELSE blocks' = blocks \ {u} /\ End(h) /\ UNCHANGED stale
  /\ UNCHANGED <<contact, gone, missed, calls, losses>>

-----------------------------------------------------------------------------
(* The transactions on contacts *)

\* resolveRequest: only a row in the state from is changed.
Resolved(u, from, to) == [contact EXCEPT ![u] = IF @ = from THEN to ELSE @]

WrittenMine(op, u) ==
  CASE op = "add"               -> [contact EXCEPT ![u] = "outgoing"]
    [] op = "accept"            -> Resolved(u, "incoming", "friend")
    [] op \in {"reject", "block"} -> Resolved(u, "incoming", "none")
    [] op = "delete"            -> [contact EXCEPT ![u] = "none"]

\* The caller's own row.  Without a request to resolve the call ends.
WriteMine(h) ==
  LET op == call[h].op
      u  == call[h].by IN
  /\ call[h].at = "mine"
  /\ contact' = WrittenMine(op, u)
  /\ IF contact'[u] # contact[u]
     THEN /\ gone' = IF contact'[u] = "none" THEN gone \cup {u} ELSE gone \ {u}
          /\ missed' = IF contact'[u] = "none" THEN missed \ {u} ELSE missed
     ELSE UNCHANGED <<gone, missed>>
  /\ IF op = "add" \/ (op \in {"accept", "reject"} /\ contact[u] = "incoming")
     THEN GoTo(h, "theirs") ELSE End(h)
  /\ UNCHANGED <<blocks, stale, calls, losses>>

\* Mutant: the other's row only if he has none.
WrittenTheirsIfNone(op, v) ==
  CASE op = "add"    -> Resolved(v, "none", "incoming")
    [] op = "accept" -> Resolved(v, "outgoing", "friend")
    [] op = "reject" -> Resolved(v, "outgoing", "none")

WrittenTheirs(op, v) ==
  CASE op = "add"    -> [contact EXCEPT ![v] = "incoming"]
    [] op = "accept" -> Resolved(v, "outgoing", "friend")
    [] op = "reject" -> Resolved(v, "outgoing", "none")

\* A rejection withdraws a request that was made after the rejected one.
Overtaken(op, u) ==
  op = "reject" /\ contact[Peer(u)] = "outgoing"
  /\ (contact[u] # "none" \/ InFlight(Peer(u), "add", {"theirs"}))

\* The other's row; an error is ignored.
WriteTheirs(h) ==
  LET op == call[h].op
      u  == call[h].by
      v  == Peer(u) IN
  /\ call[h].at = "theirs"
  /\ End(h)
  /\ \/ /\ contact' = WrittenTheirs(op, v)
        /\ IF contact'[v] # contact[v]
           THEN /\ gone' = gone \ {v}
                /\ missed' = IF op = "add" THEN missed \ {v} ELSE missed
           ELSE UNCHANGED <<gone, missed>>
        /\ stale' = (stale \/ Overtaken(op, u))
        /\ UNCHANGED losses
     \/ /\ losses < MaxLosses /\ losses' = losses + 1
        /\ missed' = missed \cup {v}
        /\ UNCHANGED <<contact, gone, stale>>
  /\ UNCHANGED <<blocks, calls>>

\* An error of a read or of the caller's own transaction ends the call; the one
\* after a block is ignored.
Fails(h) ==
  /\ call[h].at \notin {"idle", "theirs"}
  /\ losses < MaxLosses /\ losses' = losses + 1
  /\ End(h)
  /\ missed' = IF call[h].op = "block" /\ call[h].at = "mine"
               THEN missed \cup {call[h].by} ELSE missed
  /\ UNCHANGED <<contact, blocks, gone, stale, calls>>

\* The server process ends, and with it what the calls still had to write.
Crash ==
  /\ losses < MaxLosses /\ losses' = losses + 1
  /\ missed' = missed
       \cup {Peer(call[h].by) : h \in {g \in Handlers : call[g].at = "theirs"}}
       \cup {call[h].by : h \in {g \in Handlers : call[g].op = "block" /\ call[g].at = "mine"}}
  /\ call' = [h \in Handlers |-> NoCall]
  /\ UNCHANGED <<contact, blocks, gone, stale, calls>>

PairNext ==
  \/ \E u \in Pair, op \in Calls : Receive(u, op)
  \/ \E h \in Handlers :
       \/ CheckBlocks(h) \/ BlockList(h) \/ WriteMine(h) \/ WriteTheirs(h)
       \/ Fails(h)
  \/ Crash

PairSpec == PairInit /\ [][PairNext]_relations

-----------------------------------------------------------------------------
(* Properties *)

AtRest == \A h \in Handlers : call[h] = NoCall

\* A user whose row waits is waited for: his peer has the request to answer, or
\* took it away himself.
Answerable(u) ==
  contact[u] = "outgoing" => contact[Peer(u)] = "incoming" \/ Peer(u) \in gone

\* A friend has a friend, a request to answer, or a peer who took his row away.
Mutual(u) ==
  contact[u] = "friend" =>
    contact[Peer(u)] \in {"friend", "incoming"} \/ Peer(u) \in gone

\* Nobody has a request to answer of someone he blocks.
Unasked(u) == u \in blocks => contact[u] # "incoming"

\* When every call has ended the rows of the two users agree, however requests,
\* answers and blocks of both, from several devices, cross, and a write that was
\* lost is repaired by the next one to that row.  Aside are a rejection that
\* withdraws a later request, and a block that falls between the check and the
\* writes of a request.
SidesAgree ==
  AtRest /\ ~stale =>
    \A u \in Pair : /\ missed = {} => Answerable(u) /\ Mutual(u)
                    /\ u \notin missed => Unasked(u)
=============================================================================
