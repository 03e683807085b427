-------------------------- MODULE RelationsProofs --------------------------
(***************************************************************************)
(* SidesAgree of Relations for any number of goroutines, requests, errors  *)
(* and restarts.                                                           *)
(*                                                                         *)
(* SidesAgree speaks of a pair at rest.  Agreeing says what holds between  *)
(* the two transactions of a request: a row that does not fit the other    *)
(* one is about to be made to fit by a request that has written its own    *)
(* side (Due), unless a write was lost.  A request that is due when the    *)
(* rows change under it still leaves them fitting, but for the windows in  *)
(* stale; Withdrawn and Checked say why.                                   *)
(***************************************************************************)
EXTENDS Relations, TLAPS, FiniteSetTheorems

StagesOf(op) ==
  CASE op \in {"add", "accept"} -> {"checkMine", "checkTheirs", "mine", "theirs"}
    [] op = "reject"  -> {"mine", "theirs"}
    [] op = "delete"  -> {"mine"}
    [] op = "block"   -> {"list", "mine"}
    [] op = "unblock" -> {"list"}

Call == [op : Calls, by : Pair, at : Stages]

Typed ==
  /\ contact \in [Pair -> Statuses]
  /\ blocks \subseteq Pair /\ gone \subseteq Pair /\ missed \subseteq Pair
  /\ stale \in BOOLEAN
  /\ call \in [Handlers -> {c \in Call : c.at \in StagesOf(c.op)} \cup {NoCall}]

\* A request of u has written his own row and not yet the other's.
Due(u, op) == InFlight(u, op, {"theirs"})

OnTheWay(u) == Due(u, "add") \/ Due(Peer(u), "add")

GoneIsNone == \A u \in gone : contact[u] = "none"

\* A request that has passed the check of the blocks has nothing to fear of them.
Checked == \A u \in blocks : ~InFlight(Peer(u), "add", {"mine", "theirs"})

UnaskedOrDue ==
  \A u \in blocks \ missed : contact[u] = "incoming" => InFlight(u, "block", {"mine"})

\* A row that another user's rejection took away has no request left to answer.
Withdrawn ==
  \A u \in Pair \ gone : contact[u] = "none" => ~Due(u, "add") /\ contact[Peer(u)] # "incoming"

AnswerableOrDue(u) ==
  contact[u] = "outgoing" =>
    \/ contact[Peer(u)] = "incoming" \/ Peer(u) \in gone \/ OnTheWay(u)
    \/ contact[Peer(u)] = "friend" /\ Due(Peer(u), "accept")

MutualOrDue(u) ==
  contact[u] = "friend" =>
    \/ contact[Peer(u)] \in {"incoming", "friend"} \/ Peer(u) \in gone \/ OnTheWay(u)
    \/ contact[Peer(u)] = "outgoing" /\ Due(u, "accept")

Fitting == \A u \in Pair : AnswerableOrDue(u) /\ MutualOrDue(u)

Agreeing ==
  /\ Typed /\ GoneIsNone
  /\ ~stale => Checked /\ UnaskedOrDue /\ Withdrawn
  /\ ~stale /\ missed = {} => Fitting

-----------------------------------------------------------------------------
(* The two users *)

\* There is exactly one other user, and he is the other's other.
LEMMA PeerFacts ==
  \A u \in Pair : /\ Peer(u) \in Pair /\ Peer(u) # u /\ Peer(Peer(u)) = u
                  /\ \A v \in Pair : v = u \/ v = Peer(u)
<1> SUFFICES ASSUME NEW u \in Pair
             PROVE  /\ Peer(u) \in Pair /\ Peer(u) # u /\ Peer(Peer(u)) = u
                    /\ \A v \in Pair : v = u \/ v = Peer(u)
  OBVIOUS
<1>1. IsFiniteSet(Pair \ {u}) /\ Cardinality(Pair \ {u}) = 1
  BY RelationsAssumption, FS_RemoveElement DEF RelationsAssumption
<1>2. PICK v : Pair \ {u} = {v}
  BY <1>1, FS_Singleton
<1>3. v \in Pair /\ v # u /\ \A w \in Pair : w = u \/ w = v
  BY <1>2
<1>4. Peer(u) = v
  BY <1>3 DEF Peer
<1>5. Peer(v) = u
  BY <1>3 DEF Peer
<1>6. QED
  BY <1>3, <1>4, <1>5

-----------------------------------------------------------------------------
(* One goroutine moves on *)

\* What a call is: a record of the operation, its user and its stage.
LEMMA CallFacts ==
  ASSUME Typed, NEW h \in Handlers, call[h] # NoCall
  PROVE  /\ call[h] \in Call /\ call[h].at \in StagesOf(call[h].op)
         /\ call[h].by \in Pair
BY DEF Typed, Call

LEMMA IdleIsNoCall ==
  ASSUME Typed, NEW h \in Handlers, call[h].at # "idle"
  PROVE  call[h] # NoCall
BY DEF NoCall

\* A call that goes to another stage of its operation stays well formed, and
\* nothing else is under way or not because of it.
LEMMA GoToFacts ==
  ASSUME Typed, NEW h \in Handlers, call[h] # NoCall,
         NEW stage \in StagesOf(call[h].op), GoTo(h, stage)
  PROVE  /\ call' \in [Handlers -> {c \in Call : c.at \in StagesOf(c.op)} \cup {NoCall}]
         /\ \A u \in Pair, op \in Calls, S \in SUBSET Stages :
              InFlight(u, op, S)' <=>
                \/ u = call[h].by /\ op = call[h].op /\ stage \in S
                \/ \E g \in Handlers \ {h} : call[g].op = op /\ call[g].by = u /\ call[g].at \in S
<1> DEFINE next == [call[h] EXCEPT !.at = stage]
<1>1. call[h] \in Call /\ call[h].at \in StagesOf(call[h].op)
  BY CallFacts
<1>2. stage \in Stages
  BY <1>1 DEF StagesOf, Stages, Call, Calls
<1>3. next \in Call /\ next.op = call[h].op /\ next.by = call[h].by /\ next.at = stage
  BY <1>1, <1>2 DEF Call
<1>4. call' = [call EXCEPT ![h] = next]
  BY DEF GoTo
<1>5. /\ call'[h] = next
      /\ \A g \in Handlers \ {h} : call'[g] = call[g]
  BY <1>4 DEF Typed
<1>6. call' \in [Handlers -> {c \in Call : c.at \in StagesOf(c.op)} \cup {NoCall}]
  BY <1>3, <1>4 DEF Typed
<1>7. QED
  BY <1>3, <1>5, <1>6, ZenonT(60) DEF InFlight

LEMMA EndFacts ==
  ASSUME Typed, NEW h \in Handlers, End(h)
  PROVE  /\ call' \in [Handlers -> {c \in Call : c.at \in StagesOf(c.op)} \cup {NoCall}]
         /\ \A u \in Pair, op \in Calls, S \in SUBSET Stages :
              InFlight(u, op, S)' <=>
                \E g \in Handlers \ {h} : call[g].op = op /\ call[g].by = u /\ call[g].at \in S
<1>1. /\ call'[h] = NoCall
      /\ \A g \in Handlers \ {h} : call'[g] = call[g]
  BY DEF Typed, End
<1>2. call' \in [Handlers -> {c \in Call : c.at \in StagesOf(c.op)} \cup {NoCall}]
  BY DEF Typed, End
<1>3. \A S \in SUBSET Stages : NoCall.at \notin S
  BY DEF NoCall, Stages
<1>4. QED
  BY <1>1, <1>2, <1>3 DEF InFlight

-----------------------------------------------------------------------------
(* The steps that leave the rows alone *)

Rows == <<contact, blocks, gone, missed, stale>>

\* The requests that Agreeing speaks of are under way as before.
SameWork(u) ==
  /\ Due(u, "add")' <=> Due(u, "add")
  /\ Due(u, "accept")' <=> Due(u, "accept")
  /\ InFlight(u, "add", {"mine", "theirs"})' <=> InFlight(u, "add", {"mine", "theirs"})
  /\ InFlight(u, "block", {"mine"})' <=> InFlight(u, "block", {"mine"})

LEMMA SameWorkKeeps ==
  ASSUME Agreeing, UNCHANGED Rows, \A u \in Pair : SameWork(u),
         call' \in [Handlers -> {c \in Call : c.at \in StagesOf(c.op)} \cup {NoCall}]
  PROVE  Agreeing'
<1>1. Typed' /\ GoneIsNone'
  BY DEF Agreeing, Typed, GoneIsNone, Rows
<1>2. ASSUME ~stale PROVE Checked' /\ UnaskedOrDue' /\ Withdrawn'
  BY <1>2, PeerFacts DEF Agreeing, Typed, Checked, UnaskedOrDue, Withdrawn, Rows, SameWork
<1>3. ASSUME ~stale, missed = {} PROVE Fitting'
  <2>1. \A u \in Pair : OnTheWay(u)' <=> OnTheWay(u)
    BY PeerFacts DEF OnTheWay, SameWork
  <2>2. QED
    BY <1>3, <2>1, PeerFacts
       DEF Agreeing, Fitting, AnswerableOrDue, MutualOrDue, Rows, SameWork
<1>4. QED
  BY <1>1, <1>2, <1>3 DEF Agreeing, Rows

\* A call that ends before its first transaction is missed by nobody.
LEMMA EarlyEndKeeps ==
  ASSUME Typed, NEW h \in Handlers, End(h),
         ~(call[h].op \in {"add", "accept"} /\ call[h].at \in {"mine", "theirs"}),
         ~(call[h].op = "block" /\ call[h].at = "mine")
  PROVE  \A u \in Pair : SameWork(u)
<1>1. \A u \in Pair, op \in Calls, S \in SUBSET Stages :
        InFlight(u, op, S) <=>
          \/ u = call[h].by /\ op = call[h].op /\ call[h].at \in S
          \/ \E g \in Handlers \ {h} : call[g].op = op /\ call[g].by = u /\ call[g].at \in S
  BY DEF InFlight
<1>2. QED
  BY <1>1, EndFacts DEF SameWork, Due, Calls, Stages

LEMMA ReceiveKeeps ==
  ASSUME Agreeing, NEW u \in Pair, NEW op \in Calls, Receive(u, op)
  PROVE  Agreeing'
<1> DEFINE h == CHOOSE g \in Handlers : call[g] = NoCall
           new == [op |-> op, by |-> u, at |-> First(op)]
<1>1. h \in Handlers /\ call[h] = NoCall
  BY DEF Receive
<1>2. call' = [call EXCEPT ![h] = new]
  BY DEF Receive
<1> HIDE DEF h
<1>3. First(op) \in StagesOf(op) /\ First(op) \in Stages /\ First(op) # "theirs"
  BY DEF First, StagesOf, Calls, Stages
<1>4. First(op) = "mine" => op \in {"reject", "delete"}
  BY DEF First, Calls
<1>5. new \in Call /\ new.op = op /\ new.by = u /\ new.at = First(op)
  BY <1>3 DEF Call
<1>6. /\ call'[h] = new /\ h \in Handlers
      /\ \A g \in Handlers \ {h} : call'[g] = call[g]
  BY <1>1, <1>2 DEF Agreeing, Typed
<1>7. call' \in [Handlers -> {c \in Call : c.at \in StagesOf(c.op)} \cup {NoCall}]
  BY <1>2, <1>3, <1>5 DEF Agreeing, Typed
<1>8. call[h].op = "none"
  BY <1>1 DEF NoCall
<1>9. \A v \in Pair : SameWork(v)
  BY <1>3, <1>4, <1>5, <1>6, <1>8 DEF SameWork, Due, InFlight
<1>10. UNCHANGED Rows
  BY DEF Receive, Rows
<1>11. QED
  BY <1>7, <1>9, <1>10, SameWorkKeeps

LEMMA CheckBlocksKeeps ==
  ASSUME Agreeing, NEW h \in Handlers, CheckBlocks(h)
  PROVE  Agreeing'
<1> DEFINE mine == call[h].at = "checkMine"
           of == IF mine THEN call[h].by ELSE Peer(call[h].by)
           next == IF mine THEN "checkTheirs" ELSE "mine"
<1>1. Typed /\ call[h].at \in {"checkMine", "checkTheirs"} /\ UNCHANGED Rows
  BY DEF CheckBlocks, Agreeing, Rows
<1>2. /\ call[h] # NoCall /\ call[h] \in Call /\ call[h].at \in StagesOf(call[h].op)
      /\ call[h].by \in Pair
  BY <1>1, CallFacts, IdleIsNoCall
<1>3. call[h].op \in {"add", "accept"}
  BY <1>1, <1>2 DEF StagesOf, Call, Calls
<1>4. CASE of \in blocks
  <2>1. End(h)
    BY <1>4 DEF CheckBlocks
  <2>2. QED
    BY <1>1, <2>1, EndFacts, EarlyEndKeeps, SameWorkKeeps
<1>5. CASE of \notin blocks
  <2>1. GoTo(h, next)
    BY <1>5 DEF CheckBlocks
  <2>2. next \in StagesOf(call[h].op)
    BY <1>3 DEF StagesOf
  <2>3. /\ call' \in [Handlers -> {c \in Call : c.at \in StagesOf(c.op)} \cup {NoCall}]
        /\ \A u \in Pair, op \in Calls, S \in SUBSET Stages :
             InFlight(u, op, S)' <=>
               \/ u = call[h].by /\ op = call[h].op /\ next \in S
               \/ \E g \in Handlers \ {h} : call[g].op = op /\ call[g].by = u /\ call[g].at \in S
    BY <1>1, <1>2, <2>1, <2>2, GoToFacts
  <2>4. \A u \in Pair, op \in Calls, S \in SUBSET {"mine", "theirs"} :
          InFlight(u, op, S) <=>
            \E g \in Handlers \ {h} : call[g].op = op /\ call[g].by = u /\ call[g].at \in S
    BY <1>1 DEF InFlight
  <2>5. CASE mine
    <3>1. \A u \in Pair : SameWork(u)
      BY <2>3, <2>4, <2>5 DEF SameWork, Due, Calls, Stages
    <3>2. QED
      BY <1>1, <2>3, <3>1, SameWorkKeeps
  \* The other has not blocked the caller, who goes on to write.
  <2>6. CASE ~mine
    <3>1. Peer(call[h].by) \notin blocks
      BY <1>5, <2>6
    <3>2. \A u \in Pair : /\ Due(u, "add")' <=> Due(u, "add")
                          /\ Due(u, "accept")' <=> Due(u, "accept")
                          /\ InFlight(u, "block", {"mine"})' <=> InFlight(u, "block", {"mine"})
      BY <1>3, <2>3, <2>4, <2>6 DEF Due, Calls, Stages
    <3>3. \A u \in blocks : InFlight(Peer(u), "add", {"mine", "theirs"})'
                             => InFlight(Peer(u), "add", {"mine", "theirs"})
      <4> SUFFICES ASSUME NEW u \in blocks, InFlight(Peer(u), "add", {"mine", "theirs"})'
                   PROVE  InFlight(Peer(u), "add", {"mine", "theirs"})
        OBVIOUS
      <4>1. u \in Pair /\ Peer(u) \in Pair /\ Peer(Peer(u)) = u
        BY <1>1, PeerFacts DEF Typed
      <4>2. Peer(u) # call[h].by
        BY <3>1, <4>1
      <4>3. QED
        BY <2>3, <2>4, <4>1, <4>2 DEF Calls, Stages
    <3>4. Typed' /\ GoneIsNone'
      BY <1>1, <2>3 DEF Agreeing, Typed, GoneIsNone, Rows
    <3>5. ~stale => Checked' /\ UnaskedOrDue' /\ Withdrawn'
      BY <1>1, <3>2, <3>3, PeerFacts
         DEF Agreeing, Typed, Checked, UnaskedOrDue, Withdrawn, Rows
    <3>6. ~stale /\ missed = {} => Fitting'
      BY <1>1, <3>2, PeerFacts
         DEF Agreeing, Fitting, AnswerableOrDue, MutualOrDue, OnTheWay, Rows
    <3>7. QED
      BY <1>1, <3>4, <3>5, <3>6 DEF Agreeing, Rows
  <2>7. QED
    BY <2>5, <2>6
<1>6. QED
  BY <1>4, <1>5

\* An error before or in the call's first transaction; a block that is not
\* followed by its second transaction leaves a row that missed a write.
LEMMA FailsKeeps ==
  ASSUME Agreeing, NEW h \in Handlers, Fails(h)
  PROVE  Agreeing'
<1>1. /\ Typed /\ call[h].at \notin {"idle", "theirs"} /\ End(h)
      /\ UNCHANGED <<contact, blocks, gone, stale>>
  BY DEF Fails, Agreeing
<1>2. /\ call[h] # NoCall /\ call[h] \in Call /\ call[h].at \in StagesOf(call[h].op)
      /\ call[h].by \in Pair
  BY <1>1, CallFacts, IdleIsNoCall
<1>3. /\ call' \in [Handlers -> {c \in Call : c.at \in StagesOf(c.op)} \cup {NoCall}]
      /\ \A u \in Pair, op \in Calls, S \in SUBSET Stages :
           InFlight(u, op, S)' <=>
             \E g \in Handlers \ {h} : call[g].op = op /\ call[g].by = u /\ call[g].at \in S
  BY <1>1, EndFacts
<1>4. \A u \in Pair, op \in Calls, S \in SUBSET Stages :
        InFlight(u, op, S) <=>
          \/ u = call[h].by /\ op = call[h].op /\ call[h].at \in S
          \/ \E g \in Handlers \ {h} : call[g].op = op /\ call[g].by = u /\ call[g].at \in S
  BY DEF InFlight
<1>5. \A u \in Pair : /\ Due(u, "add")' <=> Due(u, "add")
                      /\ Due(u, "accept")' <=> Due(u, "accept")
                      /\ InFlight(u, "add", {"mine", "theirs"})'
                         => InFlight(u, "add", {"mine", "theirs"})
  BY <1>1, <1>3, <1>4 DEF Due, Calls, Stages
<1>6. missed' \subseteq Pair /\ missed \subseteq missed'
  BY <1>1, <1>2 DEF Fails, Typed
<1>7. Typed' /\ GoneIsNone'
  BY <1>1, <1>3, <1>6 DEF Agreeing, Typed, GoneIsNone
<1>8. \A u \in blocks \ missed' : InFlight(u, "block", {"mine"})' <=> InFlight(u, "block", {"mine"})
  <2> SUFFICES ASSUME NEW u \in blocks, u \notin missed', InFlight(u, "block", {"mine"})
               PROVE  InFlight(u, "block", {"mine"})'
    BY <1>1, <1>3, <1>4 DEF Typed, Calls, Stages
  <2>1. ~(call[h].op = "block" /\ call[h].at = "mine" /\ u = call[h].by)
    BY DEF Fails
  <2>2. QED
    BY <1>1, <1>3, <1>4, <2>1 DEF Typed, Calls, Stages
<1>9. ~stale => Checked' /\ UnaskedOrDue' /\ Withdrawn'
  BY <1>1, <1>5, <1>6, <1>8, PeerFacts
     DEF Agreeing, Typed, Checked, UnaskedOrDue, Withdrawn
<1>10. ~stale /\ missed' = {} => Fitting'
  BY <1>1, <1>5, <1>6, PeerFacts
     DEF Agreeing, Fitting, AnswerableOrDue, MutualOrDue, OnTheWay
<1>11. QED
  BY <1>1, <1>7, <1>9, <1>10 DEF Agreeing

\* After a restart nothing is due, and what was due is missed.
LEMMA CrashKeeps ==
  ASSUME Agreeing, Crash
  PROVE  Agreeing'
<1>1. /\ Typed /\ call' = [h \in Handlers |-> NoCall]
      /\ UNCHANGED <<contact, blocks, gone, stale>>
  BY DEF Crash, Agreeing
<1>2. \A u, op, S : S \in SUBSET Stages => ~InFlight(u, op, S)'
  BY <1>1 DEF InFlight, NoCall, Stages
<1>3. \A g \in Handlers : call[g].at # "idle" => call[g].by \in Pair
  BY <1>1, CallFacts, IdleIsNoCall
<1>4. missed' \subseteq Pair /\ missed \subseteq missed'
  BY <1>1, <1>3, PeerFacts DEF Crash, Typed
<1>5. Typed' /\ GoneIsNone'
  BY <1>1, <1>4 DEF Agreeing, Typed, GoneIsNone
<1>6. \A u \in Pair : InFlight(u, "block", {"mine"}) => u \in missed'
  BY DEF Crash, InFlight
<1>7. missed' = {} => \A u \in Pair, op \in Calls : ~Due(u, op)
  BY DEF Crash, Due, InFlight
<1>8. ~stale => Checked' /\ UnaskedOrDue' /\ Withdrawn'
  BY <1>1, <1>2, <1>4, <1>6, PeerFacts
     DEF Agreeing, Typed, Checked, UnaskedOrDue, Withdrawn, Due, Stages
<1>9. ~stale /\ missed' = {} => Fitting'
  BY <1>1, <1>4, <1>7, PeerFacts
     DEF Agreeing, Fitting, AnswerableOrDue, MutualOrDue, OnTheWay, Calls
<1>10. QED
  BY <1>1, <1>5, <1>8, <1>9 DEF Agreeing

\* A block: whoever is past his check now is the window that stale records.
LEMMA BlockListKeeps ==
  ASSUME Agreeing, NEW h \in Handlers, BlockList(h)
  PROVE  Agreeing'
<1> DEFINE u == call[h].by
<1>1. /\ Typed /\ call[h].at = "list" /\ UNCHANGED <<contact, gone, missed>>
  BY DEF BlockList, Agreeing
<1>2. /\ call[h] # NoCall /\ call[h] \in Call /\ call[h].at \in StagesOf(call[h].op)
      /\ u \in Pair
  BY <1>1, CallFacts, IdleIsNoCall
<1>3. call[h].op \in {"block", "unblock"}
  BY <1>1, <1>2 DEF StagesOf, Call, Calls
<1>4. \A v \in Pair, op \in Calls, S \in SUBSET {"mine", "theirs"} :
        InFlight(v, op, S) <=>
          \E g \in Handlers \ {h} : call[g].op = op /\ call[g].by = v /\ call[g].at \in S
  BY <1>1 DEF InFlight
<1>5. CASE call[h].op = "block"
  <2>1. /\ GoTo(h, "mine") /\ blocks' = blocks \cup {u}
        /\ stale' = (stale \/ InFlight(Peer(u), "add", {"mine", "theirs"}))
    BY <1>5 DEF BlockList
  <2>2. "mine" \in StagesOf(call[h].op)
    BY <1>5 DEF StagesOf
  <2>3. /\ call' \in [Handlers -> {c \in Call : c.at \in StagesOf(c.op)} \cup {NoCall}]
        /\ \A v \in Pair, op \in Calls, S \in SUBSET Stages :
             InFlight(v, op, S)' <=>
               \/ v = u /\ op = "block" /\ "mine" \in S
               \/ \E g \in Handlers \ {h} : call[g].op = op /\ call[g].by = v /\ call[g].at \in S
    BY <1>1, <1>2, <1>5, <2>1, <2>2, GoToFacts
  <2>4. \A v \in Pair : /\ Due(v, "add")' <=> Due(v, "add")
                        /\ Due(v, "accept")' <=> Due(v, "accept")
                        /\ InFlight(v, "add", {"mine", "theirs"})'
                           <=> InFlight(v, "add", {"mine", "theirs"})
                        /\ InFlight(v, "block", {"mine"})
                           => InFlight(v, "block", {"mine"})'
    BY <1>4, <2>3 DEF Due, Calls, Stages
  <2>5. \A v \in Pair : v = u => InFlight(v, "block", {"mine"})'
    BY <1>2, <2>3 DEF Calls, Stages
  <2>6. Typed' /\ GoneIsNone'
    BY <1>1, <1>2, <2>1, <2>3 DEF Agreeing, Typed, GoneIsNone
  <2>7. ASSUME ~stale' PROVE Checked' /\ UnaskedOrDue' /\ Withdrawn'
    <3>1. ~stale /\ ~InFlight(Peer(u), "add", {"mine", "theirs"})
      BY <1>1, <2>1, <2>7 DEF Typed
    <3>2. Checked'
      BY <1>1, <1>2, <2>1, <2>4, <3>1, PeerFacts DEF Agreeing, Typed, Checked
    <3>3. UnaskedOrDue'
      BY <1>1, <1>2, <2>1, <2>4, <2>5, <3>1 DEF Agreeing, Typed, UnaskedOrDue
    <3>4. Withdrawn'
      BY <1>1, <1>2, <2>1, <2>4, <3>1 DEF Agreeing, Typed, Withdrawn
    <3>5. QED
      BY <3>2, <3>3, <3>4
  <2>8. ~stale' /\ missed' = {} => Fitting'
    BY <1>1, <2>1, <2>4, PeerFacts
       DEF Agreeing, Typed, Fitting, AnswerableOrDue, MutualOrDue, OnTheWay
  <2>9. QED
    BY <2>6, <2>7, <2>8 DEF Agreeing
<1>6. CASE call[h].op = "unblock"
  <2>1. End(h) /\ blocks' = blocks \ {u} /\ UNCHANGED stale
    BY <1>6 DEF BlockList
  <2>2. \A v \in Pair : SameWork(v)
    BY <1>1, <1>6, <2>1, EarlyEndKeeps
  <2>3. Typed' /\ GoneIsNone'
    BY <1>1, <2>1, EndFacts DEF Agreeing, Typed, GoneIsNone
  <2>4. ~stale' => Checked' /\ UnaskedOrDue' /\ Withdrawn'
    BY <1>1, <2>1, <2>2, PeerFacts
       DEF Agreeing, Typed, Checked, UnaskedOrDue, Withdrawn, SameWork
  <2>5. ~stale' /\ missed' = {} => Fitting'
    BY <1>1, <2>1, <2>2, PeerFacts
       DEF Agreeing, Typed, Fitting, AnswerableOrDue, MutualOrDue, OnTheWay, SameWork
  <2>6. QED
    BY <2>3, <2>4, <2>5 DEF Agreeing
<1>7. QED
  BY <1>3, <1>5, <1>6

-----------------------------------------------------------------------------
(* The transactions *)

\* What the caller's transaction makes of his row, by the operation.
LEMMA WriteMineKeeps ==
  ASSUME Agreeing, NEW h \in Handlers, WriteMine(h)
  PROVE  Agreeing'
<1>1. Typed /\ GoneIsNone /\ call[h].at = "mine" /\ UNCHANGED <<blocks, stale>>
  BY DEF WriteMine, Agreeing
<1>2. /\ call[h] # NoCall /\ call[h] \in Call /\ call[h].at \in StagesOf(call[h].op)
      /\ call[h].by \in Pair
  BY <1>1, CallFacts, IdleIsNoCall
<1>3. call[h].op \in {"add", "accept", "reject", "delete", "block"}
  BY <1>1, <1>2 DEF StagesOf, Call, Calls
<1>4. PICK u \in Pair, op \in {"add", "accept", "reject", "delete", "block"} :
        u = call[h].by /\ op = call[h].op
  BY <1>2, <1>3
<1>5. PICK v \in Pair : v = Peer(u) /\ v # u /\ Peer(v) = u /\ \A w \in Pair : w = u \/ w = v
  BY PeerFacts
<1>6. /\ contact' = WrittenMine(op, u)
      /\ IF contact'[u] # contact[u]
         THEN /\ gone' = IF contact'[u] = "none" THEN gone \cup {u} ELSE gone \ {u}
              /\ missed' = IF contact'[u] = "none" THEN missed \ {u} ELSE missed
         ELSE UNCHANGED <<gone, missed>>
      /\ IF op = "add" \/ (op \in {"accept", "reject"} /\ contact[u] = "incoming")
         THEN GoTo(h, "theirs") ELSE End(h)
  BY <1>4 DEF WriteMine
<1>7. /\ contact' \in [Pair -> Statuses]
      /\ contact'[v] = contact[v]
      /\ \/ op = "add" /\ contact'[u] = "outgoing"
         \/ op = "accept" /\ contact[u] = "incoming" /\ contact'[u] = "friend"
         \/ op \in {"reject", "block"} /\ contact[u] = "incoming" /\ contact'[u] = "none"
         \/ op = "delete" /\ contact'[u] = "none"
         \/ op \in {"accept", "reject", "block"} /\ contact[u] # "incoming" /\ contact'[u] = contact[u]
  BY <1>1, <1>5, <1>6 DEF Typed, WrittenMine, Resolved, Statuses
<1>8. \A w \in Pair, o \in Calls, S \in SUBSET Stages :
        InFlight(w, o, S) <=>
          \/ w = u /\ o = op /\ "mine" \in S
          \/ \E g \in Handlers \ {h} : call[g].op = o /\ call[g].by = w /\ call[g].at \in S
  BY <1>1, <1>4 DEF InFlight
<1>9. /\ call' \in [Handlers -> {c \in Call : c.at \in StagesOf(c.op)} \cup {NoCall}]
      /\ \A w \in Pair, o \in Calls, S \in SUBSET Stages :
           InFlight(w, o, S)' <=>
             \/ /\ op = "add" \/ (op \in {"accept", "reject"} /\ contact[u] = "incoming")
                /\ w = u /\ o = op /\ "theirs" \in S
             \/ \E g \in Handlers \ {h} : call[g].op = o /\ call[g].by = w /\ call[g].at \in S
  <2>1. CASE op = "add" \/ (op \in {"accept", "reject"} /\ contact[u] = "incoming")
    <3>1. "theirs" \in StagesOf(call[h].op)
      BY <1>4, <2>1 DEF StagesOf
    <3>2. QED
      BY <1>1, <1>2, <1>4, <1>6, <2>1, <3>1, GoToFacts
  <2>2. CASE ~(op = "add" \/ (op \in {"accept", "reject"} /\ contact[u] = "incoming"))
    BY <1>1, <1>6, <2>2, EndFacts
  <2>3. QED
    BY <2>1, <2>2
\* What is due afterwards: what was, and the other half of this request.
<1>10. /\ \A w \in Pair : Due(w, "add")' <=> Due(w, "add") \/ (w = u /\ op = "add")
       /\ \A w \in Pair : Due(w, "accept")'
            <=> Due(w, "accept") \/ (w = u /\ op = "accept" /\ contact[u] = "incoming")
       /\ \A w \in Pair : InFlight(w, "add", {"mine", "theirs"})'
                           => InFlight(w, "add", {"mine", "theirs"})
       /\ InFlight(v, "block", {"mine"})' <=> InFlight(v, "block", {"mine"})
       /\ op # "block" => (InFlight(u, "block", {"mine"})' <=> InFlight(u, "block", {"mine"}))
  BY <1>5, <1>8, <1>9 DEF Due, Calls, Stages
<1>11. /\ gone' \subseteq Pair /\ missed' \subseteq Pair
       /\ contact'[u] # contact[u] =>
            /\ u \in gone' <=> contact'[u] = "none"
            /\ u \in missed' <=> u \in missed /\ contact'[u] # "none"
       /\ contact'[u] = contact[u] =>
            (u \in gone' <=> u \in gone) /\ (u \in missed' <=> u \in missed)
       /\ v \in gone' <=> v \in gone
       /\ v \in missed' <=> v \in missed
  BY <1>1, <1>5, <1>6 DEF Typed
<1>12. Typed'
  BY <1>1, <1>7, <1>9, <1>11 DEF Typed
<1>13. GoneIsNone'
  BY <1>1, <1>5, <1>7, <1>11, <1>12 DEF GoneIsNone, Typed
<1>14. ASSUME ~stale PROVE Checked' /\ UnaskedOrDue' /\ Withdrawn'
  <2>1. Checked /\ UnaskedOrDue /\ Withdrawn
    BY <1>14 DEF Agreeing
  <2>2. Checked'
    BY <1>1, <1>10, <2>1, PeerFacts DEF Checked, Typed
  <2>3. u \in blocks /\ u \notin missed' /\ contact'[u] = "incoming" => InFlight(u, "block", {"mine"})'
    BY <1>1, <1>7, <1>10, <1>11, <2>1 DEF UnaskedOrDue
  <2>4. v \in blocks /\ v \notin missed' /\ contact'[v] = "incoming" => InFlight(v, "block", {"mine"})'
    BY <1>1, <1>7, <1>10, <1>11, <2>1 DEF UnaskedOrDue
  <2>5. UnaskedOrDue'
    BY <1>1, <1>4, <1>5, <2>3, <2>4 DEF UnaskedOrDue, Typed
  <2>6. u \notin gone' /\ contact'[u] = "none" => ~Due(u, "add")' /\ contact'[v] # "incoming"
    BY <1>5, <1>7, <1>10, <1>11, <2>1 DEF Withdrawn
  <2>7. v \notin gone' /\ contact'[v] = "none" => ~Due(v, "add")' /\ contact'[u] # "incoming"
    BY <1>5, <1>7, <1>10, <1>11, <2>1 DEF Withdrawn
  <2>8. Withdrawn'
    BY <1>5, <2>6, <2>7 DEF Withdrawn
  <2>9. QED
    BY <2>2, <2>5, <2>8
<1>15. ASSUME ~stale, missed' = {} PROVE Fitting'
  <2>1. Withdrawn
    BY <1>15 DEF Agreeing
  <2>2. OnTheWay(u) <=> OnTheWay(v)
    BY <1>5 DEF OnTheWay
  <2>3. OnTheWay(u)' <=> Due(u, "add")' \/ Due(v, "add")'
    BY <1>5 DEF OnTheWay
  <2>4. OnTheWay(v)' <=> Due(u, "add")' \/ Due(v, "add")'
    BY <1>5 DEF OnTheWay
  \* Nothing was missed, or it was his row that he takes away.
  <2>5. CASE missed = {}
    <3>1. AnswerableOrDue(u) /\ MutualOrDue(u) /\ AnswerableOrDue(v) /\ MutualOrDue(v)
      BY <1>15, <2>5 DEF Agreeing, Fitting
    <3>2. AnswerableOrDue(u)' /\ AnswerableOrDue(v)'
      BY <1>5, <1>7, <1>10, <1>11, <2>1, <2>2, <2>3, <2>4, <3>1
         DEF AnswerableOrDue, MutualOrDue, OnTheWay, Withdrawn, Typed, Statuses
    <3>3. MutualOrDue(u)' /\ MutualOrDue(v)'
      BY <1>1, <1>5, <1>7, <1>10, <1>11, <2>1, <2>2, <2>3, <2>4, <3>1
         DEF AnswerableOrDue, MutualOrDue, OnTheWay, Withdrawn, Typed, Statuses
    <3>4. QED
      BY <1>5, <3>2, <3>3 DEF Fitting
  <2>6. CASE missed # {}
    <3>1. contact'[u] = "none" /\ u \in gone'
      BY <1>1, <1>5, <1>11, <1>15, <2>6 DEF Typed
    <3>2. QED
      BY <1>5, <3>1 DEF Fitting, AnswerableOrDue, MutualOrDue
  <2>7. QED
    BY <2>5, <2>6
<1>16. QED
  BY <1>1, <1>12, <1>13, <1>14, <1>15 DEF Agreeing

\* The second transaction, or its loss.
LEMMA WriteTheirsKeeps ==
  ASSUME Agreeing, NEW h \in Handlers, WriteTheirs(h)
  PROVE  Agreeing'
<1>1. Typed /\ GoneIsNone /\ call[h].at = "theirs" /\ End(h) /\ UNCHANGED blocks
  BY DEF WriteTheirs, Agreeing
<1>2. /\ call[h] # NoCall /\ call[h] \in Call /\ call[h].at \in StagesOf(call[h].op)
      /\ call[h].by \in Pair
  BY <1>1, CallFacts, IdleIsNoCall
<1>3. call[h].op \in {"add", "accept", "reject"}
  BY <1>1, <1>2 DEF StagesOf, Call, Calls
<1>4. PICK u \in Pair, op \in {"add", "accept", "reject"} : u = call[h].by /\ op = call[h].op
  BY <1>2, <1>3
<1>5. PICK v \in Pair : v = Peer(u) /\ v # u /\ Peer(v) = u /\ \A w \in Pair : w = u \/ w = v
  BY PeerFacts
<1>6. \A w \in Pair, o \in Calls, S \in SUBSET Stages :
        InFlight(w, o, S) <=>
          \/ w = u /\ o = op /\ "theirs" \in S
          \/ \E g \in Handlers \ {h} : call[g].op = o /\ call[g].by = w /\ call[g].at \in S
  BY <1>1, <1>4 DEF InFlight
<1>7. /\ call' \in [Handlers -> {c \in Call : c.at \in StagesOf(c.op)} \cup {NoCall}]
      /\ \A w \in Pair, o \in Calls, S \in SUBSET Stages :
           InFlight(w, o, S)' <=>
             \E g \in Handlers \ {h} : call[g].op = o /\ call[g].by = w /\ call[g].at \in S
  BY <1>1, EndFacts
\* What is due afterwards is what was, but for this request.
<1>8. /\ \A w \in Pair, o \in Calls : Due(w, o)' => Due(w, o)
      /\ \A w \in Pair, o \in Calls : ~(w = u /\ o = op) => (Due(w, o)' <=> Due(w, o))
      /\ Due(u, op)
      /\ \A w \in Pair : InFlight(w, "add", {"mine", "theirs"})'
                          => InFlight(w, "add", {"mine", "theirs"})
      /\ op = "add" => InFlight(u, "add", {"mine", "theirs"})
      /\ \A w \in Pair : InFlight(w, "block", {"mine"})' <=> InFlight(w, "block", {"mine"})
  BY <1>4, <1>6, <1>7 DEF Due, Calls, Stages
<1>9. CASE /\ losses < MaxLosses /\ missed' = missed \cup {Peer(call[h].by)}
           /\ UNCHANGED <<contact, gone, stale>>
  <2>1. missed' = missed \cup {v}
    BY <1>4, <1>5, <1>9
  <2>2. Typed' /\ GoneIsNone'
    BY <1>1, <1>5, <1>7, <1>9, <2>1 DEF Typed, GoneIsNone
  <2>3. ~stale => Checked' /\ UnaskedOrDue' /\ Withdrawn'
    BY <1>1, <1>8, <1>9, <2>1, PeerFacts
       DEF Agreeing, Typed, Checked, UnaskedOrDue, Withdrawn, Calls
  <2>4. missed' # {}
    BY <2>1
  <2>5. QED
    BY <1>9, <2>2, <2>3, <2>4 DEF Agreeing
<1>10. CASE /\ contact' = WrittenTheirs(op, v)
            /\ IF contact'[v] # contact[v]
               THEN /\ gone' = gone \ {v}
                    /\ missed' = IF op = "add" THEN missed \ {v} ELSE missed
               ELSE UNCHANGED <<gone, missed>>
            /\ stale' = (stale \/ Overtaken(op, u))
  <2>1. /\ contact' \in [Pair -> Statuses]
        /\ contact'[u] = contact[u]
        /\ \/ op = "add" /\ contact'[v] = "incoming"
           \/ op = "accept" /\ contact[v] = "outgoing" /\ contact'[v] = "friend"
           \/ op = "reject" /\ contact[v] = "outgoing" /\ contact'[v] = "none"
           \/ op \in {"accept", "reject"} /\ contact[v] # "outgoing" /\ contact'[v] = contact[v]
    BY <1>1, <1>5, <1>10 DEF Typed, WrittenTheirs, Resolved, Statuses
  <2>2. /\ gone' \subseteq Pair /\ missed' \subseteq Pair
        /\ contact'[v] # contact[v] =>
             /\ v \notin gone'
             /\ v \in missed' <=> v \in missed /\ op # "add"
        /\ contact'[v] = contact[v] =>
             (v \in gone' <=> v \in gone) /\ (v \in missed' <=> v \in missed)
        /\ u \in gone' <=> u \in gone
        /\ u \in missed' <=> u \in missed
    BY <1>1, <1>5, <1>10 DEF Typed
  <2>3. Typed'
    BY <1>1, <1>7, <1>10, <2>1, <2>2 DEF Typed
  <2>4. GoneIsNone'
    BY <1>1, <1>5, <2>1, <2>2, <2>3 DEF GoneIsNone, Typed
  <2>5. ASSUME ~stale'
        PROVE  /\ ~stale
               /\ op = "reject" /\ contact[v] = "outgoing" => contact[u] = "none" /\ ~Due(v, "add")
    BY <1>1, <1>5, <1>10, <2>5 DEF Overtaken, Due, Typed
  <2>6. ASSUME ~stale' PROVE Checked' /\ UnaskedOrDue' /\ Withdrawn'
    <3>1. Checked /\ UnaskedOrDue /\ Withdrawn
      BY <2>5, <2>6 DEF Agreeing
    <3>2. Checked'
      BY <1>1, <1>8, <3>1, PeerFacts DEF Checked, Typed
    <3>3. op = "add" => v \notin blocks
      BY <1>5, <1>8, <3>1 DEF Checked
    <3>4. \A w \in {u, v} : w \in blocks /\ w \notin missed' /\ contact'[w] = "incoming"
                           => InFlight(w, "block", {"mine"})'
      BY <1>8, <2>1, <2>2, <3>1, <3>3 DEF UnaskedOrDue
    <3>5. UnaskedOrDue'
      BY <1>1, <1>5, <3>4 DEF UnaskedOrDue, Typed
    <3>6. u \notin gone' /\ contact'[u] = "none" => ~Due(u, "add")' /\ contact'[v] # "incoming"
      BY <1>5, <1>8, <2>1, <2>2, <3>1 DEF Withdrawn, Calls
    <3>7. v \notin gone' /\ contact'[v] = "none" => ~Due(v, "add")' /\ contact'[u] # "incoming"
      BY <1>5, <1>8, <2>1, <2>2, <2>5, <2>6, <3>1 DEF Withdrawn, Calls
    <3>8. Withdrawn'
      BY <1>5, <3>6, <3>7 DEF Withdrawn
    <3>9. QED
      BY <3>2, <3>5, <3>8
  <2>7. ASSUME ~stale', missed' = {} PROVE Fitting'
    <3>1. Withdrawn
      BY <2>5, <2>7 DEF Agreeing
    <3>2. /\ OnTheWay(u) <=> Due(u, "add") \/ Due(v, "add")
          /\ OnTheWay(v) <=> Due(u, "add") \/ Due(v, "add")
          /\ OnTheWay(u)' <=> Due(u, "add")' \/ Due(v, "add")'
          /\ OnTheWay(v)' <=> Due(u, "add")' \/ Due(v, "add")'
      BY <1>5 DEF OnTheWay
    <3>3. CASE op = "add"
      BY <1>5, <2>1, <3>3 DEF Fitting, AnswerableOrDue, MutualOrDue
    <3>4. CASE op # "add"
      <4>1. missed = {}
        BY <1>1, <1>5, <2>2, <2>7, <3>4 DEF Typed
      <4>2. AnswerableOrDue(u) /\ MutualOrDue(u) /\ AnswerableOrDue(v) /\ MutualOrDue(v)
        BY <2>5, <2>7, <4>1 DEF Agreeing, Fitting
      <4>3. (OnTheWay(u)' <=> OnTheWay(u)) /\ (OnTheWay(v)' <=> OnTheWay(v))
        BY <1>8, <3>2, <3>4 DEF Calls
      <4>4. CASE op = "accept"
        <5>1. Due(v, "accept")' <=> Due(v, "accept")
          BY <1>5, <1>8, <4>4 DEF Calls
        \* The row that waited was waited for: it is a friend's now.
        <5>2. CASE contact[v] = "outgoing"
          <6>1. contact'[u] = contact[u] /\ contact'[v] = "friend" /\ (u \in gone' <=> u \in gone)
            BY <2>1, <2>2, <4>4, <5>2
          <6>2. AnswerableOrDue(u)' /\ MutualOrDue(u)' /\ AnswerableOrDue(v)'
            BY <1>1, <1>5, <4>2, <4>3, <5>1, <5>2, <6>1 DEF AnswerableOrDue, MutualOrDue, GoneIsNone
          <6>3. MutualOrDue(v)'
            BY <1>5, <4>2, <4>3, <5>1, <5>2, <6>1 DEF AnswerableOrDue, MutualOrDue
          <6>4. QED
            BY <1>5, <6>2, <6>3 DEF Fitting
        <5>3. CASE contact[v] # "outgoing"
          <6>1. /\ contact'[u] = contact[u] /\ contact'[v] = contact[v]
                /\ u \in gone' <=> u \in gone
                /\ v \in gone' <=> v \in gone
            BY <2>1, <2>2, <4>4, <5>3
          <6>2. /\ AnswerableOrDue(u)' /\ MutualOrDue(u)'
                /\ AnswerableOrDue(v)' /\ MutualOrDue(v)'
            BY <1>5, <4>2, <4>3, <5>1, <5>3, <6>1 DEF AnswerableOrDue, MutualOrDue
          <6>3. QED
            BY <1>5, <6>2 DEF Fitting
        <5>4. QED
          BY <5>2, <5>3
      <4>5. CASE op = "reject"
        <5>1. CASE contact[v] = "outgoing"
          <6>1. contact'[u] = "none" /\ contact'[v] = "none"
            BY <1>1, <2>1, <2>5, <2>7, <4>5, <5>1
          <6>2. QED
            BY <1>5, <6>1 DEF Fitting, AnswerableOrDue, MutualOrDue
        <5>2. CASE contact[v] # "outgoing"
          <6>1. /\ contact'[u] = contact[u] /\ contact'[v] = contact[v]
                /\ u \in gone' <=> u \in gone
                /\ v \in gone' <=> v \in gone
            BY <2>1, <2>2, <4>5, <5>2
          <6>2. \A w \in {u, v} : Due(w, "accept")' <=> Due(w, "accept")
            BY <1>8, <4>5 DEF Calls
          <6>3. /\ AnswerableOrDue(u)' /\ MutualOrDue(u)'
                /\ AnswerableOrDue(v)' /\ MutualOrDue(v)'
            BY <1>5, <4>2, <4>3, <6>1, <6>2 DEF AnswerableOrDue, MutualOrDue
          <6>4. QED
            BY <1>5, <6>3 DEF Fitting
        <5>3. QED
          BY <5>1, <5>2
      <4>6. QED
        BY <1>4, <3>4, <4>4, <4>5
    <3>5. QED
      BY <3>3, <3>4
  <2>8. QED
    BY <2>3, <2>4, <2>5, <2>6, <2>7 DEF Agreeing
<1>11. QED
  BY <1>4, <1>5, <1>9, <1>10 DEF WriteTheirs

-----------------------------------------------------------------------------
(* The theorems *)

LEMMA InitAgreeing == RelationsAssumption /\ PairInit => Agreeing
<1> SUFFICES ASSUME PairInit PROVE Agreeing
  OBVIOUS
<1>1. \A u, op, S : S \in SUBSET Stages => ~InFlight(u, op, S)
  BY DEF PairInit, InFlight, NoCall, Stages
<1>2. Typed /\ GoneIsNone
  BY DEF PairInit, Typed, GoneIsNone, Statuses
<1>3. Checked /\ UnaskedOrDue /\ missed = {}
  BY DEF PairInit, Checked, UnaskedOrDue
<1>4. PICK u \in Pair :
        contact \in {[w \in Pair |-> "none"], [w \in Pair |-> "friend"],
                    [w \in Pair |-> IF w = u THEN "outgoing" ELSE "incoming"]}
  BY DEF PairInit
<1>5. Withdrawn
  BY <1>1, <1>4, PeerFacts DEF Withdrawn, Due, Stages
<1>6. Fitting
  BY <1>4, PeerFacts DEF Fitting, AnswerableOrDue, MutualOrDue
<1>7. QED
  BY <1>2, <1>3, <1>5, <1>6 DEF Agreeing

LEMMA StutterAgreeing ==
  ASSUME Agreeing, UNCHANGED relations
  PROVE  Agreeing'
<1>1. UNCHANGED Rows /\ \A u \in Pair : SameWork(u)
  BY DEF relations, Rows, SameWork, Due, InFlight
<1>2. call' \in [Handlers -> {c \in Call : c.at \in StagesOf(c.op)} \cup {NoCall}]
  BY DEF Agreeing, Typed, relations
<1>3. QED
  BY <1>1, <1>2, SameWorkKeeps

\* At every moment each row of a pair fits the other's, or what makes it fit is
\* due, was missed, or fell into a window of stale (contact.go, blocklist.go).
THEOREM AlwaysAgreeing == PairSpec => []Agreeing
<1>1. PairInit => Agreeing
  BY InitAgreeing, RelationsAssumption
<1>2. ASSUME Agreeing, [PairNext]_relations
      PROVE  Agreeing'
  <2>1. CASE \E u \in Pair, op \in Calls : Receive(u, op)
    BY <1>2, <2>1, ReceiveKeeps
  <2>2. ASSUME NEW h \in Handlers, CheckBlocks(h)
        PROVE  Agreeing'
    BY <1>2, <2>2, CheckBlocksKeeps
  <2>3. ASSUME NEW h \in Handlers, BlockList(h)
        PROVE  Agreeing'
    BY <1>2, <2>3, BlockListKeeps
  <2>4. ASSUME NEW h \in Handlers, WriteMine(h)
        PROVE  Agreeing'
    BY <1>2, <2>4, WriteMineKeeps
  <2>5. ASSUME NEW h \in Handlers, WriteTheirs(h)
        PROVE  Agreeing'
    BY <1>2, <2>5, WriteTheirsKeeps
  <2>6. ASSUME NEW h \in Handlers, Fails(h)
        PROVE  Agreeing'
    BY <1>2, <2>6, FailsKeeps
  <2>7. CASE Crash
    BY <1>2, <2>7, CrashKeeps
  <2>8. CASE UNCHANGED relations
    BY <1>2, <2>8, StutterAgreeing
  <2>9. QED
    BY <1>2, <2>1, <2>2, <2>3, <2>4, <2>5, <2>6, <2>7, <2>8 DEF PairNext
<1>3. QED
  BY <1>1, <1>2, PTL DEF PairSpec

\* When every call has ended, nothing is due: the rows of the two users agree,
\* however their requests, answers and blocks have crossed.
THEOREM SidesAlwaysAgree == PairSpec => []SidesAgree
<1>1. Agreeing => SidesAgree
  <2> SUFFICES ASSUME Agreeing, AtRest, ~stale, NEW u \in Pair
               PROVE  /\ missed = {} => Answerable(u) /\ Mutual(u)
                      /\ u \notin missed => Unasked(u)
    BY DEF SidesAgree
  <2>1. \A w, op, S : S \in SUBSET Stages => ~InFlight(w, op, S)
    <3>1. NoCall.at = "idle"
      BY DEF NoCall
    <3>2. \A h \in Handlers : call[h].at = "idle"
      BY <3>1 DEF AtRest
    <3>3. QED
      BY <3>2 DEF InFlight, Stages
  <2>2. u \notin missed => Unasked(u)
    BY <2>1 DEF Agreeing, UnaskedOrDue, Unasked, Stages
  <2>3. missed = {} => AnswerableOrDue(u) /\ MutualOrDue(u)
    BY DEF Agreeing, Fitting
  <2>4. QED
    BY <2>1, <2>2, <2>3 DEF AnswerableOrDue, MutualOrDue, OnTheWay, Due, Answerable, Mutual, Stages
<1>2. QED
  BY <1>1, AlwaysAgreeing, PTL
=============================================================================
