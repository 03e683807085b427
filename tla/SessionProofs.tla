--------------------------- MODULE SessionProofs ---------------------------
(***************************************************************************)
(* What a client may say of its session, for any number of calls under     *)
(* way, logins and faults: the snapshot shows the connection that there is *)
(* (ConnectionShown), a ready session is whole (ReadyIsWhole), and at rest *)
(* the kit, the SDK and the server agree on who is signed in (HostAgrees,  *)
(* ServedAsSelf).                                                          *)
(*                                                                         *)
(* A step of the model is a composition of operators on the client's       *)
(* record.  Sound collects what holds of the record in every reachable     *)
(* state, Clean what holds until a window of Exposes is entered.  The      *)
(* proof has lemmas per operator, which say what it changes and which part *)
(* of Sound it keeps, and one lemma per action.                            *)
(***************************************************************************)
EXTENDS Session, TLAPS, SequenceTheorems, WellFoundedInduction

\* A call, and an attempt to connect, without the bounds that come from counting.
Flow == [op : Ops, pc : Pcs, at : Nat, token : 0..MaxLogins, latest : BOOLEAN]

\* (orig is the wrapper that the attempt found, 0 for the constructor's handler.)
AttemptType == [live : BOOLEAN, orig : Nat]

\* The types of the record's fields.
IsClient(c) ==
  c \in [socket : {"none", "connecting", "open", "closed"}, timer : BOOLEAN,
         shown : {"disconnected", "connecting", "connected"},
         attempts : Seq(AttemptType), hook : Nat, current : Nat,
         token : 0..MaxLogins, uid : 0..MaxLogins,
         state : {"idle", "authenticated", "initializing", "ready"},
         gateway : 0..MaxLogins, kicked : BOOLEAN, stored : 0..MaxLogins,
         view : {"start", "auth", "app"}, flows : [Slots -> Flow]]

\* Which calls can be suspended where.
FlowOK(f) ==
  /\ f.op = "none" <=> f.pc = "idle"
  /\ f.op \in {"logout", "kick"} => f.pc = "revoke"
  /\ f.op = "login" => f.pc # "revoke"
  /\ f.op = "reauth" => f.pc # "cleanup"

\* Only one call of startSession is the latest.
FlowsOK(c) ==
  /\ \A s \in Slots : FlowOK(c.flows[s])
  /\ \A s, t \in Slots : c.flows[s].latest /\ c.flows[t].latest => s = t

\* The attempts to connect: each wraps an earlier one, the one that calls join has
\* its timer, and so has every one that a call waits on, but for the calls S.
AttemptsBut(c, S) ==
  /\ c.hook <= Len(c.attempts) /\ c.current <= Len(c.attempts)
  /\ \A a \in 1..Len(c.attempts) : c.attempts[a].orig < a
  /\ c.current # 0 => c.attempts[c.current].live
  /\ \A s \in Slots : c.flows[s].at <= Len(c.attempts)
  /\ \A s \in In(c, {"connect"}) \ S : c.flows[s].at # 0 /\ c.attempts[c.flows[s].at].live

\* All calls that wait have an attempt whose timer runs.
AttemptsOK(c) == AttemptsBut(c, {})

\* Requests are under way on an open socket only.
LinkOK(c) ==
  /\ c.timer => c.socket = "closed" /\ c.token # 0
  /\ c.shown = "connected" <=> c.socket = "open"
  /\ In(c, {"sent", "revoke"}) # {} => c.socket = "open"

\* The calls that have started a session and wait for its database.
Starting(c) == In(c, {"resolve", "create", "init"})

\* The re-authentications that are not answered yet.
Restorers(c) == In(c, {"connect", "sent"}) \cap Running(c, "reauth")

\* The token is the user's, and so is the stored one; the re-authentication after
\* a page load is alone, and nothing else makes the kit's first view stay.
UserOK(c) ==
  /\ c.token = c.uid
  /\ c.stored \in {0, c.uid} \/ c.uid = 0
  /\ In(c, {"connect"}) \cap Running(c, "reauth") # {} => c.uid = 0
  /\ In(c, {"revoke"}) # {} => c.uid # 0
  /\ c.uid = 0 => \A s \in Restorers(c) : /\ c.view = "start" /\ c.gateway = 0 /\ ~c.kicked
                                          /\ In(c, {"idle"}) = Slots \ {s}
  /\ c.view = "start" => Running(c, "reauth") # {}
  /\ mode = "instant" => c.state \in {"idle", "ready"} /\ Starting(c) = {}

\* What holds of the client in every reachable state.
Sound(c) == IsClient(c) /\ FlowsOK(c) /\ AttemptsOK(c) /\ LinkOK(c) /\ UserOK(c)

\* An attempt is made for a login, or for the page that is loaded.
Counted(c, logins) ==
  Len(c.attempts) + (IF In(c, {"cleanup"}) # {} THEN 1 ELSE 0) <= 1 + logins

\* The session that is ready, being started or restored is the user's, but for what
\* the calls S are about to leave.
WholeBut(c, S) ==
  /\ c.uid # 0 <=> c.state # "idle"
  /\ c.gateway \in {0, c.uid}
  /\ \A s \in In(c, {"create", "init"}) \ S : c.flows[s].token = c.uid
  /\ \A s \in In(c, {"init"}) \ S : c.flows[s].latest => c.gateway = c.uid
  /\ c.state = "ready" => c.gateway = c.uid
  /\ \A s \in Restorers(c) \ S : c.flows[s].token = c.uid \/ c.uid = 0
  /\ Running(c, "kick") # {} => c.view = "auth"

\* With no call about to leave.
Whole(c) == WholeBut(c, {})

\* What the kit has stored and shows is the SDK's user, but for calls under way.
Agreed(c) ==
  /\ In(c, {"revoke"}) # {} => c.stored = 0
  /\ c.uid # 0 /\ c.stored = 0 => In(c, {"revoke"}) # {}
  /\ c.uid = 0 /\ c.stored # 0 => Restorers(c) # {}
  /\ c.view = "app" => c.uid # 0

\* What holds of the client while no window has been entered.
Clean(c) == ~Exposes(c) /\ Whole(c) /\ Agreed(c)

\* The server knows the connection as the user's, or is about to, or the user is
\* about to be signed out.
Served(c, online) ==
  c.socket = "open" /\ c.uid # 0 =>
    online = c.uid \/ In(c, {"sent"}) \cap Running(c, "reauth") # {} \/ In(c, {"revoke"}) # {}

\* The inductive invariant.
SessionOK ==
  /\ mode \in Modes
  /\ Sound(client) /\ Counted(client, spent.logins)
  /\ spent \in [logins : 0..MaxLogins, faults : Nat]
  /\ server \in [tokens : SUBSET Tokens, issued : 0..MaxLogins,
                 online : 0..MaxLogins, kick : BOOLEAN]
  /\ exposed \in BOOLEAN
  /\ ~exposed => Clean(client) /\ Served(client, server.online)

-----------------------------------------------------------------------------
(* Flows *)

\* What an operator leaves alone: the user and his session,
SameUser(c, d) ==
  /\ d.token = c.token /\ d.uid = c.uid /\ d.state = c.state
  /\ d.gateway = c.gateway /\ d.kicked = c.kicked
  /\ d.stored = c.stored /\ d.view = c.view

\* the socket,
SameLink(c, d) == d.socket = c.socket /\ d.timer = c.timer /\ d.shown = c.shown

\* the attempts to connect.
SameTries(c, d) == d.attempts = c.attempts /\ d.hook = c.hook /\ d.current = c.current

\* A free slot is one where no call is under way.
LEMMA FreeIsIdle ==
  ASSUME NEW c, HasFree(c)
  PROVE  Free(c) \in Slots /\ c.flows[Free(c)].pc = "idle"
<1> DEFINE S == In(c, {"idle"})
<1>1. S \in SUBSET Nat /\ S # {}
  BY SessionAssumption DEF In, HasFree
<1>2. PICK s \in S : \A t \in S : <<t, s>> \notin OpToRel(<, Nat)
  BY <1>1, NatLessThanWellFounded, WFMin
<1>3. \A t \in S : ~(t < s)
  BY <1>1, <1>2 DEF OpToRel
<1>4. \A t \in S : s <= t
  <2>1. \A t \in S : s \in Nat /\ t \in Nat
    BY <1>1
  <2> QED
    BY <1>3, <2>1
<1>5. Free(c) \in S
  BY <1>4 DEF Free
<1> QED
  BY <1>5 DEF In

\* The calls of a client may be any flows.
LEMMA NewFlows ==
  ASSUME NEW c, IsClient(c), NEW f \in [Slots -> Flow]
  PROVE  LET d == [c EXCEPT !.flows = f] IN
         /\ IsClient(d) /\ SameUser(c, d) /\ SameLink(c, d) /\ SameTries(c, d)
         /\ d.flows = f
BY DEF IsClient, SameUser, SameLink, SameTries

\* A slot where no call is under way.
LEMMA NoFlowType == NoFlow \in Flow
BY SessionAssumption DEF NoFlow, Flow, Ops, Pcs

\* End: the calls of S are over.
LEMMA EndDoes ==
  ASSUME NEW c, IsClient(c), NEW S
  PROVE  LET d == End(c, S) IN
         /\ IsClient(d) /\ SameUser(c, d) /\ SameLink(c, d) /\ SameTries(c, d)
         /\ \A s \in Slots : d.flows[s] = IF s \in S THEN NoFlow ELSE c.flows[s]
<1> DEFINE f == [s \in Slots |-> IF s \in S THEN NoFlow ELSE c.flows[s]]
<1>1. f \in [Slots -> Flow]
  BY NoFlowType DEF IsClient
<1>2. End(c, S) = [c EXCEPT !.flows = f]
  BY DEF End, IsClient
<1>3. \A s \in Slots : f[s] = IF s \in S THEN NoFlow ELSE c.flows[s]
  OBVIOUS
<1> HIDE DEF f
<1> QED
  BY <1>1, <1>2, <1>3, NewFlows

\* MoveTo: they go on to their next await.
LEMMA MoveToDoes ==
  ASSUME NEW c, IsClient(c), NEW S, NEW pc \in Pcs
  PROVE  LET d == MoveTo(c, S, pc) IN
         /\ IsClient(d) /\ SameUser(c, d) /\ SameLink(c, d) /\ SameTries(c, d)
         /\ \A s \in Slots : d.flows[s] = IF s \in S THEN [c.flows[s] EXCEPT !.pc = pc]
                                          ELSE c.flows[s]
<1> DEFINE f == [s \in Slots |-> IF s \in S THEN [c.flows[s] EXCEPT !.pc = pc] ELSE c.flows[s]]
<1>1. f \in [Slots -> Flow]
  BY ZenonT(60) DEF IsClient, Flow
<1>2. MoveTo(c, S, pc) = [c EXCEPT !.flows = f]
  BY DEF MoveTo, IsClient
<1>3. \A s \in Slots : f[s] = IF s \in S THEN [c.flows[s] EXCEPT !.pc = pc] ELSE c.flows[s]
  OBVIOUS
<1> HIDE DEF f
<1> QED
  BY <1>1, <1>2, <1>3, NewFlows

\* A call that has just begun.
NewFlow(op, pc, token) == [NoFlow EXCEPT !.op = op, !.pc = pc, !.token = token]

\* Its fields.
LEMMA NewFlowIs ==
  ASSUME NEW op \in Ops, NEW pc \in Pcs, NEW token \in 0..MaxLogins
  PROVE  LET f == NewFlow(op, pc, token) IN
         /\ f \in Flow
         /\ f.op = op /\ f.pc = pc /\ f.at = 0 /\ f.token = token /\ ~f.latest
BY NoFlowType DEF NewFlow, NoFlow, Flow

\* Begin: one more call.
LEMMA BeginDoes ==
  ASSUME NEW c, IsClient(c), NEW op \in Ops, NEW pc \in Pcs, NEW token \in 0..MaxLogins
  PROVE  LET d == Begin(c, op, pc, token) IN
         /\ IsClient(d) /\ SameUser(c, d) /\ SameLink(c, d) /\ SameTries(c, d)
         /\ \A s \in Slots :
              d.flows[s] = IF s = Free(c) THEN NewFlow(op, pc, token) ELSE c.flows[s]
<1> DEFINE f == [c.flows EXCEPT ![Free(c)] = NewFlow(op, pc, token)]
<1>1. NewFlow(op, pc, token) \in Flow
  BY NewFlowIs
<1>2. f \in [Slots -> Flow]
  BY <1>1 DEF IsClient
<1>3. Begin(c, op, pc, token) = [c EXCEPT !.flows = f]
  BY DEF Begin, IsClient, NewFlow
<1>4. \A s \in Slots : f[s] = IF s = Free(c) THEN NewFlow(op, pc, token) ELSE c.flows[s]
  BY DEF IsClient
<1> HIDE DEF f
<1> QED
  BY <1>2, <1>3, <1>4, NewFlows

-----------------------------------------------------------------------------
(* Connecting *)

\* Connect: a new socket, and no timer for another.
LEMMA ConnectDoes ==
  ASSUME NEW c, IsClient(c), c.timer => c.socket = "closed"
  PROVE  LET d == Connect(c) IN
         /\ IsClient(d) /\ SameUser(c, d) /\ SameTries(c, d)
         /\ d.flows = c.flows /\ d.shown = c.shown
         /\ d.socket = "connecting" /\ ~d.timer
BY DEF Connect, IsClient, SameUser, SameTries

\* An attempt is the newest one, and calls may join it.
LEMMA AttemptDoes ==
  ASSUME NEW c, NEW S, IsClient(c), AttemptsBut(c, S), c.timer => c.socket = "closed"
  PROVE  LET d == Attempt(c) IN
         /\ IsClient(d) /\ AttemptsBut(d, S) /\ SameUser(c, d)
         /\ d.flows = c.flows
         /\ d.socket = "connecting" /\ ~d.timer /\ d.shown = "connecting"
         /\ d.current = Len(c.attempts) + 1 /\ Len(d.attempts) = Len(c.attempts) + 1
<1> DEFINE n == Len(c.attempts) + 1
           r == [live |-> TRUE, orig |-> c.hook]
           tries == Append(c.attempts, r)
           e == [c EXCEPT !.shown = "connecting", !.current = n, !.hook = n, !.attempts = tries]
<1>1. r \in AttemptType /\ c.attempts \in Seq(AttemptType) /\ n \in Nat \ {0}
  BY DEF AttemptType, IsClient
<1>2. tries \in Seq(AttemptType) /\ Len(tries) = n /\ tries[n] = r
  BY <1>1
<1>3. \A a \in 1..Len(c.attempts) : tries[a] = c.attempts[a]
  BY <1>1
<1>4. IsClient(e) /\ SameUser(c, e)
  BY <1>1, <1>2 DEF IsClient, SameUser
<1>5. /\ e.flows = c.flows /\ e.socket = c.socket /\ e.timer = c.timer
      /\ e.shown = "connecting" /\ e.current = n /\ e.hook = n /\ e.attempts = tries
  BY DEF IsClient
<1>6. Attempt(c) = Connect(e)
  BY DEF Attempt
<1> HIDE DEF e
<1>7. LET d == Attempt(c) IN
      /\ IsClient(d) /\ SameUser(c, d)
      /\ d.flows = c.flows /\ d.socket = "connecting" /\ ~d.timer /\ d.shown = "connecting"
      /\ d.current = n /\ d.hook = n /\ d.attempts = tries
  BY <1>4, <1>5, <1>6, ConnectDoes DEF SameUser, SameTries
<1> HIDE DEF tries
<1>8. \A a \in 1..Len(tries) : tries[a].orig < a
  <2> SUFFICES ASSUME NEW a \in 1..Len(tries) PROVE tries[a].orig < a
    OBVIOUS
  <2>1. CASE a = n
    BY <1>1, <1>2, <2>1 DEF AttemptsBut, IsClient
  <2>2. CASE a # n
    <3>1. a \in 1..Len(c.attempts)
      BY <1>1, <1>2, <2>2
    <3> QED
      BY <1>3, <3>1 DEF AttemptsBut
  <2> QED
    BY <2>1, <2>2
<1>9. \A s \in Slots : c.flows[s].at <= n
  BY <1>1 DEF AttemptsBut, IsClient, Flow
<1>10. \A s \in In(c, {"connect"}) \ S : c.flows[s].at # 0 /\ tries[c.flows[s].at].live
  BY <1>1, <1>3 DEF AttemptsBut, IsClient, Flow, In
<1>11. AttemptsBut(Attempt(c), S)
  <2>1. tries[n].live
    BY <1>2
  <2> QED
    BY <1>1, <1>2, <1>7, <1>8, <1>9, <1>10, <2>1 DEF AttemptsBut, In
<1> QED
  BY <1>2, <1>7, <1>11

\* Flow g is flow f at another await.
Moved(f, g, pc) == g.op = f.op /\ g.token = f.token /\ g.latest = f.latest /\ g.pc = pc

\* As in MoveTo.
LEMMA MovedFlow ==
  ASSUME NEW f \in Flow, NEW pc \in Pcs
  PROVE  LET g == [f EXCEPT !.pc = pc] IN Moved(f, g, pc) /\ g.at = f.at /\ g \in Flow
BY DEF Moved, Flow

\* The calls S wait for the current attempt, as in EnsureConnected.
Join(c, S) ==
  [MoveTo(c, S, "connect") EXCEPT
     !.flows = [s \in Slots |-> IF s \in S THEN [@[s] EXCEPT !.at = c.current] ELSE @[s]]]

\* A call that has joined the current attempt waits on its timer.
LEMMA JoinDoes ==
  ASSUME NEW c, NEW S, IsClient(c), AttemptsBut(c, S), c.current # 0
  PROVE  LET d == Join(c, S) IN
         /\ IsClient(d) /\ AttemptsOK(d)
         /\ SameUser(c, d) /\ SameLink(c, d) /\ SameTries(c, d)
         /\ \A s \in Slots : IF s \in S THEN Moved(c.flows[s], d.flows[s], "connect")
                             ELSE d.flows[s] = c.flows[s]
<1> DEFINE e == MoveTo(c, S, "connect")
           f == [s \in Slots |-> IF s \in S THEN [e.flows[s] EXCEPT !.at = c.current]
                                 ELSE e.flows[s]]
           d == [e EXCEPT !.flows = f]
<1>1. /\ IsClient(e) /\ SameUser(c, e) /\ SameLink(c, e) /\ SameTries(c, e)
      /\ \A s \in Slots : e.flows[s] = IF s \in S THEN [c.flows[s] EXCEPT !.pc = "connect"]
                                       ELSE c.flows[s]
  BY MoveToDoes DEF Pcs
<1>2. d = [e EXCEPT !.flows = [s \in Slots |-> IF s \in S THEN [@[s] EXCEPT !.at = c.current]
                                               ELSE @[s]]]
  BY <1>1 DEF IsClient
<1> HIDE DEF e
<1>3. f \in [Slots -> Flow]
  BY <1>1, ZenonT(60) DEF IsClient, Flow
<1>4. \A s \in Slots : IF s \in S THEN Moved(c.flows[s], f[s], "connect") /\ f[s].at = c.current
                       ELSE f[s] = c.flows[s]
  <2>1. \A s \in Slots : c.flows[s] \in Flow /\ e.flows[s] \in Flow /\ c.current \in Nat
    BY <1>1 DEF IsClient
  <2>2. \A s \in Slots : f[s] = IF s \in S THEN [e.flows[s] EXCEPT !.at = c.current]
                               ELSE c.flows[s]
    BY <1>1
  <2> HIDE DEF f
  <2>3. \A s \in Slots : s \in S => Moved(c.flows[s], e.flows[s], "connect")
    BY <1>1, <2>1, MovedFlow DEF Pcs
  <2> QED
    BY <2>1, <2>2, <2>3 DEF Moved, Flow
<1> HIDE DEF f
<1>5. /\ IsClient(d) /\ SameUser(e, d) /\ SameLink(e, d) /\ SameTries(e, d)
      /\ d.flows = f
  BY <1>1, <1>3, NewFlows
<1>6. SameUser(c, d) /\ SameLink(c, d) /\ SameTries(c, d)
  BY <1>1, <1>5 DEF SameUser, SameLink, SameTries
<1> HIDE DEF d
<1>7. AttemptsOK(d)
  <2>1. \A s \in Slots : d.flows[s].at <= Len(c.attempts)
    BY <1>4, <1>5 DEF AttemptsOK, AttemptsBut
  <2>2. \A s \in In(d, {"connect"}) : d.flows[s].at # 0 /\ c.attempts[d.flows[s].at].live
    BY <1>4, <1>5 DEF AttemptsOK, AttemptsBut, In
  <2> QED
    BY <1>6, <2>1, <2>2 DEF AttemptsOK, AttemptsBut, SameTries
<1>8. Join(c, S) = d
  BY <1>2 DEF e, Join
<1> QED
  BY <1>4, <1>5, <1>6, <1>7, <1>8

\* EnsureConnected: the calls S send their requests, or wait for an attempt.
LEMMA EnsureConnectedDoes ==
  ASSUME NEW c, NEW S, IsClient(c), AttemptsBut(c, S), c.timer => c.socket = "closed"
  PROVE  LET d == EnsureConnected(c, S)
             pc == IF c.socket = "open" THEN "sent" ELSE "connect" IN
         /\ IsClient(d) /\ AttemptsOK(d) /\ SameUser(c, d)
         /\ \/ SameLink(c, d)
            \/ c.socket # "open" /\ d.socket = "connecting" /\ ~d.timer /\ d.shown = "connecting"
         /\ \A s \in Slots : IF s \in S THEN Moved(c.flows[s], d.flows[s], pc)
                             ELSE d.flows[s] = c.flows[s]
         /\ Len(d.attempts) <= Len(c.attempts) + 1
         /\ S = {} => d = c
<1>0. Len(c.attempts) \in Nat
  BY DEF IsClient
<1>1. CASE S = {}
  <2>1. EnsureConnected(c, S) = c
    BY <1>1 DEF EnsureConnected
  <2> QED
    BY <1>0, <1>1, <2>1 DEF SameUser, SameLink, AttemptsOK
<1>2. CASE S # {} /\ c.socket = "open"
  <2> DEFINE d == MoveTo(c, S, "sent")
  <2>1. EnsureConnected(c, S) = d
    BY <1>2 DEF EnsureConnected
  <2>2. /\ IsClient(d) /\ SameUser(c, d) /\ SameLink(c, d) /\ SameTries(c, d)
        /\ \A s \in Slots : d.flows[s] = IF s \in S THEN [c.flows[s] EXCEPT !.pc = "sent"]
                                         ELSE c.flows[s]
    BY MoveToDoes DEF Pcs
  <2> HIDE DEF d
  <2>3. \A s \in Slots : IF s \in S
                         THEN Moved(c.flows[s], d.flows[s], "sent") /\ d.flows[s].at = c.flows[s].at
                         ELSE d.flows[s] = c.flows[s]
    BY <2>2 DEF Moved, IsClient, Flow
  <2>4. AttemptsOK(d)
    BY <2>2, <2>3 DEF AttemptsOK, AttemptsBut, In, SameTries, Moved
  <2> QED
    BY <1>0, <1>2, <2>1, <2>2, <2>3, <2>4 DEF SameTries
<1>3. CASE S # {} /\ c.socket # "open"
  <2> DEFINE e == IF c.current # 0 THEN c ELSE Attempt(c)
             d == Join(e, S)
  <2>1. EnsureConnected(c, S) = d
    BY <1>3 DEF EnsureConnected, Join
  <2>2. /\ IsClient(e) /\ AttemptsBut(e, S) /\ SameUser(c, e)
        /\ e.flows = c.flows /\ e.current # 0
        /\ SameLink(c, e) \/ (e.socket = "connecting" /\ ~e.timer /\ e.shown = "connecting")
        /\ Len(e.attempts) <= Len(c.attempts) + 1
    <3>1. CASE c.current # 0
      BY <1>0, <3>1 DEF SameUser, SameLink
    <3>2. CASE c.current = 0
      BY <1>0, <3>2, AttemptDoes
    <3> QED
      BY <3>1, <3>2
  <2> HIDE DEF e
  <2>3. /\ IsClient(d) /\ AttemptsOK(d)
        /\ SameUser(e, d) /\ SameLink(e, d) /\ SameTries(e, d)
        /\ \A s \in Slots : IF s \in S THEN Moved(e.flows[s], d.flows[s], "connect")
                            ELSE d.flows[s] = e.flows[s]
    BY <2>2, JoinDoes
  <2> HIDE DEF d
  <2> QED
    BY <1>3, <2>1, <2>2, <2>3 DEF SameUser, SameLink, SameTries
<1> QED
  BY <1>1, <1>2, <1>3

-----------------------------------------------------------------------------
(* The handlers that run when a socket opens *)

\* F says of the attempts up to n which wrappers run when that one does.
Wraps(tries, n, F) ==
  F = [a \in 0..n |-> IF a = 0 THEN {} ELSE {a} \cup F[tries[a].orig]]

\* The recursion of Chain has a solution, for a wrapper wraps earlier ones: the
\* least n without one could be given one.
LEMMA WrapsExist ==
  ASSUME NEW tries \in Seq(AttemptType),
         \A a \in 1..Len(tries) : tries[a].orig < a
  PROVE  \E F : Wraps(tries, Len(tries), F)
<1> DEFINE Bad == {n \in 0..Len(tries) : ~\E F : Wraps(tries, n, F)}
<1>0. Len(tries) \in Nat
  OBVIOUS
<1>1. SUFFICES ASSUME Bad # {} PROVE FALSE
  BY <1>0
<1>2. Bad \in SUBSET Nat
  BY <1>0
<1>3. PICK m \in Bad : \A n \in Bad : <<n, m>> \notin OpToRel(<, Nat)
  BY <1>1, <1>2, NatLessThanWellFounded, WFMin
<1>4. \A n \in Bad : ~(n < m)
  BY <1>2, <1>3 DEF OpToRel
<1>5. m \in 0..Len(tries) /\ ~\E F : Wraps(tries, m, F)
  OBVIOUS
<1>6. CASE m = 0
  <2> DEFINE F == [a \in 0..0 |-> {}]
  <2>1. Wraps(tries, 0, F)
    BY DEF Wraps
  <2> QED
    BY <1>5, <1>6, <2>1
<1>7. CASE m # 0
  <2>1. m - 1 \in 0..Len(tries) /\ m - 1 < m
    BY <1>0, <1>5, <1>7
  <2>2. PICK G : Wraps(tries, m - 1, G)
    BY <1>4, <2>1
  <2> DEFINE F == [a \in 0..m |-> IF a = m THEN {m} \cup G[tries[m].orig] ELSE G[a]]
  <2>3. ASSUME NEW a \in 0..m
        PROVE  F[a] = IF a = 0 THEN {} ELSE {a} \cup F[tries[a].orig]
    <3>1. CASE a = 0
      BY <1>7, <2>1, <2>2, <3>1 DEF Wraps
    <3>2. CASE a # 0
      <4>0. a \in 1..Len(tries)
        BY <1>0, <1>5, <2>3, <3>2
      <4>1. tries[a].orig \in Nat /\ tries[a].orig < a
        <5>1. tries[a] \in AttemptType
          BY <4>0
        <5> QED
          BY <4>0, <5>1 DEF AttemptType
      <4>2. tries[a].orig \in 0..(m - 1)
        BY <2>1, <2>3, <4>0, <4>1
      <4>3. F[tries[a].orig] = G[tries[a].orig]
        BY <2>1, <4>2
      <4>4. CASE a = m
        BY <3>2, <4>3, <4>4
      <4>5. CASE a # m
        <5>1. a \in 0..(m - 1)
          BY <2>1, <2>3, <4>5
        <5>2. G[a] = {a} \cup G[tries[a].orig]
          BY <2>2, <3>2, <5>1 DEF Wraps
        <5> QED
          BY <3>2, <4>3, <4>5, <5>2
      <4> QED
        BY <4>4, <4>5
    <3> QED
      BY <3>1, <3>2
  <2>4. Wraps(tries, m, F)
    <3>1. F = [a \in 0..m |-> F[a]]
      OBVIOUS
    <3> HIDE DEF F
    <3> QED
      BY <2>3, <3>1 DEF Wraps
  <2> QED
    BY <1>5, <2>4
<1> QED
  BY <1>6, <1>7

\* The handler of the constructor wraps nothing.
LEMMA NoChain ==
  ASSUME NEW c, IsClient(c), AttemptsOK(c), c.hook = 0
  PROVE  Chain(c) = {}
<1> DEFINE F == CHOOSE F : Wraps(c.attempts, Len(c.attempts), F)
<1>1. Wraps(c.attempts, Len(c.attempts), F)
  BY WrapsExist DEF AttemptsOK, AttemptsBut, IsClient
<1>2. Chain(c) = F[0]
  BY DEF Chain, Wraps
<1> HIDE DEF F
<1>3. 0 \in 0..Len(c.attempts)
  BY DEF IsClient
<1> QED
  BY <1>1, <1>2, <1>3 DEF Wraps

\* The wrappers send the requests of the calls that waited for them.
LEMMA RunHooksDoes ==
  ASSUME NEW c, IsClient(c), AttemptsOK(c)
  PROVE  LET d == RunHooks(c) IN
         /\ IsClient(d) /\ AttemptsOK(d) /\ SameUser(c, d) /\ SameLink(c, d)
         /\ \A s \in Slots :
              \/ d.flows[s] = c.flows[s]
              \/ c.flows[s].pc = "connect" /\ Moved(c.flows[s], d.flows[s], "sent")
         /\ Len(d.attempts) = Len(c.attempts)
<1> DEFINE chain == Chain(c)
           waiting == {s \in In(c, {"connect"}) : c.flows[s].at \in chain}
           e == MoveTo(c, waiting, "sent")
           tries == [a \in DOMAIN c.attempts |->
                       [c.attempts[a] EXCEPT !.live = @ /\ a \notin chain]]
           hook == IF e.hook = 0 THEN 0 ELSE c.attempts[e.hook].orig
           current == IF c.hook = 0 THEN e.current ELSE 0
           d == [e EXCEPT !.attempts = tries, !.current = current, !.hook = hook]
<1>0. Len(c.attempts) \in Nat /\ c.attempts \in [1..Len(c.attempts) -> AttemptType]
  BY DEF IsClient
<1>1. c.hook = 0 => chain = {}
  BY NoChain
<1>2. \A s \in Slots : s \in waiting <=> c.flows[s].pc = "connect" /\ c.flows[s].at \in chain
  BY DEF In
<1>3. /\ IsClient(e) /\ SameUser(c, e) /\ SameLink(c, e) /\ SameTries(c, e)
      /\ \A s \in Slots : e.flows[s] = IF s \in waiting THEN [c.flows[s] EXCEPT !.pc = "sent"]
                                       ELSE c.flows[s]
  BY MoveToDoes DEF Pcs
<1>4. RunHooks(c) = d
  BY DEF RunHooks
<1> HIDE DEF waiting
<1> HIDE DEF e, chain
<1>5. /\ DOMAIN tries = 1..Len(c.attempts)
      /\ \A a \in 1..Len(c.attempts) : /\ tries[a] \in AttemptType
                                       /\ tries[a].orig = c.attempts[a].orig
                                       /\ tries[a].live <=> c.attempts[a].live /\ a \notin chain
  BY <1>0 DEF AttemptType
<1>6. tries \in Seq(AttemptType) /\ Len(tries) = Len(c.attempts)
  <2>1. tries \in [1..Len(c.attempts) -> AttemptType]
    BY <1>5
  <2> HIDE DEF tries
  <2> QED
    BY <1>0, <2>1
<1> HIDE DEF tries
<1>7. hook \in Nat /\ hook <= Len(c.attempts)
  <2>0. e.hook = c.hook
    BY <1>3 DEF SameTries
  <2>1. CASE c.hook = 0
    BY <1>0, <2>0, <2>1
  <2>2. CASE c.hook # 0
    <3>1. c.hook \in 1..Len(c.attempts)
      BY <2>2 DEF AttemptsOK, AttemptsBut, IsClient
    <3>2. c.attempts[c.hook].orig \in Nat /\ c.attempts[c.hook].orig < c.hook
      BY <1>0, <3>1 DEF AttemptsOK, AttemptsBut, AttemptType
    <3> QED
      BY <1>0, <2>0, <2>2, <3>1, <3>2
  <2> QED
    BY <2>1, <2>2
<1>8. /\ current \in Nat /\ current <= Len(c.attempts)
      /\ current # 0 => c.hook = 0 /\ current = c.current
  BY <1>0, <1>3 DEF AttemptsOK, AttemptsBut, IsClient, SameTries
<1> HIDE DEF hook, current
<1>9. /\ IsClient(d) /\ SameUser(c, d) /\ SameLink(c, d) /\ d.flows = e.flows
      /\ d.attempts = tries /\ d.hook = hook /\ d.current = current
  <2>1. IsClient(d)
    BY <1>3, <1>6, <1>7, <1>8 DEF IsClient
  <2>2. /\ d.flows = e.flows /\ d.attempts = tries /\ d.hook = hook /\ d.current = current
        /\ SameUser(e, d) /\ SameLink(e, d)
    BY <1>3 DEF IsClient, SameUser, SameLink
  <2> QED
    BY <1>3, <2>1, <2>2 DEF SameUser, SameLink
<1> HIDE DEF d
<1>10. \A s \in Slots :
         \/ d.flows[s] = c.flows[s] /\ s \notin waiting
         \/ /\ s \in waiting /\ d.flows[s].at = c.flows[s].at
            /\ Moved(c.flows[s], d.flows[s], "sent")
  <2> SUFFICES ASSUME NEW s \in Slots
               PROVE  \/ d.flows[s] = c.flows[s] /\ s \notin waiting
                      \/ /\ s \in waiting /\ d.flows[s].at = c.flows[s].at
                         /\ Moved(c.flows[s], d.flows[s], "sent")
    OBVIOUS
  <2>1. c.flows[s] \in Flow /\ "sent" \in Pcs
    BY DEF IsClient, Pcs
  <2>2. d.flows[s] = IF s \in waiting THEN [c.flows[s] EXCEPT !.pc = "sent"] ELSE c.flows[s]
    BY <1>3, <1>9
  <2> QED
    BY <2>1, <2>2, MovedFlow
<1>11. AttemptsOK(d)
  <2>1. \A a \in 1..Len(tries) : tries[a].orig < a
    BY <1>5, <1>6 DEF AttemptsOK, AttemptsBut
  <2>2. current # 0 => tries[current].live
    <3> SUFFICES ASSUME current # 0 PROVE tries[current].live
      OBVIOUS
    <3>1. current \in 1..Len(c.attempts) /\ current \notin chain /\ c.attempts[current].live
      BY <1>0, <1>1, <1>8 DEF AttemptsOK, AttemptsBut
    <3> QED
      BY <1>5, <3>1
  <2>3. \A s \in Slots : d.flows[s].at <= Len(c.attempts)
    BY <1>10 DEF AttemptsOK, AttemptsBut
  <2>4. ASSUME NEW s \in Slots, d.flows[s].pc = "connect"
        PROVE  d.flows[s].at # 0 /\ tries[d.flows[s].at].live
    <3>1. d.flows[s] = c.flows[s] /\ s \notin waiting
      BY <1>10, <2>4 DEF Moved
    <3>2. c.flows[s].at # 0 /\ c.attempts[c.flows[s].at].live /\ c.flows[s].at \notin chain
      BY <1>2, <2>4, <3>1 DEF AttemptsOK, AttemptsBut, In
    <3>3. c.flows[s].at \in 1..Len(c.attempts)
      BY <1>0, <3>2 DEF AttemptsOK, AttemptsBut, IsClient, Flow
    <3> QED
      BY <1>5, <3>1, <3>2, <3>3
  <2> QED
    BY <1>6, <1>7, <1>8, <1>9, <2>1, <2>2, <2>3, <2>4 DEF AttemptsOK, AttemptsBut, In
<1> QED
  BY <1>2, <1>4, <1>6, <1>9, <1>10, <1>11

\* Opened: the handlers run, and a session that is remembered is authenticated.
LEMMA OpenedDoes ==
  ASSUME NEW c, Sound(c), c.socket = "connecting", HasFree(c)
  PROVE  LET d == Opened(c) IN
         /\ IsClient(d) /\ AttemptsOK(d) /\ SameUser(c, d)
         /\ d.socket = "open" /\ ~d.timer /\ d.shown = "connected"
         /\ Len(d.attempts) = Len(c.attempts)
         /\ c.flows[Free(c)].op = "none" /\ c.flows[Free(c)].pc = "idle" /\ Free(c) \in Slots
         /\ \A s \in Slots :
              \/ d.flows[s] = c.flows[s] /\ (Recalls(c) => s # Free(c))
              \/ /\ c.flows[s].pc = "connect" /\ s # Free(c)
                 /\ Moved(c.flows[s], d.flows[s], "sent")
              \/ /\ Recalls(c) /\ s = Free(c)
                 /\ d.flows[s] = NewFlow("reauth", "sent", c.stored)
<1> DEFINE o == [c EXCEPT !.socket = "open", !.shown = "connected"]
           f == Free(c)
           b == IF Recalls(c) THEN Begin(o, "reauth", "sent", c.stored) ELSE o
<1>1. f \in Slots /\ c.flows[f].pc = "idle" /\ c.flows[f].op = "none"
  BY FreeIsIdle DEF Sound, FlowsOK, FlowOK
<1>2. /\ IsClient(o) /\ SameUser(c, o) /\ SameTries(c, o) /\ o.flows = c.flows
      /\ o.socket = "open" /\ o.timer = c.timer /\ o.shown = "connected"
  BY DEF Sound, IsClient, SameUser, SameTries
<1>3. Free(o) = f /\ Recalls(o) = Recalls(c)
  BY <1>2 DEF Free, In, Recalls, SameUser
<1>4. Opened(c) = RunHooks(b)
  BY DEF Opened
<1>5. ~c.timer
  BY DEF Sound, LinkOK
<1> HIDE DEF o
<1>6. NewFlow("reauth", "sent", c.stored).pc = "sent"
  BY NewFlowIs DEF Sound, IsClient, Ops, Pcs
<1>7. /\ IsClient(b) /\ SameUser(c, b) /\ SameTries(c, b)
      /\ b.socket = "open" /\ ~b.timer /\ b.shown = "connected"
      /\ \A s \in Slots : b.flows[s] = IF Recalls(c) /\ s = f
                                       THEN NewFlow("reauth", "sent", c.stored) ELSE c.flows[s]
  <2>1. CASE Recalls(c)
    <3>1. c.stored \in 0..MaxLogins /\ "reauth" \in Ops /\ "sent" \in Pcs
      BY DEF Sound, IsClient, Ops, Pcs
    <3> QED
      BY <1>2, <1>3, <1>5, <2>1, <3>1, BeginDoes DEF SameUser, SameTries, SameLink
  <2>2. CASE ~Recalls(c)
    BY <1>2, <1>5, <2>2
  <2> QED
    BY <2>1, <2>2
<1> HIDE DEF b
<1>8. AttemptsOK(b)
  <2>1. \A s \in Slots : b.flows[s].at <= Len(c.attempts)
    <3>1. NewFlow("reauth", "sent", c.stored).at = 0
      BY NewFlowIs DEF Sound, IsClient, Ops, Pcs
    <3>2. 0 <= Len(c.attempts)
      BY DEF Sound, IsClient
    <3> QED
      BY <1>7, <3>1, <3>2 DEF Sound, AttemptsOK, AttemptsBut
  <2>2. \A s \in In(b, {"connect"}) : s \in In(c, {"connect"}) /\ b.flows[s] = c.flows[s]
    BY <1>6, <1>7 DEF In
  <2> QED
    BY <1>7, <2>1, <2>2 DEF Sound, AttemptsOK, AttemptsBut, SameTries
<1>9. LET d == RunHooks(b) IN
      /\ IsClient(d) /\ AttemptsOK(d) /\ SameUser(b, d) /\ SameLink(b, d)
      /\ \A s \in Slots :
           \/ d.flows[s] = b.flows[s]
           \/ b.flows[s].pc = "connect" /\ Moved(b.flows[s], d.flows[s], "sent")
      /\ Len(d.attempts) = Len(b.attempts)
  BY <1>7, <1>8, RunHooksDoes
<1> QED
  BY <1>1, <1>4, <1>6, <1>7, <1>9 DEF SameUser, SameLink, SameTries

\* A connection that opens keeps everything, and serves the user who is remembered.
LEMMA OpenedKeeps ==
  ASSUME NEW c, Sound(c), c.socket = "connecting", HasFree(c)
  PROVE  LET d == Opened(c) IN
         /\ Sound(d)
         /\ \A n \in Nat : Counted(c, n) => Counted(d, n)
         /\ Clean(c) /\ ~Exposes(d) => Clean(d) /\ \A online : Served(d, online)
<1> DEFINE d == Opened(c)
           f == Free(c)
           g == NewFlow("reauth", "sent", c.stored)
<1>1. /\ IsClient(d) /\ AttemptsOK(d) /\ SameUser(c, d)
      /\ d.socket = "open" /\ ~d.timer /\ d.shown = "connected"
      /\ Len(d.attempts) = Len(c.attempts)
      /\ c.flows[f].op = "none" /\ c.flows[f].pc = "idle" /\ f \in Slots
      /\ \A s \in Slots :
           \/ d.flows[s] = c.flows[s] /\ (Recalls(c) => s # f)
           \/ c.flows[s].pc = "connect" /\ s # f /\ Moved(c.flows[s], d.flows[s], "sent")
           \/ Recalls(c) /\ s = f /\ d.flows[s] = g
  BY OpenedDoes
<1>2. g.op = "reauth" /\ g.pc = "sent" /\ g.token = c.stored /\ ~g.latest
  BY NewFlowIs DEF Sound, IsClient, Ops, Pcs
<1> HIDE DEF d, g, f
<1>3. \A s \in Slots :
        \/ d.flows[s] = c.flows[s] /\ (Recalls(c) => s # f)
        \/ /\ c.flows[s].pc = "connect" /\ d.flows[s].pc = "sent" /\ s # f
           /\ d.flows[s].op = c.flows[s].op /\ d.flows[s].token = c.flows[s].token
           /\ d.flows[s].latest = c.flows[s].latest
        \/ /\ Recalls(c) /\ s = f /\ d.flows[s].op = "reauth" /\ d.flows[s].pc = "sent"
           /\ d.flows[s].token = c.stored /\ ~d.flows[s].latest
  BY <1>1, <1>2 DEF Moved
<1>4. In(c, {"sent", "revoke"}) = {}
  BY DEF Sound, LinkOK
<1>5. FlowsOK(d)
  BY <1>3 DEF Sound, FlowsOK, FlowOK
<1>6. LinkOK(d)
  BY <1>1 DEF LinkOK
<1>7. /\ In(d, {"revoke"}) = {} /\ Starting(d) = Starting(c)
      /\ In(d, {"create", "init"}) = In(c, {"create", "init"})
      /\ In(d, {"init"}) = In(c, {"init"})
      /\ In(d, {"cleanup"}) = In(c, {"cleanup"})
      /\ In(d, {"connect"}) \subseteq In(c, {"connect"})
  BY <1>1, <1>3, <1>4 DEF In, Starting
<1>8. /\ Running(c, "reauth") \subseteq Running(d, "reauth")
      /\ Running(d, "kick") = Running(c, "kick")
      /\ In(d, {"connect"}) \cap Running(d, "reauth")
           \subseteq In(c, {"connect"}) \cap Running(c, "reauth")
  BY <1>1, <1>3 DEF In, Running
<1>9. c.uid = 0 => /\ Restorers(d) = Restorers(c) /\ In(d, {"idle"}) = In(c, {"idle"})
  BY <1>1, <1>3, <1>4 DEF Recalls, Restorers, In, Running
<1>10. UserOK(d)
  BY <1>1, <1>7, <1>8, <1>9 DEF Sound, UserOK, SameUser
<1>11. Sound(d)
  BY <1>1, <1>5, <1>6, <1>10 DEF Sound
<1>12. \A n \in Nat : Counted(c, n) => Counted(d, n)
  BY <1>1, <1>7 DEF Counted
<1>13. ASSUME Clean(c), ~Exposes(d) PROVE Clean(d) /\ \A online : Served(d, online)
  <2>1. c.uid # 0 => c.stored = c.uid /\ Recalls(c)
    BY <1>4, <1>13 DEF Clean, Agreed, Sound, UserOK, In, Recalls
  <2>2. \A s \in Restorers(d) : d.flows[s].token = d.uid \/ d.uid = 0
    BY <1>1, <1>3, <1>13, <2>1 DEF Clean, Whole, WholeBut, Restorers, In, Running, SameUser
  <2>3. \A s \in Slots : s \in In(d, {"create", "init"}) => d.flows[s] = c.flows[s]
    BY <1>3 DEF In
  <2>4. /\ In(d, {"create", "init"}) \subseteq Slots
        /\ In(d, {"init"}) \subseteq In(d, {"create", "init"})
    BY DEF In
  <2>5. Recalls(c) => In(d, {"sent"}) \cap Running(d, "reauth") # {}
    BY <1>1, <1>3 DEF In, Running
  <2>6. Clean(d)
    BY <1>1, <1>7, <1>8, <1>9, <1>13, <2>1, <2>2, <2>3, <2>4
    DEF Clean, Whole, WholeBut, Agreed, SameUser
  <2>7. \A online : Served(d, online)
    BY <1>1, <2>1, <2>5 DEF Served, SameUser
  <2> QED
    BY <2>6, <2>7
<1> QED
  BY <1>11, <1>12, <1>13 DEF d

-----------------------------------------------------------------------------
(* Signing out *)

\* SignedOut: no user, no gateway, no request.
LEMMA SignedOutDoes ==
  ASSUME NEW c, IsClient(c), NEW S \in SUBSET Slots, AttemptsBut(c, S)
  PROVE  LET d == SignedOut(c, S)
             rejected == In(c, {"sent", "revoke"})
             over == S \cup rejected IN
         /\ IsClient(d) /\ AttemptsOK(d)
         /\ d.token = 0 /\ d.uid = 0 /\ d.state = "idle"
         /\ d.gateway = 0 /\ ~d.kicked /\ ~d.timer
         /\ \/ d.socket = "none" /\ d.shown = "disconnected"
            \/ d.socket = "connecting" /\ d.shown = "connecting"
         /\ d.stored = IF rejected \cap Running(c, "reauth") # {} THEN 0 ELSE c.stored
         /\ d.view = IF over \cap (Running(c, "logout") \cup Running(c, "reauth")) # {}
                     THEN "auth" ELSE c.view
         /\ \A s \in Slots :
              IF s \in over THEN d.flows[s] = NoFlow
              ELSE IF c.flows[s].pc = "cleanup" THEN Moved(c.flows[s], d.flows[s], "connect")
              ELSE d.flows[s] = c.flows[s]
         /\ Len(d.attempts) <= Len(c.attempts) + 1
         /\ In(c, {"cleanup"}) = {} => Len(d.attempts) = Len(c.attempts)
<1> DEFINE rejected == In(c, {"sent", "revoke"})
           over == S \cup rejected
           stored == IF rejected \cap Running(c, "reauth") # {} THEN 0 ELSE c.stored
           view == IF over \cap (Running(c, "logout") \cup Running(c, "reauth")) # {}
                   THEN "auth" ELSE c.view
           bare == WithoutGateway(c)
           e == End(bare, over)
           out == [e EXCEPT
                     !.socket = "none", !.timer = FALSE, !.shown = "disconnected",
                     !.token = 0, !.uid = 0, !.state = "idle",
                     !.stored = stored, !.view = view]
           late == In(out, {"cleanup"})
<1>0. SignedOut(c, S) = EnsureConnected(out, late)
  <2>1. /\ e.stored = c.stored /\ e.view = c.view
    BY DEF End, WithoutGateway, IsClient
  <2> QED
    BY <2>1 DEF SignedOut
<1>1. /\ IsClient(bare) /\ SameTries(c, bare) /\ bare.flows = c.flows
      /\ bare.gateway = 0 /\ ~bare.kicked /\ bare.stored = c.stored /\ bare.view = c.view
  <2>1. 0 \in 0..MaxLogins
    BY SessionAssumption
  <2>2. IsClient(bare)
    BY <2>1 DEF WithoutGateway, IsClient
  <2> QED
    BY <2>2 DEF WithoutGateway, IsClient, SameTries
<1> HIDE DEF bare
<1>2. /\ IsClient(e) /\ SameTries(c, e) /\ e.gateway = 0 /\ ~e.kicked
      /\ \A s \in Slots : e.flows[s] = IF s \in over THEN NoFlow ELSE c.flows[s]
  BY <1>1, EndDoes DEF SameUser, SameTries
<1> HIDE DEF e
<1>3. stored \in 0..MaxLogins /\ view \in {"start", "auth", "app"} /\ 0 \in 0..MaxLogins
  BY SessionAssumption DEF IsClient
<1> HIDE DEF over, rejected, stored, view
<1>4. /\ IsClient(out) /\ out.flows = e.flows /\ SameTries(e, out)
      /\ out.socket = "none" /\ ~out.timer /\ out.shown = "disconnected"
      /\ out.token = 0 /\ out.uid = 0 /\ out.state = "idle"
      /\ out.gateway = 0 /\ ~out.kicked /\ out.stored = stored /\ out.view = view
  <2>1. IsClient(out)
    BY <1>2, <1>3, ZenonT(60) DEF IsClient
  <2> QED
    BY <1>2, <2>1 DEF IsClient, SameTries
<1> HIDE DEF out
<1>5. NoFlow.pc = "idle" /\ NoFlow.at = 0
  BY DEF NoFlow
<1>6. AttemptsOK(out)
  <2>1. Len(c.attempts) \in Nat
    BY DEF IsClient
  <2>2. \A s \in Slots : out.flows[s].at <= Len(c.attempts)
    BY <1>2, <1>4, <1>5, <2>1 DEF AttemptsBut
  <2>3. \A s \in In(out, {"connect"}) : s \in In(c, {"connect"}) \ S /\ out.flows[s] = c.flows[s]
    BY <1>2, <1>4, <1>5 DEF In, over
  <2> QED
    BY <1>2, <1>4, <2>2, <2>3 DEF AttemptsBut, AttemptsOK, SameTries
<1>7. LET d == EnsureConnected(out, late) IN
      /\ IsClient(d) /\ AttemptsOK(d) /\ SameUser(out, d)
      /\ \/ SameLink(out, d)
         \/ d.socket = "connecting" /\ ~d.timer /\ d.shown = "connecting"
      /\ \A s \in Slots : IF s \in late THEN Moved(out.flows[s], d.flows[s], "connect")
                          ELSE d.flows[s] = out.flows[s]
      /\ Len(d.attempts) <= Len(out.attempts) + 1
      /\ late = {} => d = out
  <2> HIDE DEF late
  <2>1. AttemptsBut(out, late)
    BY <1>6 DEF AttemptsOK, AttemptsBut
  <2> QED
    BY <1>4, <2>1, EnsureConnectedDoes
<1>8. \A s \in Slots : s \in late <=> s \notin over /\ c.flows[s].pc = "cleanup"
  BY <1>2, <1>4, <1>5 DEF In
<1>9. In(c, {"cleanup"}) = {} => late = {}
  BY <1>8 DEF In
<1> HIDE DEF late
<1> DEFINE d == SignedOut(c, S)
<1>10. \A s \in Slots :
         IF s \in over THEN d.flows[s] = NoFlow
         ELSE IF c.flows[s].pc = "cleanup" THEN Moved(c.flows[s], d.flows[s], "connect")
         ELSE d.flows[s] = c.flows[s]
  BY <1>0, <1>2, <1>4, <1>7, <1>8
<1>11. /\ Len(d.attempts) <= Len(c.attempts) + 1
       /\ In(c, {"cleanup"}) = {} => Len(d.attempts) = Len(c.attempts)
  BY <1>0, <1>2, <1>4, <1>7, <1>9 DEF SameTries
<1>12. /\ IsClient(d) /\ AttemptsOK(d)
       /\ d.token = 0 /\ d.uid = 0 /\ d.state = "idle"
       /\ d.gateway = 0 /\ ~d.kicked /\ ~d.timer
       /\ \/ d.socket = "none" /\ d.shown = "disconnected"
          \/ d.socket = "connecting" /\ d.shown = "connecting"
       /\ d.stored = stored /\ d.view = view
  BY <1>0, <1>4, <1>7 DEF SameUser, SameLink
<1> QED
  BY <1>10, <1>11, <1>12 DEF over, rejected, stored, view

\* What holds of a client that signs out the calls S.
Leaving(c, S) ==
  /\ IsClient(c) /\ FlowsOK(c) /\ S \subseteq Slots /\ AttemptsBut(c, S)
  /\ In(c, {"connect"}) \cap Running(c, "reauth") \subseteq S
  /\ c.view = "start" => Running(c, "reauth") # {}
  /\ mode = "instant" => c.state \in {"idle", "ready"} /\ Starting(c) = {}

\* Signing out is sound at any time, and leaves nothing behind unless a session is
\* being started.
LEMMA SignedOutKeeps ==
  ASSUME NEW c, NEW S, Leaving(c, S)
  PROVE  LET d == SignedOut(c, S) IN
         /\ Sound(d)
         /\ \A n \in Nat : Counted(c, n) => Counted(d, n)
         /\ ~Exposes(d) /\ d.stored = 0 /\ d.view # "app" => Clean(d)
         /\ \A online : Served(d, online)
<1> DEFINE d == SignedOut(c, S)
           rejected == In(c, {"sent", "revoke"})
           over == S \cup rejected
<1>1. /\ IsClient(d) /\ AttemptsOK(d)
      /\ d.token = 0 /\ d.uid = 0 /\ d.state = "idle"
      /\ d.gateway = 0 /\ ~d.kicked /\ ~d.timer
      /\ \/ d.socket = "none" /\ d.shown = "disconnected"
         \/ d.socket = "connecting" /\ d.shown = "connecting"
      /\ d.view = IF over \cap (Running(c, "logout") \cup Running(c, "reauth")) # {}
                  THEN "auth" ELSE c.view
      /\ \A s \in Slots :
           IF s \in over THEN d.flows[s] = NoFlow
           ELSE IF c.flows[s].pc = "cleanup" THEN Moved(c.flows[s], d.flows[s], "connect")
           ELSE d.flows[s] = c.flows[s]
      /\ Len(d.attempts) <= Len(c.attempts) + 1
      /\ In(c, {"cleanup"}) = {} => Len(d.attempts) = Len(c.attempts)
  BY SignedOutDoes DEF Leaving
<1> HIDE DEF d
<1>2. NoFlow.op = "none" /\ NoFlow.pc = "idle" /\ ~NoFlow.latest
  BY DEF NoFlow
<1>3. \A s \in Slots :
        /\ FlowOK(c.flows[s])
        /\ c.flows[s].pc \in {"sent", "revoke"} => s \in over
        /\ c.flows[s].op = "reauth" /\ c.flows[s].pc = "connect" => s \in over
  BY DEF Leaving, FlowsOK, In, Running
<1> HIDE DEF over
<1>4. \A s \in Slots :
        \/ s \in over /\ d.flows[s] = NoFlow
        \/ /\ s \notin over /\ c.flows[s].pc = "cleanup" /\ c.flows[s].op = "login"
           /\ d.flows[s].pc = "connect" /\ d.flows[s].op = "login"
           /\ d.flows[s].latest = c.flows[s].latest
        \/ s \notin over /\ c.flows[s].pc # "cleanup" /\ d.flows[s] = c.flows[s]
  <2> SUFFICES ASSUME NEW s \in Slots
               PROVE  \/ s \in over /\ d.flows[s] = NoFlow
                      \/ /\ s \notin over /\ c.flows[s].pc = "cleanup" /\ c.flows[s].op = "login"
                         /\ d.flows[s].pc = "connect" /\ d.flows[s].op = "login"
                         /\ d.flows[s].latest = c.flows[s].latest
                      \/ s \notin over /\ c.flows[s].pc # "cleanup" /\ d.flows[s] = c.flows[s]
    OBVIOUS
  <2>1. c.flows[s].op \in Ops
    BY DEF Leaving, IsClient, Flow
  <2> QED
    BY <1>1, <1>3, <2>1 DEF Moved, FlowOK, Ops
<1>5. FlowsOK(d)
  BY <1>2, <1>3, <1>4 DEF FlowsOK, FlowOK, Leaving
<1>6. In(d, {"sent", "revoke"}) = {} /\ In(d, {"cleanup"}) = {}
  BY <1>2, <1>3, <1>4 DEF In
<1>7. LinkOK(d)
  BY <1>1, <1>6 DEF LinkOK
<1>8. Restorers(d) = {}
  BY <1>2, <1>3, <1>4 DEF Restorers, In, Running
<1>9. Starting(d) \subseteq Starting(c)
  BY <1>2, <1>4 DEF Starting, In
<1>10. d.view = "start" => Running(d, "reauth") # {}
  <2>1. d.view = "start" => c.view = "start" /\ over \cap Running(c, "reauth") = {}
    BY <1>1
  <2> QED
    BY <1>4, <2>1 DEF Leaving, Running
<1>11. In(d, {"revoke"}) = {}
  BY <1>6 DEF In
<1>12. UserOK(d)
  BY <1>1, <1>8, <1>9, <1>10, <1>11 DEF UserOK, Leaving
<1>13. Sound(d)
  BY <1>1, <1>5, <1>7, <1>12 DEF Sound
<1>14. ASSUME NEW n \in Nat, Counted(c, n) PROVE Counted(d, n)
  <2>1. Len(c.attempts) \in Nat /\ Len(d.attempts) \in Nat
    BY <1>1 DEF Leaving, IsClient
  <2>2. CASE In(c, {"cleanup"}) = {}
    BY <1>1, <1>6, <1>14, <2>1, <2>2 DEF Counted
  <2>3. CASE In(c, {"cleanup"}) # {}
    <3>1. Len(c.attempts) + 1 <= 1 + n
      BY <1>14, <2>3 DEF Counted
    <3>2. Len(d.attempts) + 0 <= 1 + n
      BY <1>1, <2>1, <3>1
    <3> QED
      BY <1>6, <3>2 DEF Counted
  <2> QED
    BY <2>2, <2>3
<1>15. ASSUME ~Exposes(d), d.stored = 0, d.view # "app" PROVE Clean(d)
  <2>1. Starting(d) = {}
    BY <1>1, <1>15 DEF Exposes, SignedOutInStart, Starting
  <2>2. In(d, {"create", "init"}) = {} /\ In(d, {"init"}) = {}
    BY <2>1 DEF Starting, In
  <2>3. Running(d, "kick") = {}
    BY <1>5, <1>11 DEF FlowsOK, FlowOK, Running, In
  <2> QED
    BY <1>1, <1>8, <1>11, <1>15, <2>2, <2>3 DEF Clean, Whole, WholeBut, Agreed
<1>16. \A online : Served(d, online)
  BY <1>1 DEF Served
<1> QED
  BY <1>13, <1>14, <1>15, <1>16 DEF d

\* The calls S ask the server to revoke the token, as in LogOut.
Revoke(c, S) ==
  [MoveTo(c, S, "revoke") EXCEPT
     !.flows = [s \in Slots |-> IF s \in S THEN [@[s] EXCEPT !.token = c.token] ELSE @[s]]]

\* They wait for its answer.
LEMMA RevokeDoes ==
  ASSUME NEW c, NEW S \in SUBSET Slots, IsClient(c), AttemptsBut(c, S)
  PROVE  LET d == Revoke(c, S) IN
         /\ IsClient(d) /\ AttemptsOK(d)
         /\ SameUser(c, d) /\ SameLink(c, d) /\ SameTries(c, d)
         /\ \A s \in Slots :
              IF s \in S THEN /\ d.flows[s].op = c.flows[s].op /\ d.flows[s].pc = "revoke"
                              /\ d.flows[s].latest = c.flows[s].latest
              ELSE d.flows[s] = c.flows[s]
<1> DEFINE e == MoveTo(c, S, "revoke")
           f == [s \in Slots |-> IF s \in S THEN [e.flows[s] EXCEPT !.token = c.token]
                                 ELSE e.flows[s]]
           d == [e EXCEPT !.flows = f]
<1>1. /\ IsClient(e) /\ SameUser(c, e) /\ SameLink(c, e) /\ SameTries(c, e)
      /\ \A s \in Slots : e.flows[s] = IF s \in S THEN [c.flows[s] EXCEPT !.pc = "revoke"]
                                       ELSE c.flows[s]
  BY MoveToDoes DEF Pcs
<1>2. d = [e EXCEPT !.flows = [s \in Slots |-> IF s \in S THEN [@[s] EXCEPT !.token = c.token]
                                               ELSE @[s]]]
  BY <1>1 DEF IsClient
<1> HIDE DEF e
<1>3. f \in [Slots -> Flow]
  BY <1>1, ZenonT(60) DEF IsClient, Flow
<1>4. \A s \in Slots :
        IF s \in S THEN /\ f[s].op = c.flows[s].op /\ f[s].pc = "revoke"
                        /\ f[s].latest = c.flows[s].latest /\ f[s].at = c.flows[s].at
        ELSE f[s] = c.flows[s]
  <2>1. /\ c.token \in 0..MaxLogins
        /\ \A s \in Slots : c.flows[s] \in Flow /\ e.flows[s] \in Flow
    BY <1>1 DEF IsClient
  <2>2. \A s \in Slots : f[s] = IF s \in S THEN [e.flows[s] EXCEPT !.token = c.token]
                               ELSE c.flows[s]
    BY <1>1
  <2> HIDE DEF f
  <2>3. \A s \in S : /\ e.flows[s].op = c.flows[s].op /\ e.flows[s].pc = "revoke"
                     /\ e.flows[s].latest = c.flows[s].latest /\ e.flows[s].at = c.flows[s].at
    BY <1>1, <2>1 DEF Flow
  <2> QED
    BY <2>1, <2>2, <2>3, ZenonT(60) DEF Flow
<1> HIDE DEF f
<1>5. /\ IsClient(d) /\ SameUser(e, d) /\ SameLink(e, d) /\ SameTries(e, d)
      /\ d.flows = f
  BY <1>1, <1>3, NewFlows
<1>6. SameUser(c, d) /\ SameLink(c, d) /\ SameTries(c, d)
  BY <1>1, <1>5 DEF SameUser, SameLink, SameTries
<1> HIDE DEF d
<1>7. AttemptsOK(d)
  <2>1. \A s \in Slots : d.flows[s].at <= Len(c.attempts)
    BY <1>4, <1>5 DEF AttemptsBut
  <2>2. \A s \in In(d, {"connect"}) : d.flows[s].at # 0 /\ c.attempts[d.flows[s].at].live
    BY <1>4, <1>5 DEF AttemptsBut, In
  <2> QED
    BY <1>6, <2>1, <2>2 DEF AttemptsOK, AttemptsBut, SameTries
<1>8. Revoke(c, S) = d
  BY <1>2 DEF e, Revoke
<1> QED
  BY <1>4, <1>5, <1>6, <1>7, <1>8

\* Logging out is sound, and leaves a user only while the server is asked.
LEMMA LogOutKeeps ==
  ASSUME NEW c, NEW S, Leaving(c, S), S # {},
         S \subseteq Running(c, "logout") \cup Running(c, "kick") \cup Running(c, "reauth"),
         c.socket = "open" /\ c.token # 0 => LinkOK(c) /\ UserOK(c),
         c.stored = 0
  PROVE  LET d == LogOut(c, S) IN
         /\ Sound(d)
         /\ \A n \in Nat : Counted(c, n) => Counted(d, n)
         /\ /\ ~Exposes(d) /\ WholeBut(c, S)
            /\ c.view # "app" \/ S \cap (Running(c, "logout") \cup Running(c, "reauth")) # {}
            => Clean(d) /\ \A online : Served(d, online)
<1> DEFINE d == LogOut(c, S)
<1>1. CASE ~(c.socket = "open" /\ c.token # 0)
  <2>1. d = SignedOut(c, S)
    BY <1>1 DEF LogOut
  <2> HIDE DEF d
  <2>2. /\ Sound(d)
        /\ \A n \in Nat : Counted(c, n) => Counted(d, n)
        /\ ~Exposes(d) /\ d.stored = 0 /\ d.view # "app" => Clean(d)
        /\ \A online : Served(d, online)
    BY <2>1, SignedOutKeeps
  <2>3. /\ d.stored = IF In(c, {"sent", "revoke"}) \cap Running(c, "reauth") # {} THEN 0
                      ELSE c.stored
        /\ d.view = IF (S \cup In(c, {"sent", "revoke"}))
                         \cap (Running(c, "logout") \cup Running(c, "reauth")) # {}
                    THEN "auth" ELSE c.view
    BY <2>1, SignedOutDoes DEF Leaving
  <2>4. /\ d.stored = 0
        /\ c.view # "app" \/ S \cap (Running(c, "logout") \cup Running(c, "reauth")) # {}
             => d.view # "app"
    BY <2>3
  <2> QED
    BY <2>2, <2>4 DEF d
<1>2. CASE c.socket = "open" /\ c.token # 0
  <2>1. d = Revoke(c, S)
    BY <1>2 DEF LogOut, Revoke
  <2> HIDE DEF d
  <2>2. /\ IsClient(d) /\ AttemptsOK(d)
        /\ SameUser(c, d) /\ SameLink(c, d) /\ SameTries(c, d)
        /\ \A s \in Slots :
             IF s \in S THEN /\ d.flows[s].op = c.flows[s].op /\ d.flows[s].pc = "revoke"
                             /\ d.flows[s].latest = c.flows[s].latest
             ELSE d.flows[s] = c.flows[s]
    <3>1. S \in SUBSET Slots /\ IsClient(c) /\ AttemptsBut(c, S)
      BY DEF Leaving
    <3> QED
      BY <2>1, <3>1, RevokeDoes
  <2>3. \A s \in Slots : FlowOK(c.flows[s])
    BY DEF Leaving, FlowsOK
  <2>4. \A s \in S : s \in Slots /\ c.flows[s].op \in {"logout", "kick", "reauth"}
    BY DEF Running, Leaving
  <2>5. FlowsOK(d)
    BY <2>2, <2>4 DEF FlowsOK, FlowOK, Leaving
  <2>6. \A pcs : "revoke" \notin pcs => In(d, pcs) = In(c, pcs) \ S
    BY <2>2, <2>4 DEF In
  <2>7. \A op : Running(d, op) = Running(c, op)
    BY <2>2 DEF Running
  <2>8. S \subseteq In(d, {"revoke"})
    BY <2>2, <2>4 DEF In
  <2>9. /\ c.token = c.uid /\ c.uid # 0 /\ LinkOK(c) /\ UserOK(c)
    BY <1>2 DEF UserOK
  <2>10. LinkOK(d)
    BY <1>2, <2>2, <2>9 DEF LinkOK, SameLink, SameUser
  <2>11. Starting(d) \subseteq Starting(c) /\ Restorers(d) \subseteq Restorers(c)
    BY <2>6, <2>7 DEF Starting, Restorers, In
  <2>12. UserOK(d)
    <3>1. In(d, {"connect"}) \subseteq In(c, {"connect"})
      BY <2>6
    <3> QED
      BY <2>2, <2>7, <2>9, <2>11, <3>1 DEF UserOK, SameUser
  <2>13. Sound(d)
    BY <2>2, <2>5, <2>10, <2>12 DEF Sound
  <2>14. ASSUME NEW n \in Nat, Counted(c, n) PROVE Counted(d, n)
    <3>1. In(d, {"cleanup"}) = In(c, {"cleanup"}) \ S
      BY <2>6
    <3>2. In(c, {"cleanup"}) \ S = In(c, {"cleanup"})
      BY <2>3, <2>4 DEF In, FlowOK
    <3> QED
      BY <2>2, <2>14, <3>1, <3>2 DEF Counted, SameTries
  <2>15. ASSUME ~Exposes(d), WholeBut(c, S) PROVE Clean(d) /\ \A online : Served(d, online)
    <3>1. Starting(d) = {}
      BY <2>8, <2>15 DEF Exposes, SignedOutInStart, Starting
    <3>2. In(d, {"create", "init"}) = {} /\ In(d, {"init"}) = {}
      BY <3>1 DEF Starting, In
    <3>3. \A s \in Restorers(d) : d.flows[s].token = d.uid \/ d.uid = 0
      <4>1. \A s \in Restorers(d) : s \in Slots /\ s \notin S
        BY <2>2 DEF Restorers, In
      <4> QED
        BY <2>2, <2>11, <2>15, <4>1 DEF Whole, WholeBut, SameUser
    <3>4. Clean(d)
      BY <2>2, <2>7, <2>8, <2>9, <2>15, <3>2, <3>3 DEF Clean, Whole, WholeBut, Agreed, SameUser
    <3> QED
      BY <2>8, <3>4 DEF Served
  <2> QED
    BY <2>13, <2>14, <2>15 DEF d
<1> QED
  BY <1>1, <1>2

\* A failure ends a login; the session of a re-authentication is signed out.
LEMMA FailKeeps ==
  ASSUME NEW c, NEW S \in SUBSET Slots, IsClient(c), FlowsOK(c), AttemptsBut(c, S),
         LinkOK(c), UserOK(c), S \cap In(c, {"revoke"}) = {},
         \A s \in S : c.flows[s].op # "none"
  PROVE  LET d == Fail(c, S) IN
         /\ Sound(d)
         /\ \A n \in Nat : Counted(c, n) => Counted(d, n)
         /\ ~Exposes(d) /\ WholeBut(c, S) /\ Agreed(c)
            => Clean(d) /\ \A online : Served(c, online) => Served(d, online)
<1> DEFINE again == S \cap Running(c, "reauth")
           e == End(c, S \ again)
           d == Fail(c, S)
<1>1. /\ IsClient(e) /\ SameUser(c, e) /\ SameLink(c, e) /\ SameTries(c, e)
      /\ \A s \in Slots : e.flows[s] = IF s \in S \ again THEN NoFlow ELSE c.flows[s]
  BY EndDoes
<1>2. d = IF again = {} THEN e ELSE LogOut([e EXCEPT !.stored = 0], again)
  BY DEF Fail
<1>3. NoFlow.op = "none" /\ NoFlow.pc = "idle" /\ ~NoFlow.latest /\ NoFlow.at = 0
  BY DEF NoFlow
<1>4. \A s \in Slots : s \in again <=> s \in S /\ c.flows[s].op = "reauth"
  BY DEF Running
<1> HIDE DEF e, d, again
<1>5. FlowsOK(e)
  BY <1>1, <1>3 DEF FlowsOK, FlowOK
<1>6. AttemptsBut(e, again)
  <2>1. Len(c.attempts) \in Nat
    BY DEF IsClient
  <2>2. \A s \in Slots : e.flows[s].at <= Len(c.attempts)
    BY <1>1, <1>3, <2>1 DEF AttemptsBut
  <2>3. \A s \in In(e, {"connect"}) \ again : s \in In(c, {"connect"}) \ S
                                              /\ e.flows[s] = c.flows[s]
    BY <1>1, <1>3 DEF In
  <2> QED
    BY <1>1, <2>2, <2>3 DEF AttemptsBut, SameTries
<1>7. /\ In(e, {"revoke"}) = In(c, {"revoke"})
      /\ \A pcs : "idle" \notin pcs => In(e, pcs) \subseteq In(c, pcs)
      /\ \A pcs : "idle" \notin pcs => In(e, pcs) \cap S \subseteq again
  BY <1>1, <1>3 DEF In
<1>8. Running(e, "reauth") = Running(c, "reauth") /\ Running(e, "kick") \subseteq Running(c, "kick")
  BY <1>1, <1>3, <1>4 DEF Running
<1>9. Starting(e) \subseteq Starting(c) /\ Restorers(e) = Restorers(c)
  BY <1>1, <1>3, <1>4, <1>7 DEF Starting, Restorers, In, Running
<1>10. c.uid = 0 => \A s \in Restorers(e) : In(e, {"idle"}) = Slots \ {s}
  <2> SUFFICES ASSUME c.uid = 0, NEW s \in Restorers(c) PROVE In(e, {"idle"}) = Slots \ {s}
    BY <1>9
  <2>1. In(c, {"idle"}) = Slots \ {s} /\ s \in Slots /\ c.flows[s].op = "reauth"
    BY DEF UserOK, Restorers, Running
  <2> QED
    BY <1>1, <1>3, <1>4, <2>1 DEF In
<1>11. UserOK(e)
  BY <1>1, <1>7, <1>8, <1>9, <1>10 DEF UserOK, SameUser
<1>12. LinkOK(e)
  BY <1>1, <1>7 DEF LinkOK, SameLink, SameUser
<1>13. ASSUME NEW n \in Nat, Counted(c, n) PROVE Counted(e, n)
  <2>1. Len(c.attempts) \in Nat /\ e.attempts = c.attempts
    BY <1>1 DEF IsClient, SameTries
  <2>2. In(e, {"cleanup"}) \subseteq In(c, {"cleanup"})
    BY <1>7
  <2>3. CASE In(c, {"cleanup"}) = {}
    BY <1>13, <2>1, <2>2, <2>3 DEF Counted
  <2>4. CASE In(c, {"cleanup"}) # {}
    <3>1. Len(c.attempts) + 1 <= 1 + n
      BY <1>13, <2>4 DEF Counted
    <3>2. Len(e.attempts) + 0 <= 1 + n /\ Len(e.attempts) + 1 <= 1 + n
      BY <2>1, <3>1
    <3> QED
      BY <3>2 DEF Counted
  <2> QED
    BY <2>3, <2>4
<1>14. ASSUME WholeBut(c, S) PROVE WholeBut(e, again)
  <2>1. \A s \in Slots : s \notin S => e.flows[s] = c.flows[s]
    BY <1>1
  <2>2. /\ In(e, {"create", "init"}) \ again \subseteq In(c, {"create", "init"}) \ S
        /\ In(e, {"init"}) \ again \subseteq In(c, {"init"}) \ S
        /\ In(c, {"create", "init"}) \subseteq Slots /\ In(c, {"init"}) \subseteq Slots
        /\ Restorers(e) \ again \subseteq Restorers(c) \ S /\ Restorers(c) \subseteq Slots
    <3>1. \A s \in Restorers(c) : s \in Slots /\ c.flows[s].op = "reauth"
      BY DEF Restorers, Running
    <3>2. In(c, {"create", "init"}) \subseteq Slots /\ In(c, {"init"}) \subseteq Slots
      BY DEF In
    <3> QED
      BY <1>4, <1>7, <1>9, <3>1, <3>2
  <2> QED
    BY <1>1, <1>8, <1>14, <2>1, <2>2 DEF WholeBut, SameUser
<1>15. CASE again = {}
  <2>1. d = e
    BY <1>2, <1>15
  <2>2. AttemptsOK(e)
    BY <1>6, <1>15 DEF AttemptsBut, AttemptsOK
  <2>3. Sound(d)
    BY <1>1, <1>5, <1>11, <1>12, <2>1, <2>2 DEF Sound
  <2>4. Agreed(c) => Agreed(e)
    BY <1>1, <1>7, <1>9 DEF Agreed, SameUser
  <2>5. WholeBut(c, S) => Whole(e)
    BY <1>14, <1>15 DEF Whole
  <2>6. \A online : Served(c, online) => Served(e, online)
    <3>1. In(e, {"sent"}) \cap Running(e, "reauth") = In(c, {"sent"}) \cap Running(c, "reauth")
      BY <1>1, <1>3, <1>4, <1>15 DEF In, Running
    <3> QED
      BY <1>1, <1>7, <3>1 DEF Served, SameUser, SameLink
  <2> QED
    BY <1>13, <2>1, <2>3, <2>4, <2>5, <2>6 DEF Clean, d
<1>16. CASE again # {}
  <2> DEFINE f == [e EXCEPT !.stored = 0]
  <2>1. d = LogOut(f, again)
    BY <1>2, <1>16
  <2>2. /\ IsClient(f) /\ SameLink(e, f) /\ SameTries(e, f) /\ f.flows = e.flows
        /\ f.token = e.token /\ f.uid = e.uid /\ f.state = e.state /\ f.gateway = e.gateway
        /\ f.kicked = e.kicked /\ f.view = e.view /\ f.stored = 0
    <3>1. 0 \in 0..MaxLogins
      BY SessionAssumption
    <3> QED
      BY <1>1, <3>1 DEF IsClient, SameLink, SameTries
  <2> HIDE DEF f
  <2>3. /\ \A pcs : In(f, pcs) = In(e, pcs)
        /\ \A op : Running(f, op) = Running(e, op)
        /\ Starting(f) = Starting(e) /\ Restorers(f) = Restorers(e)
    BY <2>2 DEF In, Running, Starting, Restorers
  <2>4. LinkOK(f) /\ UserOK(f) /\ FlowsOK(f) /\ AttemptsBut(f, again)
    <3>1. LinkOK(f)
      BY <1>12, <2>2, <2>3 DEF LinkOK, SameLink
    <3>2. UserOK(f)
      BY <1>11, <2>2, <2>3 DEF UserOK
    <3>3. FlowsOK(f) /\ AttemptsBut(f, again)
      BY <1>5, <1>6, <2>2, <2>3 DEF FlowsOK, AttemptsBut, SameTries
    <3> QED
      BY <3>1, <3>2, <3>3
  <2>5. again \subseteq Slots /\ again \subseteq Running(f, "reauth")
    BY <1>8, <2>3 DEF again
  <2>6. In(f, {"connect"}) \cap Running(f, "reauth") \subseteq again
    <3> SUFFICES ASSUME NEW s \in In(c, {"connect"}) \cap Running(c, "reauth") PROVE s \in again
      BY <1>7, <1>8, <2>3
    <3>1. s \in Restorers(c)
      BY DEF Restorers, In
    <3>2. In(c, {"idle"}) = Slots \ {s}
      BY <3>1 DEF UserOK
    <3>3. PICK t \in again : t \in Slots /\ c.flows[t].op = "reauth"
      BY <1>4, <1>16, <2>5
    <3>4. c.flows[t].pc # "idle"
      BY <3>3 DEF FlowsOK, FlowOK
    <3> QED
      BY <3>2, <3>3, <3>4 DEF In
  <2>7. Leaving(f, again)
    BY <2>2, <2>4, <2>5, <2>6 DEF Leaving, UserOK
  <2>8. /\ Sound(d)
        /\ \A n \in Nat : Counted(f, n) => Counted(d, n)
        /\ ~Exposes(d) /\ WholeBut(f, again) => Clean(d) /\ \A online : Served(d, online)
    <3>1. again \cap (Running(f, "logout") \cup Running(f, "reauth")) # {}
      BY <1>16, <2>5
    <3>2. again \subseteq Running(f, "logout") \cup Running(f, "kick") \cup Running(f, "reauth")
      BY <2>5
    <3> HIDE DEF d
    <3> QED
      BY <1>16, <2>1, <2>2, <2>4, <2>7, <3>1, <3>2, LogOutKeeps
  <2>9. \A n \in Nat : Counted(e, n) => Counted(f, n)
    BY <2>2, <2>3 DEF Counted, SameTries
  <2>10. WholeBut(e, again) => WholeBut(f, again)
    BY <2>2, <2>3 DEF WholeBut
  <2> QED
    BY <1>13, <1>14, <2>8, <2>9, <2>10 DEF d
<1> QED
  BY <1>15, <1>16

-----------------------------------------------------------------------------
(* Steps of the client *)

\* A step from c to d that needs no word from the server.
Keeps(c, d) ==
  /\ Sound(d)
  /\ \A n \in Nat : Counted(c, n) => Counted(d, n)
  /\ Clean(c) /\ ~Exposes(d) =>
       Clean(d) /\ \A online : Served(c, online) => Served(d, online)

\* A re-authentication that waits to connect has no user yet, and is alone.
LEMMA RestoringAlone ==
  ASSUME NEW c, Sound(c), NEW r \in In(c, {"connect"}) \cap Running(c, "reauth")
  PROVE  c.uid = 0 /\ c.view = "start" /\ ~c.kicked /\ In(c, {"idle"}) = Slots \ {r}
<1>1. c.uid = 0
  BY DEF Sound, UserOK
<1>2. r \in Restorers(c)
  BY DEF Restorers, In
<1> QED
  BY <1>1, <1>2 DEF Sound, UserOK

\* The timer of an attempt fails the calls that wait on it.
LEMMA GiveUpKeeps ==
  ASSUME NEW c, Sound(c), NEW a \in 1..Len(c.attempts)
  PROVE  Keeps(c, GiveUp(c, a))
<1> DEFINE tries == [c.attempts EXCEPT ![a].live = FALSE]
           hook == c.attempts[a].orig
           e == [c EXCEPT !.attempts[a].live = FALSE, !.hook = c.attempts[a].orig, !.current = 0]
           S == {s \in In(e, {"connect"}) : e.flows[s].at = a}
           d == GiveUp(c, a)
<1>1. /\ Len(c.attempts) \in Nat /\ c.attempts \in [1..Len(c.attempts) -> AttemptType]
      /\ c.attempts[a] \in AttemptType /\ IsClient(c) /\ hook \in Nat
      /\ hook < a /\ hook <= Len(c.attempts)
  <2>1. /\ Len(c.attempts) \in Nat /\ c.attempts \in [1..Len(c.attempts) -> AttemptType]
        /\ c.attempts[a] \in AttemptType /\ IsClient(c)
    BY DEF Sound, IsClient
  <2>2. hook \in Nat /\ hook < a
    BY <2>1 DEF Sound, AttemptsOK, AttemptsBut, AttemptType
  <2> QED
    BY <2>1, <2>2
<1>2. /\ tries \in Seq(AttemptType) /\ Len(tries) = Len(c.attempts)
      /\ \A b \in 1..Len(c.attempts) : /\ tries[b].orig = c.attempts[b].orig
                                       /\ b # a => tries[b] = c.attempts[b]
  <2>1. tries \in [1..Len(c.attempts) -> AttemptType]
    BY <1>1 DEF AttemptType
  <2>2. \A b \in 1..Len(c.attempts) : /\ tries[b].orig = c.attempts[b].orig
                                      /\ b # a => tries[b] = c.attempts[b]
    BY <1>1 DEF AttemptType
  <2> HIDE DEF tries
  <2> QED
    BY <1>1, <2>1, <2>2
<1>3. /\ IsClient(e) /\ SameUser(c, e) /\ SameLink(c, e) /\ e.flows = c.flows
      /\ e.attempts = tries /\ e.hook = hook /\ e.current = 0
  <2>1. e = [c EXCEPT !.attempts = tries, !.hook = hook, !.current = 0]
    BY <1>1 DEF IsClient
  <2> HIDE DEF e, tries, hook
  <2>2. IsClient(e)
    BY <1>1, <1>2, <2>1 DEF IsClient
  <2> QED
    BY <1>1, <2>1, <2>2 DEF IsClient, SameUser, SameLink
<1>4. d = Fail(e, {s \in In(c, {"connect"}) : c.flows[s].at = a})
  BY DEF GiveUp
<1> HIDE DEF e, tries, hook, d
<1>5. /\ \A pcs : In(e, pcs) = In(c, pcs)
      /\ \A op : Running(e, op) = Running(c, op)
      /\ Starting(e) = Starting(c) /\ Restorers(e) = Restorers(c)
  BY <1>3 DEF In, Running, Starting, Restorers
<1>6. d = Fail(e, S) /\ S \in SUBSET Slots /\ S \cap In(e, {"revoke"}) = {}
  BY <1>3, <1>4, <1>5 DEF In
<1>7. AttemptsBut(e, S)
  <2>1. \A s \in In(c, {"connect"}) \ S : /\ c.flows[s].at # a /\ c.flows[s].at # 0
                                          /\ c.flows[s].at \in 1..Len(c.attempts)
                                          /\ c.attempts[c.flows[s].at].live
    BY <1>1, <1>3, <1>5 DEF Sound, AttemptsOK, AttemptsBut, In, IsClient, Flow
  <2>2. \A s \in In(e, {"connect"}) \ S : e.flows[s].at # 0 /\ e.attempts[e.flows[s].at].live
    BY <1>2, <1>3, <1>5, <2>1
  <2>3. \A b \in 1..Len(tries) : tries[b].orig < b
    BY <1>2 DEF Sound, AttemptsOK, AttemptsBut
  <2>4. 0 <= Len(tries) /\ hook <= Len(tries)
    BY <1>1, <1>2
  <2> HIDE DEF S
  <2> QED
    BY <1>2, <1>3, <2>2, <2>3, <2>4 DEF Sound, AttemptsOK, AttemptsBut
<1>8. FlowsOK(e) /\ LinkOK(e) /\ UserOK(e)
  <2>1. FlowsOK(e)
    BY <1>3 DEF FlowsOK, Sound
  <2>2. LinkOK(e)
    BY <1>3, <1>5 DEF LinkOK, Sound, SameLink, SameUser
  <2>3. UserOK(e)
    BY <1>3, <1>5 DEF UserOK, Sound, SameUser
  <2> QED
    BY <2>1, <2>2, <2>3
<1>9. \A s \in S : e.flows[s].op # "none"
  BY <1>8 DEF FlowsOK, FlowOK, In
<1> HIDE DEF S
<1>10. /\ Sound(d)
       /\ \A n \in Nat : Counted(e, n) => Counted(d, n)
       /\ ~Exposes(d) /\ WholeBut(e, S) /\ Agreed(e)
          => Clean(d) /\ \A online : Served(e, online) => Served(d, online)
  BY <1>3, <1>6, <1>7, <1>8, <1>9, FailKeeps
<1>11. \A n \in Nat : Counted(c, n) => Counted(e, n)
  BY <1>2, <1>3, <1>5 DEF Counted
<1>12. Clean(c) => WholeBut(e, S) /\ Agreed(e)
  <2>1. Whole(c) => WholeBut(e, S)
    BY <1>3, <1>5 DEF Whole, WholeBut, SameUser
  <2>2. Agreed(c) => Agreed(e)
    BY <1>3, <1>5 DEF Agreed, SameUser
  <2> QED
    BY <2>1, <2>2 DEF Clean
<1>13. \A online : Served(c, online) => Served(e, online)
  BY <1>3, <1>5 DEF Served, SameUser, SameLink
<1> QED
  BY <1>10, <1>11, <1>12, <1>13 DEF Keeps, d

\* Predicates on a client's calls look at its flows only.
LEMMA SameFlows ==
  ASSUME NEW c, NEW d, \A s \in Slots : d.flows[s] = c.flows[s]
  PROVE  /\ \A pcs : In(d, pcs) = In(c, pcs)
         /\ \A op : Running(d, op) = Running(c, op)
         /\ Starting(d) = Starting(c) /\ Restorers(d) = Restorers(c)
         /\ d.token = c.token => (Exposes(d) <=> Exposes(c))
<1>1. /\ \A pcs : In(d, pcs) = In(c, pcs)
      /\ \A op : Running(d, op) = Running(c, op)
  BY DEF In, Running
<1>2. Starting(d) = Starting(c) /\ Restorers(d) = Restorers(c)
  BY <1>1 DEF Starting, Restorers
<1>3. StartsForAnother(d) <=> StartsForAnother(c)
  BY <1>1 DEF StartsForAnother, In
<1>4. d.token = c.token => (Exposes(d) <=> Exposes(c))
  BY <1>1, <1>3 DEF Exposes, SignedOutInStart, AnswerAfterSignOut, LoginOverSession
<1> QED
  BY <1>1, <1>2, <1>4

\* A lost connection ends logins, and signs out when another call was under way.
LEMMA DropKeeps ==
  ASSUME NEW c, Sound(c), c.socket \in {"connecting", "open"}
  PROVE  Keeps(c, Drop(c))
<1> DEFINE b == [c EXCEPT !.current = 0, !.shown = "disconnected",
                          !.socket = IF c.token = 0 THEN "none" ELSE "closed",
                          !.timer = c.token # 0]
           rejected == In(c, {"sent", "revoke"})
           d == Drop(c)
<1>1. /\ IsClient(b) /\ SameUser(c, b) /\ b.flows = c.flows
      /\ b.attempts = c.attempts /\ b.hook = c.hook /\ b.current = 0
      /\ b.shown = "disconnected" /\ b.socket \in {"none", "closed"}
      /\ b.timer => b.socket = "closed" /\ c.token # 0
  BY DEF Sound, IsClient, SameUser
<1>2. d = IF rejected \subseteq Running(c, "login") THEN End(b, rejected) ELSE SignedOut(b, {})
  <2>1. rejected \subseteq Running(b, "login") <=> rejected \subseteq Running(c, "login")
    BY <1>1 DEF Running
  <2> QED
    BY <2>1 DEF Drop, In, Running
<1> HIDE DEF b, d
<1>3. rejected \in SUBSET Slots
  BY DEF In
<1>4. /\ FlowsOK(c) /\ LinkOK(c) /\ UserOK(c) /\ IsClient(c) /\ AttemptsOK(c)
  BY DEF Sound
<1>5. /\ \A pcs : In(b, pcs) = In(c, pcs)
      /\ \A op : Running(b, op) = Running(c, op)
      /\ Starting(b) = Starting(c)
  BY <1>1, SameFlows
<1>6. CASE rejected \subseteq Running(c, "login")
  <2> DEFINE e == Fail(c, rejected)
  <2>1. rejected \cap Running(c, "reauth") = {} /\ rejected \cap In(c, {"revoke"}) = {}
        /\ \A s \in rejected : c.flows[s].op # "none"
    BY <1>4, <1>6 DEF Running, In, FlowsOK, FlowOK
  <2>2. e = End(c, rejected)
    BY <2>1 DEF Fail
  <2>3. /\ IsClient(d) /\ SameUser(b, d) /\ SameLink(b, d) /\ SameTries(b, d)
        /\ \A s \in Slots : d.flows[s] = IF s \in rejected THEN NoFlow ELSE c.flows[s]
    BY <1>1, <1>2, <1>6, EndDoes
  <2>4. /\ IsClient(e) /\ SameUser(c, e) /\ SameTries(c, e)
        /\ \A s \in Slots : e.flows[s] = IF s \in rejected THEN NoFlow ELSE c.flows[s]
    BY <1>4, <2>2, EndDoes
  <2>5. AttemptsBut(c, rejected)
    BY <1>4 DEF AttemptsOK, AttemptsBut
  <2> HIDE DEF rejected
  <2>6. /\ Sound(e)
        /\ \A n \in Nat : Counted(c, n) => Counted(e, n)
        /\ ~Exposes(e) /\ WholeBut(c, rejected) /\ Agreed(c) => Clean(e)
    BY <1>3, <1>4, <2>1, <2>5, FailKeeps
  <2> HIDE DEF e
  <2>7. SameUser(e, d) /\ \A s \in Slots : d.flows[s] = e.flows[s]
    BY <1>1, <2>3, <2>4 DEF SameUser
  <2>8. /\ \A pcs : In(d, pcs) = In(e, pcs)
        /\ \A op : Running(d, op) = Running(e, op)
        /\ Starting(d) = Starting(e) /\ Restorers(d) = Restorers(e)
        /\ Exposes(d) <=> Exposes(e)
    BY <2>7, SameFlows DEF SameUser
  <2>9. FlowsOK(d)
    BY <2>6, <2>7 DEF Sound, FlowsOK
  <2>10. AttemptsOK(d)
    <3>1. d.attempts = e.attempts /\ d.hook = e.hook /\ d.current = 0 /\ 0 <= Len(e.attempts)
      BY <1>1, <2>3, <2>4, SMTT(30) DEF SameTries, IsClient
    <3> QED
      BY <2>6, <2>7, <2>8, <3>1 DEF Sound, AttemptsOK, AttemptsBut, In
  <2>11. LinkOK(d)
    <3>1. In(d, {"sent", "revoke"}) = {}
      BY <2>3 DEF In, rejected, NoFlow
    <3> QED
      BY <1>1, <2>3, <3>1 DEF LinkOK, SameLink, SameUser
  <2>12. UserOK(d)
    BY <2>6, <2>7, <2>8 DEF Sound, UserOK, SameUser
  <2>13. Sound(d)
    BY <2>3, <2>9, <2>10, <2>11, <2>12 DEF Sound
  <2>14. \A n \in Nat : Counted(c, n) => Counted(d, n)
    BY <1>1, <2>3, <2>4, <2>6, <2>8 DEF Counted, SameTries
  <2>15. ASSUME Clean(c), ~Exposes(d) PROVE Clean(d)
    <3>1. WholeBut(c, rejected) /\ Agreed(c)
      BY <2>15 DEF Clean, Whole, WholeBut
    <3>2. Clean(e)
      BY <2>6, <2>8, <2>15, <3>1
    <3>3. Whole(d)
      <4>1. Restorers(e) \subseteq Slots /\ \A pcs : In(e, pcs) \subseteq Slots
        BY DEF Restorers, In
      <4> QED
        BY <2>7, <2>8, <3>2, <4>1 DEF Clean, Whole, WholeBut, SameUser
    <3>4. Agreed(d)
      BY <2>7, <2>8, <3>2 DEF Clean, Agreed, SameUser
    <3> QED
      BY <2>15, <3>3, <3>4 DEF Clean
  <2>16. d.socket # "open"
    BY <1>1, <2>3 DEF SameLink
  <2> QED
    BY <2>13, <2>14, <2>15, <2>16 DEF Keeps, Served, d
<1>7. CASE ~(rejected \subseteq Running(c, "login"))
  <2>1. PICK r \in rejected : r \in Slots /\ c.flows[r].op # "login"
    BY <1>3, <1>7 DEF Running
  <2>2. In(c, {"connect"}) \cap Running(c, "reauth") = {}
    <3> SUFFICES ASSUME NEW s \in In(c, {"connect"}) \cap Running(c, "reauth") PROVE FALSE
      OBVIOUS
    <3> QED
      BY <2>1, RestoringAlone DEF In
  <2>3. AttemptsBut(b, {})
    <3>1. 0 <= Len(c.attempts)
      BY <1>4 DEF IsClient
    <3> QED
      BY <1>1, <1>4, <1>5, <3>1 DEF AttemptsOK, AttemptsBut
  <2>4. Leaving(b, {})
    BY <1>1, <1>4, <1>5, <2>2, <2>3 DEF Leaving, FlowsOK, UserOK, SameUser
  <2>5. d = SignedOut(b, {})
    BY <1>2, <1>7
  <2>6. /\ Sound(d)
        /\ \A n \in Nat : Counted(b, n) => Counted(d, n)
        /\ ~Exposes(d) /\ d.stored = 0 /\ d.view # "app" => Clean(d)
        /\ \A online : Served(d, online)
    BY <2>4, <2>5, SignedOutKeeps
  <2>7. \A n \in Nat : Counted(c, n) => Counted(b, n)
    BY <1>1, <1>5 DEF Counted
  <2>8. /\ d.stored = IF In(b, {"sent", "revoke"}) \cap Running(b, "reauth") # {} THEN 0
                      ELSE b.stored
        /\ d.view = IF ({} \cup In(b, {"sent", "revoke"}))
                         \cap (Running(b, "logout") \cup Running(b, "reauth")) # {}
                    THEN "auth" ELSE b.view
    BY <2>3, <2>5, <1>1, SignedOutDoes
  <2>9. ASSUME Clean(c) PROVE d.stored = 0 /\ d.view # "app"
    <3>1. c.flows[r].op \in {"reauth", "logout", "kick"} /\ c.flows[r].pc \in {"sent", "revoke"}
      <4>1. c.flows[r].op \in Ops /\ FlowOK(c.flows[r])
        BY <1>4, <2>1 DEF IsClient, Flow, FlowsOK
      <4> QED
        BY <2>1, <4>1 DEF Ops, FlowOK, In
    <3>2. CASE c.flows[r].op = "reauth"
      <4>1. r \in In(b, {"sent", "revoke"}) \cap Running(b, "reauth")
        BY <1>5, <2>1, <3>2 DEF Running
      <4> QED
        BY <2>8, <4>1
    <3>3. CASE c.flows[r].op \in {"logout", "kick"}
      <4>1. r \in In(c, {"revoke"})
        BY <1>4, <2>1, <3>3 DEF FlowsOK, FlowOK, In
      <4>2. c.stored = 0
        BY <2>9, <4>1 DEF Clean, Agreed
      <4>3. CASE c.flows[r].op = "logout"
        <5>1. r \in ({} \cup In(b, {"sent", "revoke"}))
                      \cap (Running(b, "logout") \cup Running(b, "reauth"))
          BY <1>5, <2>1, <4>3 DEF Running
        <5> QED
          BY <1>1, <2>8, <4>2, <5>1 DEF SameUser
      <4>4. CASE c.flows[r].op = "kick"
        <5>1. c.view = "auth"
          BY <2>1, <2>9, <4>4 DEF Clean, Whole, WholeBut, Running
        <5> QED
          BY <1>1, <2>8, <4>2, <5>1 DEF SameUser
      <4> QED
        BY <3>3, <4>3, <4>4
    <3> QED
      BY <3>1, <3>2, <3>3
  <2> QED
    BY <2>6, <2>7, <2>9 DEF Keeps, d
<1> QED
  BY <1>6, <1>7

\* Logging out by a call of its own, of the user or of the clean-up of a kick.
LEMMA SignOutKeeps ==
  ASSUME NEW e, Sound(e), HasFree(e), e.stored = 0, e.view # "start",
         NEW op \in {"logout", "kick"}
  PROVE  LET d == LogOut(Begin(e, op, "revoke", 0), {Free(e)}) IN
         /\ Sound(d)
         /\ \A n \in Nat : Counted(e, n) => Counted(d, n)
         /\ ~Exposes(d) /\ Whole(e) /\ (op = "kick" => e.view = "auth")
            => Clean(d) /\ \A online : Served(d, online)
<1> DEFINE f == Free(e)
           b == Begin(e, op, "revoke", 0)
           d == LogOut(b, {f})
<1>1. f \in Slots /\ e.flows[f].pc = "idle" /\ e.flows[f].op = "none"
  BY FreeIsIdle DEF Sound, FlowsOK, FlowOK
<1>2. op \in Ops /\ "revoke" \in Pcs /\ 0 \in 0..MaxLogins /\ op # "none" /\ op # "reauth"
  BY SessionAssumption DEF Ops, Pcs
<1>3. /\ IsClient(e) /\ FlowsOK(e) /\ AttemptsOK(e) /\ LinkOK(e) /\ UserOK(e)
  BY DEF Sound
<1>4. /\ IsClient(b) /\ SameUser(e, b) /\ SameLink(e, b) /\ SameTries(e, b)
      /\ \A s \in Slots : b.flows[s] = IF s = f THEN NewFlow(op, "revoke", 0) ELSE e.flows[s]
  BY <1>2, <1>3, BeginDoes
<1> DEFINE g == NewFlow(op, "revoke", 0)
<1>5. g.op = op /\ g.pc = "revoke" /\ g.at = 0 /\ ~g.latest
  BY <1>2, NewFlowIs
<1> HIDE DEF g, b, f, d
<1>6. \A s \in Slots : IF s = f THEN b.flows[s] = g ELSE b.flows[s] = e.flows[s]
  BY <1>4 DEF g
<1>7. /\ \A pcs : "revoke" \notin pcs /\ "idle" \notin pcs => In(b, pcs) = In(e, pcs)
      /\ Running(b, "reauth") = Running(e, "reauth") /\ f \in Running(b, op)
      /\ op # "kick" => Running(b, "kick") = Running(e, "kick")
  BY <1>1, <1>2, <1>5, <1>6 DEF In, Running
<1>8. Starting(b) = Starting(e) /\ Restorers(b) = Restorers(e)
  BY <1>7 DEF Starting, Restorers
<1>9. In(e, {"connect"}) \cap Running(e, "reauth") = {}
  BY RestoringAlone
<1>10. FlowsOK(b)
  BY <1>2, <1>3, <1>5, <1>6 DEF FlowsOK, FlowOK
<1>11. AttemptsOK(b)
  <2>1. 0 <= Len(e.attempts)
    BY <1>3 DEF IsClient
  <2>2. \A s \in Slots : b.flows[s].at <= Len(e.attempts)
    BY <1>3, <1>5, <1>6, <2>1 DEF AttemptsOK, AttemptsBut
  <2>3. \A s \in In(b, {"connect"}) : s \in In(e, {"connect"}) /\ b.flows[s] = e.flows[s]
    BY <1>5, <1>6 DEF In
  <2> QED
    BY <1>3, <1>4, <2>2, <2>3 DEF AttemptsOK, AttemptsBut, SameTries
<1>12. Leaving(b, {f})
  <2>1. AttemptsBut(b, {f})
    BY <1>11 DEF AttemptsOK, AttemptsBut
  <2> QED
    BY <1>1, <1>3, <1>4, <1>7, <1>8, <1>9, <1>10, <2>1 DEF Leaving, UserOK, SameUser
<1>13. b.socket = "open" /\ b.token # 0 => LinkOK(b) /\ UserOK(b)
  <2> SUFFICES ASSUME b.socket = "open", b.token # 0 PROVE LinkOK(b) /\ UserOK(b)
    OBVIOUS
  <2>1. LinkOK(b)
    BY <1>3, <1>4 DEF LinkOK, SameLink, SameUser
  <2>2. b.uid # 0
    BY <1>3, <1>4 DEF UserOK, SameUser
  <2> QED
    BY <1>3, <1>4, <1>7, <1>8, <1>9, <2>1, <2>2 DEF UserOK, SameUser
<1>14. /\ Sound(d)
       /\ \A n \in Nat : Counted(b, n) => Counted(d, n)
       /\ ~Exposes(d) /\ WholeBut(b, {f})
          /\ (b.view # "app" \/ {f} \cap (Running(b, "logout") \cup Running(b, "reauth")) # {})
          => Clean(d) /\ \A online : Served(d, online)
  <2>1. {f} \subseteq Running(b, "logout") \cup Running(b, "kick") \cup Running(b, "reauth")
    BY <1>7
  <2>2. b.stored = 0
    BY <1>4 DEF SameUser
  <2>3. d = LogOut(b, {f})
    BY DEF d
  <2> DEFINE S == {f}
  <2>4. S # {}
    OBVIOUS
  <2> HIDE DEF S
  <2>5. /\ Leaving(b, S) /\ S \subseteq Running(b, "logout") \cup Running(b, "kick")
                                            \cup Running(b, "reauth")
        /\ d = LogOut(b, S)
    BY <1>12, <2>1, <2>3 DEF S
  <2>6. /\ Sound(d)
        /\ \A n \in Nat : Counted(b, n) => Counted(d, n)
        /\ ~Exposes(d) /\ WholeBut(b, S)
           /\ (b.view # "app" \/ S \cap (Running(b, "logout") \cup Running(b, "reauth")) # {})
           => Clean(d) /\ \A online : Served(d, online)
    BY <1>13, <2>2, <2>4, <2>5, LogOutKeeps
  <2> QED
    BY <2>6 DEF S
<1>15. \A n \in Nat : Counted(e, n) => Counted(b, n)
  BY <1>4, <1>7 DEF Counted, SameTries
<1>16. Whole(e) /\ (op = "kick" => e.view = "auth") => WholeBut(b, {f})
  <2>1. \A s \in Slots : s \notin {f} => b.flows[s] = e.flows[s]
    BY <1>6
  <2>2. Restorers(e) \subseteq Slots /\ \A pcs : In(e, pcs) \subseteq Slots
    BY DEF Restorers, In
  <2>3. In(b, {"create", "init"}) = In(e, {"create", "init"}) /\ In(b, {"init"}) = In(e, {"init"})
    BY <1>7
  <2> QED
    BY <1>2, <1>4, <1>7, <1>8, <2>1, <2>2, <2>3 DEF Whole, WholeBut, SameUser
<1>17. b.view # "app" \/ {f} \cap (Running(b, "logout") \cup Running(b, "reauth")) # {}
       \/ (op = "kick" /\ e.view # "auth")
  BY <1>4, <1>7 DEF SameUser
<1> QED
  BY <1>14, <1>15, <1>16, <1>17 DEF d, f, b

\* The user logs out.
LEMMA LogoutKeeps ==
  ASSUME NEW c, Sound(c), HasFree(c), c.view = "app"
  PROVE  LET e == [c EXCEPT !.stored = 0] IN
         Keeps(c, LogOut(Begin(e, "logout", "revoke", 0), {Free(c)}))
<1> DEFINE e == [c EXCEPT !.stored = 0]
           d == LogOut(Begin(e, "logout", "revoke", 0), {Free(e)})
<1>1. /\ IsClient(e) /\ SameLink(c, e) /\ SameTries(c, e) /\ e.flows = c.flows
      /\ e.token = c.token /\ e.uid = c.uid /\ e.state = c.state /\ e.gateway = c.gateway
      /\ e.kicked = c.kicked /\ e.stored = 0 /\ e.view = c.view
  <2>1. 0 \in 0..MaxLogins
    BY SessionAssumption
  <2>2. IsClient(e)
    BY <2>1 DEF Sound, IsClient
  <2> QED
    BY <2>2 DEF Sound, IsClient, SameLink, SameTries
<1> HIDE DEF e
<1>2. /\ \A pcs : In(e, pcs) = In(c, pcs)
      /\ \A op : Running(e, op) = Running(c, op)
      /\ Starting(e) = Starting(c) /\ Restorers(e) = Restorers(c)
  BY <1>1, SameFlows
<1>3. Free(e) = Free(c) /\ HasFree(e)
  BY <1>2 DEF Free, HasFree
<1>4. Sound(e)
  <2>1. FlowsOK(e) /\ AttemptsOK(e)
    BY <1>1, <1>2 DEF Sound, FlowsOK, AttemptsOK, AttemptsBut, SameTries
  <2>2. LinkOK(e) /\ UserOK(e)
    BY <1>1, <1>2 DEF Sound, LinkOK, UserOK, SameLink
  <2> QED
    BY <1>1, <2>1, <2>2 DEF Sound
<1>5. /\ Sound(d)
      /\ \A n \in Nat : Counted(e, n) => Counted(d, n)
      /\ ~Exposes(d) /\ Whole(e) => Clean(d) /\ \A online : Served(d, online)
  BY <1>1, <1>3, <1>4, SignOutKeeps
<1>6. \A n \in Nat : Counted(c, n) => Counted(e, n)
  BY <1>1, <1>2 DEF Counted, SameTries
<1>7. Clean(c) => Whole(e)
  BY <1>1, <1>2 DEF Clean, Whole, WholeBut
<1> HIDE DEF d
<1>8. Keeps(c, d)
  BY <1>5, <1>6, <1>7 DEF Keeps
<1> QED
  BY <1>3, <1>8 DEF d, e

\* The clean-up of a kicked session signs it out, unless one is under way.
LEMMA KickKeeps ==
  ASSUME NEW c, Sound(c), HasFree(c), c.kicked
  PROVE  Keeps(c, KickHandled(c))
<1> DEFINE e == [c EXCEPT !.kicked = FALSE, !.stored = 0, !.view = "auth"]
           d == KickHandled(c)
<1>1. /\ IsClient(e) /\ SameLink(c, e) /\ SameTries(c, e) /\ e.flows = c.flows
      /\ e.token = c.token /\ e.uid = c.uid /\ e.state = c.state /\ e.gateway = c.gateway
      /\ ~e.kicked /\ e.stored = 0 /\ e.view = "auth"
  <2>1. 0 \in 0..MaxLogins
    BY SessionAssumption
  <2>2. IsClient(e)
    BY <2>1 DEF Sound, IsClient
  <2> QED
    BY <2>2 DEF Sound, IsClient, SameLink, SameTries
<1>2. d = IF Running(c, "kick") # {} THEN e ELSE LogOut(Begin(e, "kick", "revoke", 0), {Free(e)})
  BY DEF KickHandled
<1> HIDE DEF e, d
<1>3. /\ \A pcs : In(e, pcs) = In(c, pcs)
      /\ \A op : Running(e, op) = Running(c, op)
      /\ Starting(e) = Starting(c) /\ Restorers(e) = Restorers(c)
  BY <1>1, SameFlows
<1>4. HasFree(e)
  BY <1>3 DEF HasFree
<1>5. c.uid = 0 => Restorers(c) = {}
  BY DEF Sound, UserOK
<1>6. Sound(e)
  <2>1. FlowsOK(e) /\ AttemptsOK(e)
    BY <1>1, <1>3 DEF Sound, FlowsOK, AttemptsOK, AttemptsBut, SameTries
  <2>2. LinkOK(e) /\ UserOK(e)
    BY <1>1, <1>3, <1>5 DEF Sound, LinkOK, UserOK, SameLink
  <2> QED
    BY <1>1, <2>1, <2>2 DEF Sound
<1>7. \A n \in Nat : Counted(c, n) => Counted(e, n)
  BY <1>1, <1>3 DEF Counted, SameTries
<1>8. Clean(c) => Whole(e)
  BY <1>1, <1>3 DEF Clean, Whole, WholeBut
<1>9. CASE Running(c, "kick") # {}
  <2>1. d = e
    BY <1>2, <1>9
  <2>2. In(e, {"revoke"}) # {}
    BY <1>3, <1>9 DEF Sound, FlowsOK, FlowOK, In, Running
  <2>3. Agreed(e)
    BY <1>1, <2>2 DEF Agreed
  <2>4. \A online : Served(c, online) => Served(e, online)
    BY <2>2 DEF Served
  <2> QED
    BY <1>6, <1>7, <1>8, <2>1, <2>3, <2>4 DEF Keeps, Clean, d
<1>10. CASE Running(c, "kick") = {}
  <2>1. d = LogOut(Begin(e, "kick", "revoke", 0), {Free(e)})
    BY <1>2, <1>10
  <2>2. /\ Sound(d)
        /\ \A n \in Nat : Counted(e, n) => Counted(d, n)
        /\ ~Exposes(d) /\ Whole(e) => Clean(d) /\ \A online : Served(d, online)
    BY <1>1, <1>4, <1>6, <2>1, SignOutKeeps
  <2> QED
    BY <1>7, <1>8, <2>2 DEF Keeps, d
<1> QED
  BY <1>9, <1>10

\* The user logs in: the attempt it may make is paid for.
LEMMA LoginKeeps ==
  ASSUME NEW c, Sound(c), HasFree(c), c.view = "auth"
  PROVE  LET b == Begin(c, "login", "cleanup", 0)
             d == IF Running(c, "kick") # {} THEN b ELSE EnsureConnected(b, {Free(c)}) IN
         /\ Sound(d)
         /\ \A n \in Nat : Counted(c, n) => Counted(d, n + 1)
         /\ Clean(c) /\ ~Exposes(d) =>
              Clean(d) /\ \A online : Served(c, online) => Served(d, online)
<1> DEFINE f == Free(c)
           b == Begin(c, "login", "cleanup", 0)
           S == IF Running(c, "kick") # {} THEN {} ELSE {f}
           d == EnsureConnected(b, S)
           e == IF Running(c, "kick") # {} THEN b ELSE EnsureConnected(b, {f})
           pc == IF c.socket = "open" THEN "sent" ELSE "connect"
<1>0. e = d
  BY DEF EnsureConnected
<1>1. f \in Slots /\ c.flows[f].pc = "idle" /\ c.flows[f].op = "none"
  BY FreeIsIdle DEF Sound, FlowsOK, FlowOK
<1>2. "login" \in Ops /\ "cleanup" \in Pcs /\ 0 \in 0..MaxLogins
  BY SessionAssumption DEF Ops, Pcs
<1>3. /\ IsClient(c) /\ FlowsOK(c) /\ AttemptsOK(c) /\ LinkOK(c) /\ UserOK(c)
  BY DEF Sound
<1> DEFINE g == NewFlow("login", "cleanup", 0)
<1>4. /\ IsClient(b) /\ SameUser(c, b) /\ SameLink(c, b) /\ SameTries(c, b)
      /\ \A s \in Slots : b.flows[s] = IF s = f THEN g ELSE c.flows[s]
  BY <1>2, <1>3, BeginDoes
<1>5. g.op = "login" /\ g.pc = "cleanup" /\ g.at = 0 /\ ~g.latest
  BY <1>2, NewFlowIs
<1>6. S = {} \/ (S = {f} /\ f \in Slots)
  BY <1>1
<1> HIDE DEF g, b, f, S
<1>7. AttemptsBut(b, S)
  <2>1. 0 <= Len(c.attempts)
    BY <1>3 DEF IsClient
  <2>2. \A s \in Slots : b.flows[s].at <= Len(c.attempts)
    BY <1>3, <1>4, <1>5, <2>1 DEF AttemptsOK, AttemptsBut
  <2>3. \A s \in In(b, {"connect"}) : s \in In(c, {"connect"}) /\ b.flows[s] = c.flows[s]
    BY <1>4, <1>5 DEF In
  <2> QED
    BY <1>3, <1>4, <2>2, <2>3 DEF AttemptsOK, AttemptsBut, SameTries
<1>8. /\ IsClient(d) /\ AttemptsOK(d) /\ SameUser(b, d)
      /\ \/ SameLink(b, d)
         \/ b.socket # "open" /\ d.socket = "connecting" /\ ~d.timer /\ d.shown = "connecting"
      /\ \A s \in Slots :
           IF s \in S THEN Moved(b.flows[s], d.flows[s],
                                 IF b.socket = "open" THEN "sent" ELSE "connect")
           ELSE d.flows[s] = b.flows[s]
      /\ Len(d.attempts) <= Len(b.attempts) + 1
      /\ S = {} => d = b
  <2>1. b.timer => b.socket = "closed"
    BY <1>3, <1>4 DEF LinkOK, SameLink
  <2> QED
    BY <1>4, <1>7, <2>1, EnsureConnectedDoes
<1> HIDE DEF d
<1>9. \A s \in Slots :
        IF s = f
        THEN /\ d.flows[s].op = "login" /\ ~d.flows[s].latest
             /\ d.flows[s].pc = IF S = {} THEN "cleanup" ELSE pc
        ELSE d.flows[s] = c.flows[s]
  BY <1>4, <1>5, <1>6, <1>8 DEF Moved, SameLink
<1>10. pc \in {"sent", "connect"} /\ (pc = "sent" => c.socket = "open")
  OBVIOUS
<1> HIDE DEF pc
<1>11. FlowsOK(d)
  BY <1>3, <1>9, <1>10 DEF FlowsOK, FlowOK
<1>12. /\ In(d, {"revoke"}) = In(c, {"revoke"}) /\ Starting(d) = Starting(c)
       /\ In(d, {"create", "init"}) = In(c, {"create", "init"})
       /\ In(d, {"init"}) = In(c, {"init"})
       /\ \A op : op \notin {"none", "login"} => Running(d, op) = Running(c, op)
       /\ In(d, {"sent"}) \cap Running(d, "reauth") = In(c, {"sent"}) \cap Running(c, "reauth")
       /\ In(d, {"connect"}) \cap Running(d, "reauth")
            = In(c, {"connect"}) \cap Running(c, "reauth")
       /\ Restorers(d) = Restorers(c)
  BY <1>1, <1>9, <1>10 DEF In, Starting, Running, Restorers
<1>13. /\ SameUser(c, d)
       /\ d.socket = "open" <=> c.socket = "open"
  BY <1>4, <1>8 DEF SameUser, SameLink
<1>14. LinkOK(d)
  <2>1. In(d, {"sent", "revoke"}) # {} => c.socket = "open"
    <3>1. ASSUME NEW s \in Slots, d.flows[s].pc \in {"sent", "revoke"} PROVE c.socket = "open"
      <4>1. CASE s = f
        BY <1>9, <1>10, <3>1, <4>1
      <4>2. CASE s # f
        BY <1>3, <1>9, <3>1, <4>2 DEF LinkOK, In
      <4> QED
        BY <4>1, <4>2
    <3> QED
      BY <3>1 DEF In
  <2> QED
    BY <1>3, <1>4, <1>8, <1>13, <2>1 DEF LinkOK, SameLink, SameUser
<1>15. UserOK(d)
  <2>1. c.uid = 0 => Restorers(c) = {}
    BY <1>3 DEF UserOK
  <2> QED
    BY <1>3, <1>12, <1>13, <2>1 DEF UserOK, SameUser
<1>16. Sound(d)
  BY <1>8, <1>11, <1>14, <1>15 DEF Sound
<1>17. ASSUME NEW n \in Nat, Counted(c, n) PROVE Counted(d, n + 1)
  <2>1. Len(c.attempts) \in Nat /\ Len(d.attempts) \in Nat
    BY <1>3, <1>8 DEF IsClient
  <2>2. b.attempts = c.attempts
    BY <1>4 DEF SameTries
  <2>3. CASE S = {}
    <3>1. Len(d.attempts) = Len(c.attempts)
      BY <1>8, <2>2, <2>3
    <3>2. Len(c.attempts) + 0 <= 1 + n \/ Len(c.attempts) + 1 <= 1 + n
      BY <1>17 DEF Counted
    <3>3. Len(d.attempts) + 0 <= 1 + (n + 1) /\ Len(d.attempts) + 1 <= 1 + (n + 1)
      BY <2>1, <3>1, <3>2
    <3> QED
      BY <3>3 DEF Counted
  <2>4. CASE S # {}
    <3>1. In(d, {"cleanup"}) = In(c, {"cleanup"})
      BY <1>1, <1>9, <1>10, <2>4 DEF In
    <3>2. CASE In(c, {"cleanup"}) = {}
      <4>1. Len(c.attempts) + 0 <= 1 + n
        BY <1>17, <3>2 DEF Counted
      <4>2. Len(d.attempts) + 0 <= 1 + (n + 1)
        BY <1>8, <2>1, <2>2, <4>1
      <4> QED
        BY <3>1, <3>2, <4>2 DEF Counted
    <3>3. CASE In(c, {"cleanup"}) # {}
      <4>1. Len(c.attempts) + 1 <= 1 + n
        BY <1>17, <3>3 DEF Counted
      <4>2. Len(d.attempts) + 1 <= 1 + (n + 1)
        BY <1>8, <2>1, <2>2, <4>1
      <4> QED
        BY <3>1, <3>3, <4>2 DEF Counted
    <3> QED
      BY <3>2, <3>3
  <2> QED
    BY <2>3, <2>4
<1>18. ASSUME Clean(c), ~Exposes(d)
       PROVE  Clean(d) /\ \A online : Served(c, online) => Served(d, online)
  <2>1. \A s \in Slots : d.flows[s].op # "login" \/ d.flows[s].pc \in {"create", "init"}
                           => d.flows[s] = c.flows[s]
    BY <1>9, <1>10
  <2>2. \A s \in In(d, {"create", "init"}) \cup In(d, {"init"}) \cup Restorers(d) :
          s \in Slots /\ d.flows[s] = c.flows[s]
    BY <2>1 DEF In, Restorers, Running
  <2>3. Whole(d)
    BY <1>12, <1>13, <1>18, <2>2 DEF Clean, Whole, WholeBut, SameUser
  <2>4. Agreed(d)
    BY <1>12, <1>13, <1>18 DEF Clean, Agreed, SameUser
  <2>5. \A online : Served(c, online) => Served(d, online)
    BY <1>12, <1>13 DEF Served, SameUser
  <2> QED
    BY <1>18, <2>3, <2>4, <2>5 DEF Clean
<1>19. /\ Sound(e)
       /\ \A n \in Nat : Counted(c, n) => Counted(e, n + 1)
       /\ Clean(c) /\ ~Exposes(e) =>
            Clean(e) /\ \A online : Served(c, online) => Served(e, online)
  BY <1>0, <1>16, <1>17, <1>18
<1> QED
  BY <1>19 DEF b, f

\* The server's answer to a logout, or its time-out, signs out.
LEMMA RevokedKeeps ==
  ASSUME NEW c, Sound(c), NEW s \in In(c, {"revoke"})
  PROVE  Keeps(c, SignedOut(c, {s}))
<1> DEFINE d == SignedOut(c, {s})
           S == {s}
<1>1. /\ IsClient(c) /\ FlowsOK(c) /\ AttemptsOK(c) /\ LinkOK(c) /\ UserOK(c)
  BY DEF Sound
<1>2. s \in Slots /\ c.flows[s].pc = "revoke" /\ c.flows[s].op \in {"reauth", "logout", "kick"}
  <2>1. s \in Slots /\ c.flows[s].pc = "revoke" /\ c.flows[s].op \in Ops /\ FlowOK(c.flows[s])
    BY <1>1 DEF In, IsClient, Flow, FlowsOK
  <2> QED
    BY <2>1 DEF FlowOK, Ops
<1>3. In(c, {"connect"}) \cap Running(c, "reauth") = {}
  BY <1>1 DEF UserOK
<1>4. AttemptsBut(c, S)
  BY <1>1 DEF AttemptsOK, AttemptsBut
<1>5. Leaving(c, S)
  BY <1>1, <1>2, <1>3, <1>4 DEF Leaving, UserOK
<1> HIDE DEF S
<1>6. /\ Sound(d)
      /\ \A n \in Nat : Counted(c, n) => Counted(d, n)
      /\ ~Exposes(d) /\ d.stored = 0 /\ d.view # "app" => Clean(d)
      /\ \A online : Served(d, online)
  BY <1>5, SignedOutKeeps DEF S
<1>7. /\ d.stored = IF In(c, {"sent", "revoke"}) \cap Running(c, "reauth") # {} THEN 0
                    ELSE c.stored
      /\ d.view = IF (S \cup In(c, {"sent", "revoke"}))
                       \cap (Running(c, "logout") \cup Running(c, "reauth")) # {}
                  THEN "auth" ELSE c.view
  BY <1>2, <1>1, <1>4, SignedOutDoes DEF S
<1> HIDE DEF d
<1>8. Clean(c) => d.stored = 0
  BY <1>7 DEF Clean, Agreed
<1>9. ASSUME Clean(c) PROVE d.view # "app"
  <2>1. CASE c.flows[s].op = "kick"
    BY <1>2, <1>7, <1>9, <2>1 DEF Clean, Whole, WholeBut, Running
  <2>2. CASE c.flows[s].op # "kick"
    <3>1. s \in (S \cup In(c, {"sent", "revoke"}))
                  \cap (Running(c, "logout") \cup Running(c, "reauth"))
      BY <1>2, <2>2 DEF S, Running
    <3> QED
      BY <1>7, <3>1
  <2> QED
    BY <2>1, <2>2
<1> QED
  BY <1>6, <1>8, <1>9 DEF Keeps, d

\* A request that fails, or a check for storage after the user has signed out.
LEMMA FailureKeeps ==
  ASSUME NEW c, Sound(c), NEW s \in In(c, {"sent", "resolve"})
  PROVE  Keeps(c, Fail(c, {s}))
<1> DEFINE S == {s}
<1>1. /\ IsClient(c) /\ FlowsOK(c) /\ AttemptsOK(c) /\ LinkOK(c) /\ UserOK(c)
  BY DEF Sound
<1>2. AttemptsBut(c, S)
  BY <1>1 DEF AttemptsOK, AttemptsBut
<1>3. S \in SUBSET Slots /\ S \cap In(c, {"revoke"}) = {} /\ \A t \in S : c.flows[t].op # "none"
  BY <1>1 DEF In, FlowsOK, FlowOK
<1>4. Whole(c) => WholeBut(c, S)
  BY DEF Whole, WholeBut
<1> DEFINE d == Fail(c, S)
<1> HIDE DEF S
<1>5. /\ Sound(d)
      /\ \A n \in Nat : Counted(c, n) => Counted(d, n)
      /\ ~Exposes(d) /\ WholeBut(c, S) /\ Agreed(c)
         => Clean(d) /\ \A online : Served(c, online) => Served(d, online)
  BY <1>1, <1>2, <1>3, FailKeeps
<1> HIDE DEF d
<1>6. Keeps(c, d)
  BY <1>4, <1>5 DEF Keeps, Clean
<1> QED
  BY <1>6 DEF S, d

\* The reconnect timer.
LEMMA ReconnectKeeps ==
  ASSUME NEW c, Sound(c), c.timer
  PROVE  Keeps(c, Connect([c EXCEPT !.timer = FALSE]))
<1> DEFINE e == [c EXCEPT !.timer = FALSE]
           d == Connect(e)
<1>1. /\ IsClient(e) /\ SameUser(c, e) /\ SameTries(c, e) /\ e.flows = c.flows
      /\ e.socket = c.socket /\ ~e.timer /\ e.shown = c.shown
  BY DEF Sound, IsClient, SameUser, SameTries
<1> HIDE DEF e
<1>2. /\ IsClient(d) /\ SameUser(e, d) /\ SameTries(e, d)
      /\ d.flows = e.flows /\ d.shown = e.shown
      /\ d.socket = "connecting" /\ ~d.timer
  BY <1>1, ConnectDoes
<1> HIDE DEF d
<1>3. SameUser(c, d) /\ SameTries(c, d) /\ d.flows = c.flows
  BY <1>1, <1>2 DEF SameUser, SameTries
<1>4. /\ \A pcs : In(d, pcs) = In(c, pcs)
      /\ \A op : Running(d, op) = Running(c, op)
      /\ Starting(d) = Starting(c) /\ Restorers(d) = Restorers(c)
  BY <1>3, SameFlows
<1>5. c.socket = "closed" /\ c.shown # "connected" /\ In(c, {"sent", "revoke"}) = {}
  BY DEF Sound, LinkOK
<1>6. LinkOK(d)
  BY <1>1, <1>2, <1>4, <1>5 DEF LinkOK
<1>7. FlowsOK(d) /\ AttemptsOK(d) /\ UserOK(d)
  BY <1>3, <1>4 DEF Sound, FlowsOK, AttemptsOK, AttemptsBut, UserOK, SameUser, SameTries
<1>8. \A n \in Nat : Counted(c, n) => Counted(d, n)
  BY <1>3, <1>4 DEF Counted, SameTries
<1>9. Clean(c) => Whole(d) /\ Agreed(d)
  BY <1>3, <1>4 DEF Clean, Whole, WholeBut, Agreed, SameUser
<1>10. \A online : Served(d, online)
  BY <1>2 DEF Served
<1>11. Keeps(c, d)
  BY <1>2, <1>6, <1>7, <1>8, <1>9, <1>10 DEF Keeps, Sound, Clean
<1> QED
  BY <1>11 DEF d, e

\* A kick reaches the queue of the gateway.
LEMMA KickArrivesKeeps ==
  ASSUME NEW c, Sound(c)
  PROVE  LET d == [c EXCEPT !.kicked = @ \/ c.gateway # 0] IN Keeps(c, d)
<1> DEFINE d == [c EXCEPT !.kicked = @ \/ c.gateway # 0]
<1>1. /\ IsClient(d) /\ SameLink(c, d) /\ SameTries(c, d) /\ d.flows = c.flows
      /\ d.token = c.token /\ d.uid = c.uid /\ d.state = c.state /\ d.gateway = c.gateway
      /\ d.kicked = (c.kicked \/ c.gateway # 0) /\ d.stored = c.stored /\ d.view = c.view
  <2>1. IsClient(d)
    BY DEF Sound, IsClient
  <2> QED
    BY <2>1, ZenonT(60) DEF Sound, IsClient, SameLink, SameTries
<1> HIDE DEF d
<1>2. /\ \A pcs : In(d, pcs) = In(c, pcs)
      /\ \A op : Running(d, op) = Running(c, op)
      /\ Starting(d) = Starting(c) /\ Restorers(d) = Restorers(c)
  BY <1>1, SameFlows
<1>3. FlowsOK(d) /\ AttemptsOK(d) /\ LinkOK(d)
  BY <1>1, <1>2 DEF Sound, FlowsOK, AttemptsOK, AttemptsBut, LinkOK, SameLink, SameTries
<1>4. UserOK(d)
  BY <1>1, <1>2 DEF Sound, UserOK
<1>5. \A n \in Nat : Counted(c, n) => Counted(d, n)
  BY <1>1, <1>2 DEF Counted, SameTries
<1>6. Clean(c) => Whole(d) /\ Agreed(d)
  BY <1>1, <1>2 DEF Clean, Whole, WholeBut, Agreed
<1>7. \A online : Served(c, online) => Served(d, online)
  BY <1>1, <1>2 DEF Served, SameLink
<1>8. Keeps(c, d)
  BY <1>1, <1>3, <1>4, <1>5, <1>6, <1>7 DEF Keeps, Sound, Clean
<1> QED
  BY <1>8 DEF d

-----------------------------------------------------------------------------
(* Starting a session *)

\* A session is being started in the host's persistent mode only, and while no
\* window has been entered for a user who is not being signed out.
LEMMA StartsForUser ==
  ASSUME NEW c, Sound(c), NEW s \in Starting(c)
  PROVE  /\ mode # "instant" /\ s \in Slots /\ c.flows[s].op # "none"
         /\ c.uid = 0 => Restorers(c) = {}
         /\ Clean(c) => /\ c.uid # 0 /\ In(c, {"revoke"}) = {} /\ Running(c, "kick") = {}
                        /\ c.stored # 0
<1>1. mode # "instant"
  BY DEF Sound, UserOK
<1>2. s \in Slots /\ c.flows[s].pc \in {"resolve", "create", "init"} /\ c.flows[s].op # "none"
  BY DEF Starting, In, Sound, FlowsOK, FlowOK
<1>3. c.uid = 0 => Restorers(c) = {}
  <2> SUFFICES ASSUME c.uid = 0, NEW r \in Restorers(c) PROVE FALSE
    OBVIOUS
  <2>1. In(c, {"idle"}) = Slots \ {r} /\ c.flows[r].pc \in {"connect", "sent"}
    BY DEF Sound, UserOK, Restorers, In
  <2> QED
    BY <1>2, <2>1 DEF In
<1>4. ASSUME Clean(c)
      PROVE  c.uid # 0 /\ In(c, {"revoke"}) = {} /\ Running(c, "kick") = {} /\ c.stored # 0
  <2>1. c.token # 0 /\ In(c, {"revoke"}) = {}
    BY <1>4 DEF Clean, Exposes, SignedOutInStart, Starting
  <2>2. Running(c, "kick") = {}
    BY <2>1 DEF Sound, FlowsOK, FlowOK, Running, In
  <2> QED
    BY <1>4, <2>1, <2>2 DEF Sound, UserOK, Clean, Agreed
<1> QED
  BY <1>1, <1>2, <1>3, <1>4

\* The kit shows the session when startSession returns: the latest call has made it
\* ready, an earlier one has not.
LEMMA ShownKeeps ==
  ASSUME NEW c, Sound(c), NEW s \in In(c, {"create", "init"}),
         NEW e, IsClient(e), SameLink(c, e), SameTries(c, e), e.flows = c.flows,
         e.token = c.token, e.uid = c.uid, e.gateway = c.gateway, e.kicked = c.kicked,
         e.stored = c.stored,
         \/ e.state = c.state
         \/ e.state = "ready" /\ s \in In(c, {"init"}) /\ c.flows[s].latest
  PROVE  Keeps(c, Shown(e, s))
<1> DEFINE b == End(e, {s})
           d == Shown(e, s)
<1>1. /\ IsClient(b) /\ SameUser(e, b) /\ SameLink(e, b) /\ SameTries(e, b)
      /\ \A t \in Slots : b.flows[t] = IF t = s THEN NoFlow ELSE c.flows[t]
  <2> DEFINE S == {s}
  <2>1. End(e, S) = b /\ \A t \in Slots : t \in S <=> t = s
    OBVIOUS
  <2> HIDE DEF S, b
  <2> QED
    BY <2>1, EndDoes
<1>2. d = [b EXCEPT !.view = "app"]
  BY DEF Shown
<1> HIDE DEF b, d
<1>3. /\ IsClient(d) /\ SameLink(c, d) /\ SameTries(c, d) /\ d.flows = b.flows
      /\ d.token = c.token /\ d.uid = c.uid /\ d.gateway = c.gateway /\ d.kicked = c.kicked
      /\ d.stored = c.stored /\ d.state = e.state /\ d.view = "app"
  <2>1. IsClient(d)
    BY <1>1, <1>2 DEF IsClient
  <2> QED
    BY <1>1, <1>2, <2>1, ZenonT(60) DEF IsClient, SameUser, SameLink, SameTries
<1>4. NoFlow.op = "none" /\ NoFlow.pc = "idle" /\ ~NoFlow.latest /\ NoFlow.at = 0
  BY DEF NoFlow
<1>5. \A t \in Slots : IF t = s THEN d.flows[t] = NoFlow ELSE d.flows[t] = c.flows[t]
  BY <1>1, <1>3
<1>6. s \in Slots /\ c.flows[s].pc \in {"create", "init"} /\ s \in Starting(c)
  BY DEF In, Starting
<1>7. /\ \A pcs : "idle" \notin pcs => In(d, pcs) \subseteq In(c, pcs) \ {s}
      /\ \A pcs : {"idle", "create", "init"} \cap pcs = {} => In(d, pcs) = In(c, pcs)
      /\ \A op : op # "none" => Running(d, op) \subseteq Running(c, op)
      /\ \A op, pcs : {"idle", "create", "init"} \cap pcs = {}
                        => In(d, pcs) \cap Running(d, op) = In(c, pcs) \cap Running(c, op)
  BY <1>4, <1>5, <1>6 DEF In, Running
<1>8. Starting(d) \subseteq Starting(c) /\ Restorers(d) = Restorers(c)
  BY <1>7 DEF Starting, Restorers
<1>9. FlowsOK(d)
  BY <1>4, <1>5 DEF Sound, FlowsOK, FlowOK
<1>10. AttemptsOK(d)
  <2>1. 0 <= Len(c.attempts)
    BY DEF Sound, IsClient
  <2>2. \A t \in Slots : d.flows[t].at <= Len(c.attempts)
    BY <1>4, <1>5, <2>1 DEF Sound, AttemptsOK, AttemptsBut
  <2>3. \A t \in In(d, {"connect"}) : t \in In(c, {"connect"}) /\ d.flows[t] = c.flows[t]
    BY <1>4, <1>5 DEF In
  <2> QED
    BY <1>3, <2>2, <2>3 DEF Sound, AttemptsOK, AttemptsBut, SameTries
<1>11. LinkOK(d)
  BY <1>3, <1>7 DEF Sound, LinkOK, SameLink
<1>12. UserOK(d)
  BY <1>3, <1>6, <1>7, <1>8, StartsForUser DEF Sound, UserOK
<1>13. Sound(d)
  BY <1>3, <1>9, <1>10, <1>11, <1>12 DEF Sound
<1>14. \A n \in Nat : Counted(c, n) => Counted(d, n)
  <2>1. In(d, {"cleanup"}) = In(c, {"cleanup"})
    BY <1>7
  <2> QED
    BY <1>3, <2>1 DEF Counted, SameTries
<1>15. ASSUME Clean(c), ~Exposes(d) PROVE Clean(d)
  <2>1. c.uid # 0 /\ In(c, {"revoke"}) = {} /\ Running(c, "kick") = {} /\ c.stored # 0
    BY <1>6, <1>15, StartsForUser
  <2>2. \A t \in Slots : t # s => d.flows[t] = c.flows[t]
    BY <1>5
  <2>3. /\ \A t \in In(d, {"create", "init"}) :
             t \in In(c, {"create", "init"}) /\ d.flows[t] = c.flows[t]
        /\ \A t \in In(d, {"init"}) : t \in In(c, {"init"}) /\ d.flows[t] = c.flows[t]
        /\ \A t \in Restorers(d) : d.flows[t] = c.flows[t]
    BY <1>4, <1>5, <1>6 DEF In, Restorers
  <2>4. d.state = "ready" => d.gateway = d.uid
    BY <1>3, <1>15 DEF Clean, Whole, WholeBut
  <2>5. d.uid # 0 <=> d.state # "idle"
    BY <1>3, <1>15, <2>1 DEF Clean, Whole, WholeBut
  <2>6. Whole(d)
    BY <1>3, <1>7, <1>8, <1>15, <2>1, <2>3, <2>4, <2>5 DEF Clean, Whole, WholeBut
  <2>7. Agreed(d)
    BY <1>3, <1>7, <2>1 DEF Agreed
  <2> QED
    BY <1>15, <2>6, <2>7 DEF Clean
<1>16. \A online : Served(c, online) => Served(d, online)
  BY <1>3, <1>7 DEF Served, SameLink
<1> QED
  BY <1>13, <1>14, <1>15, <1>16 DEF Keeps, d

\* The gateway's init returns.
LEMMA InitedKeeps ==
  ASSUME NEW c, Sound(c), NEW s \in In(c, {"init"})
  PROVE  Keeps(c, Inited(c, s))
<1> DEFINE e == IF c.flows[s].latest THEN [c EXCEPT !.state = "ready"] ELSE c
<1>1. /\ IsClient(e) /\ SameLink(c, e) /\ SameTries(c, e) /\ e.flows = c.flows
      /\ e.token = c.token /\ e.uid = c.uid /\ e.gateway = c.gateway /\ e.kicked = c.kicked
      /\ e.stored = c.stored
      /\ e.state = c.state \/ (e.state = "ready" /\ c.flows[s].latest)
  <2>1. CASE c.flows[s].latest
    <3>1. IsClient(e)
      BY <2>1 DEF Sound, IsClient
    <3> QED
      BY <2>1, <3>1 DEF Sound, IsClient, SameLink, SameTries
  <2>2. CASE ~c.flows[s].latest
    BY <2>2 DEF Sound, SameLink, SameTries
  <2> QED
    BY <2>1, <2>2
<1>2. Inited(c, s) = Shown(e, s)
  BY DEF Inited
<1>3. s \in In(c, {"create", "init"})
  BY DEF In
<1> HIDE DEF e
<1> QED
  BY <1>1, <1>2, <1>3, ShownKeeps

\* The database of a session cannot be opened.
LEMMA SessionFailedKeeps ==
  ASSUME NEW c, Sound(c), NEW s \in In(c, {"create", "init"})
  PROVE  Keeps(c, SessionFailed(c, s))
<1>0. /\ IsClient(c) /\ FlowsOK(c) /\ AttemptsOK(c) /\ LinkOK(c) /\ UserOK(c)
  BY DEF Sound
<1>1. CASE ~c.flows[s].latest
  <2>1. SessionFailed(c, s) = Shown(c, s)
    BY <1>1 DEF SessionFailed
  <2>2. SameLink(c, c) /\ SameTries(c, c)
    BY DEF SameLink, SameTries
  <2> QED
    BY <1>0, <2>1, <2>2, ShownKeeps
<1>2. CASE c.flows[s].latest
  <2> DEFINE S == {s}
             e == [WithoutGateway(c) EXCEPT !.state = "authenticated"]
             d == Fail(e, S)
  <2>1. SessionFailed(c, s) = d
    BY <1>2 DEF SessionFailed
  <2>2. /\ IsClient(e) /\ SameLink(c, e) /\ SameTries(c, e) /\ e.flows = c.flows
        /\ e.token = c.token /\ e.uid = c.uid /\ e.gateway = 0 /\ ~e.kicked
        /\ e.stored = c.stored /\ e.state = "authenticated" /\ e.view = c.view
    <3>1. e = [c EXCEPT !.gateway = 0, !.kicked = FALSE, !.state = "authenticated"]
      BY <1>0 DEF WithoutGateway, IsClient
    <3>2. 0 \in 0..MaxLogins
      BY SessionAssumption
    <3> HIDE DEF e
    <3>3. IsClient(e)
      BY <1>0, <3>1, <3>2 DEF IsClient
    <3> QED
      BY <1>0, <3>1, <3>3 DEF IsClient, SameLink, SameTries
  <2>3. s \in Slots /\ s \in Starting(c) /\ c.flows[s].pc \in {"create", "init"}
    BY DEF In, Starting
  <2> HIDE DEF e
  <2>4. /\ \A pcs : In(e, pcs) = In(c, pcs)
        /\ \A op : Running(e, op) = Running(c, op)
        /\ Starting(e) = Starting(c) /\ Restorers(e) = Restorers(c)
    BY <2>2, SameFlows
  <2>5. FlowsOK(e) /\ LinkOK(e)
    BY <1>0, <2>2, <2>4 DEF FlowsOK, LinkOK, SameLink
  <2>6. UserOK(e)
    BY <1>0, <2>2, <2>3, <2>4, StartsForUser DEF UserOK
  <2>7. AttemptsBut(e, S)
    BY <1>0, <2>2, <2>4 DEF AttemptsOK, AttemptsBut, SameTries
  <2>8. /\ S \in SUBSET Slots /\ S \cap In(e, {"revoke"}) = {}
        /\ \A t \in S : e.flows[t].op # "none"
    BY <2>2, <2>3, <2>4, StartsForUser DEF In
  <2>9. \A n \in Nat : Counted(c, n) => Counted(e, n)
    BY <2>2, <2>4 DEF Counted, SameTries
  <2>10. Clean(c) => WholeBut(e, S) /\ Agreed(e)
    <3> SUFFICES ASSUME Clean(c) PROVE WholeBut(e, S) /\ Agreed(e)
      OBVIOUS
    <3>1. c.uid # 0 /\ Running(c, "kick") = {}
      BY <2>3, StartsForUser
    <3>2. \A t \in In(c, {"init"}) \ S : ~c.flows[t].latest
      BY <1>0, <1>2, <2>3 DEF FlowsOK, In
    <3>3. Agreed(e)
      BY <2>2, <2>4 DEF Clean, Agreed
    <3>4. WholeBut(e, S)
      BY <2>2, <2>4, <3>1, <3>2 DEF Clean, Whole, WholeBut
    <3> QED
      BY <3>3, <3>4
  <2>11. \A online : Served(c, online) => Served(e, online)
    BY <2>2, <2>4 DEF Served, SameLink
  <2> HIDE DEF S
  <2>12. /\ Sound(d)
         /\ \A n \in Nat : Counted(e, n) => Counted(d, n)
         /\ ~Exposes(d) /\ WholeBut(e, S) /\ Agreed(e)
            => Clean(d) /\ \A online : Served(e, online) => Served(d, online)
    BY <2>2, <2>5, <2>6, <2>7, <2>8, FailKeeps
  <2> HIDE DEF d
  <2>13. Keeps(c, d)
    BY <2>9, <2>10, <2>11, <2>12 DEF Keeps
  <2> QED
    BY <2>1, <2>13
<1> QED
  BY <1>1, <1>2

\* Initialize: the call s is the latest, and there is no gateway.
LEMMA InitializeDoes ==
  ASSUME NEW c, IsClient(c), NEW s \in Slots
  PROVE  LET d == Initialize(c, s) IN
         /\ IsClient(d) /\ SameLink(c, d) /\ SameTries(c, d)
         /\ d.token = c.token /\ d.uid = c.uid /\ d.stored = c.stored /\ d.view = c.view
         /\ d.gateway = 0 /\ ~d.kicked /\ d.state = "initializing"
         /\ \A t \in Slots : /\ d.flows[t].op = c.flows[t].op /\ d.flows[t].at = c.flows[t].at
                             /\ IF t = s THEN /\ d.flows[t].pc = "create" /\ d.flows[t].latest
                                              /\ d.flows[t].token = c.uid
                                ELSE /\ d.flows[t].pc = c.flows[t].pc /\ ~d.flows[t].latest
                                     /\ d.flows[t].token = c.flows[t].token
<1> DEFINE f == [t \in Slots |->
                   IF t = s
                   THEN [c.flows[t] EXCEPT !.pc = "create", !.token = c.uid, !.latest = TRUE]
                   ELSE [c.flows[t] EXCEPT !.latest = FALSE]]
           d == [c EXCEPT !.gateway = 0, !.kicked = FALSE, !.state = "initializing", !.flows = f]
<1>1. c.uid \in 0..MaxLogins /\ \A t \in Slots : c.flows[t] \in Flow
  BY DEF IsClient
<1>2. \A t \in Slots :
        /\ f[t] \in Flow /\ f[t].op = c.flows[t].op /\ f[t].at = c.flows[t].at
        /\ IF t = s THEN f[t].pc = "create" /\ f[t].latest /\ f[t].token = c.uid
           ELSE f[t].pc = c.flows[t].pc /\ ~f[t].latest /\ f[t].token = c.flows[t].token
  <2> SUFFICES ASSUME NEW t \in Slots
               PROVE  /\ f[t] \in Flow /\ f[t].op = c.flows[t].op /\ f[t].at = c.flows[t].at
                      /\ IF t = s THEN f[t].pc = "create" /\ f[t].latest /\ f[t].token = c.uid
                         ELSE /\ f[t].pc = c.flows[t].pc /\ ~f[t].latest
                              /\ f[t].token = c.flows[t].token
    OBVIOUS
  <2>1. CASE t = s
    <3>1. f[t] = [c.flows[t] EXCEPT !.pc = "create", !.token = c.uid, !.latest = TRUE]
      BY <2>1
    <3> HIDE DEF f
    <3> QED
      BY <1>1, <2>1, <3>1 DEF Flow, Pcs
  <2>2. CASE t # s
    <3>1. f[t] = [c.flows[t] EXCEPT !.latest = FALSE]
      BY <2>2
    <3> HIDE DEF f
    <3> QED
      BY <1>1, <2>2, <3>1 DEF Flow
  <2> QED
    BY <2>1, <2>2
<1>3. f \in [Slots -> Flow]
  <2>1. \A t \in Slots : f[t] \in Flow
    BY <1>2
  <2> QED
    BY <2>1
<1>4. Initialize(c, s) = d
  BY DEF Initialize, WithoutGateway, IsClient
<1> HIDE DEF f
<1>5. IsClient(d)
  <2>1. 0 \in 0..MaxLogins
    BY SessionAssumption
  <2> QED
    BY <1>3, <2>1 DEF IsClient
<1>6. /\ SameLink(c, d) /\ SameTries(c, d)
      /\ d.token = c.token /\ d.uid = c.uid /\ d.stored = c.stored /\ d.view = c.view
      /\ d.gateway = 0 /\ ~d.kicked /\ d.state = "initializing" /\ d.flows = f
  BY <1>5 DEF IsClient, SameLink, SameTries
<1> HIDE DEF d
<1> QED
  BY <1>2, <1>4, <1>5, <1>6

\* Created: the gateway is the one of the user whom the call s started for.
LEMMA CreatedDoes ==
  ASSUME NEW c, IsClient(c), NEW s \in Slots
  PROVE  LET d == Created(c, s) IN
         /\ IsClient(d) /\ SameLink(c, d) /\ SameTries(c, d)
         /\ d.token = c.token /\ d.uid = c.uid /\ d.stored = c.stored /\ d.view = c.view
         /\ d.gateway = c.flows[s].token /\ d.kicked = c.kicked /\ d.state = c.state
         /\ \A t \in Slots : /\ d.flows[t].op = c.flows[t].op /\ d.flows[t].at = c.flows[t].at
                             /\ d.flows[t].latest = c.flows[t].latest
                             /\ d.flows[t].token = c.flows[t].token
                             /\ d.flows[t].pc = IF t = s THEN "init" ELSE c.flows[t].pc
<1> DEFINE S == {s}
           e == MoveTo(c, S, "init")
           d == [e EXCEPT !.gateway = c.flows[s].token]
<1>1. Created(c, s) = d
  BY DEF Created
<1>2. \A t \in Slots : t \in S <=> t = s
  OBVIOUS
<1>3. \A t \in Slots : c.flows[t] \in Flow
  BY DEF IsClient
<1> HIDE DEF S
<1>4. /\ IsClient(e) /\ SameUser(c, e) /\ SameLink(c, e) /\ SameTries(c, e)
      /\ \A t \in Slots : e.flows[t] = IF t \in S THEN [c.flows[t] EXCEPT !.pc = "init"]
                                       ELSE c.flows[t]
  BY MoveToDoes DEF Pcs
<1> HIDE DEF e
<1>5. \A t \in Slots : /\ e.flows[t].op = c.flows[t].op /\ e.flows[t].at = c.flows[t].at
                       /\ e.flows[t].latest = c.flows[t].latest
                       /\ e.flows[t].token = c.flows[t].token
                       /\ e.flows[t].pc = IF t = s THEN "init" ELSE c.flows[t].pc
  BY <1>2, <1>3, <1>4 DEF Flow
<1>6. IsClient(d)
  <2>1. c.flows[s].token \in 0..MaxLogins
    BY <1>3 DEF Flow
  <2> QED
    BY <1>4, <2>1 DEF IsClient
<1>7. /\ SameLink(c, d) /\ SameTries(c, d)
      /\ d.token = c.token /\ d.uid = c.uid /\ d.stored = c.stored /\ d.view = c.view
      /\ d.gateway = c.flows[s].token /\ d.kicked = c.kicked /\ d.state = c.state
      /\ d.flows = e.flows
  BY <1>4 DEF IsClient, SameUser, SameLink, SameTries
<1> HIDE DEF d
<1> QED
  BY <1>1, <1>5, <1>6, <1>7

\* The check for a local database returns.
LEMMA ResolvedKeeps ==
  ASSUME NEW c, Sound(c), NEW s \in In(c, {"resolve"})
  PROVE  Keeps(c, Resolved(c, s))
<1>1. CASE ~IsAuthenticated(c)
  <2>1. Resolved(c, s) = Fail(c, {s})
    BY <1>1 DEF Resolved
  <2>2. s \in In(c, {"sent", "resolve"})
    BY DEF In
  <2> QED
    BY <2>1, <2>2, FailureKeeps
<1>2. CASE IsAuthenticated(c)
  <2> DEFINE d == Initialize(c, s)
  <2>1. Resolved(c, s) = d
    BY <1>2 DEF Resolved
  <2>2. s \in Slots /\ c.flows[s].pc = "resolve" /\ s \in Starting(c) /\ IsClient(c)
    BY DEF In, Starting, Sound
  <2>3. /\ IsClient(d) /\ SameLink(c, d) /\ SameTries(c, d)
        /\ d.token = c.token /\ d.uid = c.uid /\ d.stored = c.stored /\ d.view = c.view
        /\ d.gateway = 0 /\ ~d.kicked /\ d.state = "initializing"
        /\ \A t \in Slots : /\ d.flows[t].op = c.flows[t].op /\ d.flows[t].at = c.flows[t].at
                            /\ IF t = s THEN /\ d.flows[t].pc = "create" /\ d.flows[t].latest
                                             /\ d.flows[t].token = c.uid
                               ELSE /\ d.flows[t].pc = c.flows[t].pc /\ ~d.flows[t].latest
                                    /\ d.flows[t].token = c.flows[t].token
    BY <2>2, InitializeDoes
  <2> HIDE DEF d
  <2>4. /\ mode # "instant" /\ c.flows[s].op # "none"
        /\ c.uid = 0 => Restorers(c) = {}
    BY <2>2, StartsForUser
  <2>5. /\ \A pcs : {"resolve", "create"} \cap pcs = {} => In(d, pcs) = In(c, pcs)
        /\ \A op : Running(d, op) = Running(c, op)
    BY <2>2, <2>3 DEF In, Running
  <2>6. Restorers(d) = Restorers(c)
    BY <2>5 DEF Restorers
  <2>7. FlowsOK(d)
    BY <2>2, <2>3 DEF Sound, FlowsOK, FlowOK
  <2>8. AttemptsOK(d)
    <3>1. In(d, {"connect"}) = In(c, {"connect"}) /\ In(c, {"connect"}) \subseteq Slots
      BY <2>5 DEF In
    <3> QED
      BY <2>3, <3>1 DEF Sound, AttemptsOK, AttemptsBut, SameTries
  <2>9. LinkOK(d)
    BY <2>3, <2>5 DEF Sound, LinkOK, SameLink
  <2>10. UserOK(d)
    BY <2>3, <2>4, <2>5, <2>6 DEF Sound, UserOK
  <2>11. \A n \in Nat : Counted(c, n) => Counted(d, n)
    BY <2>3, <2>5 DEF Counted, SameTries
  <2>12. ASSUME Clean(c) PROVE Whole(d) /\ Agreed(d)
    <3>1. c.uid # 0 /\ In(c, {"revoke"}) = {} /\ Running(c, "kick") = {} /\ c.stored # 0
      BY <2>2, <2>12, StartsForUser
    <3>2. \A t \in In(d, {"create", "init"}) : t = s \/ t \in In(c, {"create", "init"})
      BY <2>3 DEF In
    <3>3. \A t \in In(d, {"create", "init"}) : d.flows[t].token = d.uid
      <4>1. \A t \in In(d, {"create", "init"}) : t \in Slots
        BY DEF In
      <4> QED
        BY <2>3, <2>12, <3>2, <4>1 DEF Clean, Whole, WholeBut
    <3>4. \A t \in In(d, {"init"}) : ~d.flows[t].latest
      BY <2>3 DEF In
    <3>5. \A t \in Restorers(d) : d.flows[t].token = d.uid
      <4>1. \A t \in Restorers(d) : t \in Slots /\ t # s
        BY <2>2, <2>6 DEF Restorers, In
      <4> QED
        BY <2>3, <2>6, <2>12, <3>1, <4>1 DEF Clean, Whole, WholeBut
    <3>6. Whole(d)
      BY <2>3, <2>5, <3>1, <3>3, <3>4, <3>5 DEF Whole, WholeBut
    <3>7. Agreed(d)
      BY <2>3, <2>5, <3>1 DEF Agreed
    <3> QED
      BY <3>6, <3>7
  <2>13. \A online : Served(c, online) => Served(d, online)
    BY <2>3, <2>5 DEF Served, SameLink
  <2>14. Keeps(c, d)
    BY <2>3, <2>7, <2>8, <2>9, <2>10, <2>11, <2>12, <2>13 DEF Keeps, Sound, Clean
  <2> QED
    BY <2>1, <2>14
<1> QED
  BY <1>1, <1>2

\* The database is open, and its gateway is installed.
LEMMA CreatedKeeps ==
  ASSUME NEW c, Sound(c), NEW s \in In(c, {"create"})
  PROVE  Keeps(c, Created(c, s))
<1> DEFINE d == Created(c, s)
<1>1. s \in Slots /\ c.flows[s].pc = "create" /\ s \in Starting(c) /\ IsClient(c)
      /\ s \in In(c, {"create", "init"})
  BY DEF In, Starting, Sound
<1>2. /\ IsClient(d) /\ SameLink(c, d) /\ SameTries(c, d)
      /\ d.token = c.token /\ d.uid = c.uid /\ d.stored = c.stored /\ d.view = c.view
      /\ d.gateway = c.flows[s].token /\ d.kicked = c.kicked /\ d.state = c.state
      /\ \A t \in Slots : /\ d.flows[t].op = c.flows[t].op /\ d.flows[t].at = c.flows[t].at
                          /\ d.flows[t].latest = c.flows[t].latest
                          /\ d.flows[t].token = c.flows[t].token
                          /\ d.flows[t].pc = IF t = s THEN "init" ELSE c.flows[t].pc
  BY <1>1, CreatedDoes
<1> HIDE DEF d
<1>3. /\ mode # "instant" /\ c.flows[s].op # "none"
      /\ c.uid = 0 => Restorers(c) = {}
  BY <1>1, StartsForUser
<1>4. /\ \A pcs : {"create", "init"} \cap pcs = {} => In(d, pcs) = In(c, pcs)
      /\ In(d, {"create", "init"}) = In(c, {"create", "init"})
      /\ \A op : Running(d, op) = Running(c, op)
  BY <1>1, <1>2 DEF In, Running
<1>5. Restorers(d) = Restorers(c)
  BY <1>4 DEF Restorers
<1>6. FlowsOK(d)
  BY <1>1, <1>2 DEF Sound, FlowsOK, FlowOK
<1>7. AttemptsOK(d)
  <2>1. In(d, {"connect"}) = In(c, {"connect"}) /\ In(c, {"connect"}) \subseteq Slots
    BY <1>4 DEF In
  <2> QED
    BY <1>2, <2>1 DEF Sound, AttemptsOK, AttemptsBut, SameTries
<1>8. LinkOK(d)
  BY <1>2, <1>4 DEF Sound, LinkOK, SameLink
<1>9. UserOK(d)
  BY <1>2, <1>3, <1>4, <1>5 DEF Sound, UserOK
<1>10. \A n \in Nat : Counted(c, n) => Counted(d, n)
  BY <1>2, <1>4 DEF Counted, SameTries
<1>11. ASSUME Clean(c) PROVE Whole(d) /\ Agreed(d)
  <2>1. c.uid # 0 /\ In(c, {"revoke"}) = {} /\ Running(c, "kick") = {} /\ c.stored # 0
    BY <1>1, <1>11, StartsForUser
  <2>2. d.gateway = d.uid
    BY <1>1, <1>2, <1>11 DEF Clean, Whole, WholeBut
  <2>3. Restorers(c) \subseteq Slots /\ In(c, {"create", "init"}) \subseteq Slots
    BY DEF Restorers, In
  <2>4. Whole(d)
    BY <1>2, <1>4, <1>5, <1>11, <2>1, <2>2, <2>3 DEF Clean, Whole, WholeBut
  <2>5. Agreed(d)
    BY <1>2, <1>4, <2>1 DEF Agreed
  <2> QED
    BY <2>4, <2>5
<1>12. \A online : Served(c, online) => Served(d, online)
  BY <1>2, <1>4 DEF Served, SameLink
<1>13. Keeps(c, d)
  BY <1>2, <1>6, <1>7, <1>8, <1>9, <1>10, <1>11, <1>12 DEF Keeps, Sound, Clean
<1> QED
  BY <1>13 DEF d

\* Inited, for the latest call: the session is ready and on screen.
LEMMA InitedDoes ==
  ASSUME NEW c, IsClient(c), NEW s \in Slots, c.flows[s].latest
  PROVE  LET d == Inited(c, s) IN
         /\ IsClient(d) /\ SameLink(c, d) /\ SameTries(c, d)
         /\ d.token = c.token /\ d.uid = c.uid /\ d.gateway = c.gateway
         /\ d.kicked = c.kicked /\ d.stored = c.stored
         /\ d.state = "ready" /\ d.view = "app"
         /\ \A t \in Slots : d.flows[t] = IF t = s THEN NoFlow ELSE c.flows[t]
<1> DEFINE S == {s}
           e == [c EXCEPT !.state = "ready"]
           b == End(e, S)
           d == [b EXCEPT !.view = "app"]
<1>1. Inited(c, s) = d
  BY DEF Inited, Shown
<1>2. IsClient(e)
  BY DEF IsClient
<1>3. /\ SameLink(c, e) /\ SameTries(c, e) /\ e.flows = c.flows
      /\ e.token = c.token /\ e.uid = c.uid /\ e.gateway = c.gateway
      /\ e.kicked = c.kicked /\ e.stored = c.stored /\ e.state = "ready"
  BY DEF IsClient, SameLink, SameTries
<1>4. \A t \in Slots : t \in S <=> t = s
  OBVIOUS
<1> HIDE DEF e, S
<1>5. /\ IsClient(b) /\ SameUser(e, b) /\ SameLink(e, b) /\ SameTries(e, b)
      /\ \A t \in Slots : b.flows[t] = IF t \in S THEN NoFlow ELSE e.flows[t]
  BY <1>2, EndDoes
<1> HIDE DEF b
<1>6. IsClient(d)
  BY <1>5 DEF IsClient
<1>7. /\ SameLink(c, d) /\ SameTries(c, d) /\ d.flows = b.flows
      /\ d.token = c.token /\ d.uid = c.uid /\ d.gateway = c.gateway
      /\ d.kicked = c.kicked /\ d.stored = c.stored
      /\ d.state = "ready" /\ d.view = "app"
  BY <1>3, <1>5 DEF IsClient, SameUser, SameLink, SameTries
<1> HIDE DEF d
<1> QED
  BY <1>1, <1>3, <1>4, <1>5, <1>6, <1>7

\* Authenticated: the user is t's, and his session starts; a host without a database
\* is done at once.
LEMMA AuthenticatedDoes ==
  ASSUME NEW c, IsClient(c), NEW s \in Slots, NEW t \in Tokens
  PROVE  LET d == Authenticated(c, s, t) IN
         /\ IsClient(d) /\ SameLink(c, d) /\ SameTries(c, d)
         /\ d.token = t /\ d.uid = t /\ d.stored = t
         /\ \A r \in Slots : r # s =>
              /\ d.flows[r].op = c.flows[r].op /\ d.flows[r].at = c.flows[r].at
              /\ d.flows[r].pc = c.flows[r].pc /\ d.flows[r].token = c.flows[r].token
              /\ d.flows[r].latest => c.flows[r].latest
         /\ IF mode = "persistent"
            THEN /\ d.view = c.view /\ d.gateway = c.gateway /\ d.kicked = c.kicked
                 /\ d.state = IF c.gateway # 0 /\ c.state = "ready" THEN "ready"
                              ELSE "authenticated"
                 /\ d.flows[s].op = c.flows[s].op /\ d.flows[s].at = c.flows[s].at
                 /\ d.flows[s].pc = "resolve" /\ d.flows[s].latest = c.flows[s].latest
            ELSE /\ d.view = "app" /\ d.gateway = t /\ ~d.kicked /\ d.state = "ready"
                 /\ d.flows[s] = NoFlow
<1> DEFINE state == IF c.gateway # 0 /\ c.state = "ready" THEN "ready" ELSE "authenticated"
           e == [c EXCEPT !.token = t, !.uid = t, !.stored = t, !.state = state]
           S == {s}
           d == Authenticated(c, s, t)
<1>1. t \in 0..MaxLogins
  BY SessionAssumption DEF Tokens
<1>2. IsClient(e)
  BY <1>1 DEF IsClient
<1>3. /\ SameLink(c, e) /\ SameTries(c, e) /\ e.flows = c.flows
      /\ e.token = t /\ e.uid = t /\ e.gateway = c.gateway
      /\ e.kicked = c.kicked /\ e.stored = t /\ e.state = state /\ e.view = c.view
  BY DEF IsClient, SameLink, SameTries
<1>4. d = IF mode = "persistent" THEN MoveTo(e, S, "resolve")
          ELSE Inited(Created(Initialize(e, s), s), s)
  <2>1. e = [c EXCEPT !.token = t, !.uid = t, !.stored = t,
                      !.state = IF c.gateway # 0 /\ @ = "ready" THEN @ ELSE "authenticated"]
    BY DEF IsClient
  <2> QED
    BY <2>1 DEF Authenticated
<1>5. \A r \in Slots : r \in S <=> r = s
  OBVIOUS
<1> HIDE DEF e, S, d, state
<1>6. CASE mode = "persistent"
  <2>1. /\ IsClient(d) /\ SameUser(e, d) /\ SameLink(e, d) /\ SameTries(e, d)
        /\ \A r \in Slots : d.flows[r] = IF r \in S THEN [e.flows[r] EXCEPT !.pc = "resolve"]
                                         ELSE e.flows[r]
    BY <1>2, <1>4, <1>6, MoveToDoes DEF Pcs
  <2>2. c.flows[s] \in Flow /\ "resolve" \in Pcs
    BY DEF IsClient, Pcs
  <2>3. d.flows[s] = [c.flows[s] EXCEPT !.pc = "resolve"]
    BY <1>3, <1>5, <2>1
  <2>4. Moved(c.flows[s], d.flows[s], "resolve") /\ d.flows[s].at = c.flows[s].at
    BY <2>2, <2>3, MovedFlow
  <2>5. \A r \in Slots : r # s => d.flows[r] = c.flows[r]
    BY <1>3, <1>5, <2>1
  <2>6. SameLink(c, d) /\ SameTries(c, d)
    BY <1>3, <2>1 DEF SameLink, SameTries
  <2> QED
    BY <1>3, <1>6, <2>1, <2>4, <2>5, <2>6 DEF SameUser, Moved, d, state
<1>7. CASE mode # "persistent"
  <2> DEFINE i == Initialize(e, s)
             k == Created(i, s)
  <2>1. /\ IsClient(i) /\ SameLink(e, i) /\ SameTries(e, i)
        /\ i.token = t /\ i.uid = t /\ i.stored = t /\ ~i.kicked
        /\ \A r \in Slots : /\ i.flows[r].op = e.flows[r].op /\ i.flows[r].at = e.flows[r].at
                            /\ IF r = s THEN i.flows[r].latest /\ i.flows[r].token = t
                               ELSE /\ i.flows[r].pc = e.flows[r].pc /\ ~i.flows[r].latest
                                    /\ i.flows[r].token = e.flows[r].token
    BY <1>2, <1>3, InitializeDoes
  <2> HIDE DEF i
  <2>2. /\ IsClient(k) /\ SameLink(i, k) /\ SameTries(i, k)
        /\ k.token = t /\ k.uid = t /\ k.stored = t /\ k.gateway = t /\ ~k.kicked
        /\ \A r \in Slots : /\ k.flows[r].op = i.flows[r].op /\ k.flows[r].at = i.flows[r].at
                            /\ k.flows[r].latest = i.flows[r].latest
                            /\ k.flows[r].token = i.flows[r].token
                            /\ r # s => k.flows[r].pc = i.flows[r].pc
    BY <2>1, CreatedDoes
  <2> HIDE DEF k
  <2>3. k.flows[s].latest /\ d = Inited(k, s)
    BY <1>4, <1>7, <2>1, <2>2 DEF k, i
  <2>4. /\ IsClient(d) /\ SameLink(k, d) /\ SameTries(k, d)
        /\ d.token = t /\ d.uid = t /\ d.gateway = t /\ ~d.kicked /\ d.stored = t
        /\ d.state = "ready" /\ d.view = "app"
        /\ \A r \in Slots : d.flows[r] = IF r = s THEN NoFlow ELSE k.flows[r]
    BY <2>2, <2>3, InitedDoes
  <2>5. SameLink(c, d) /\ SameTries(c, d)
    BY <1>3, <2>1, <2>2, <2>4 DEF SameLink, SameTries
  <2>6. \A r \in Slots : r # s =>
          /\ d.flows[r].op = c.flows[r].op /\ d.flows[r].at = c.flows[r].at
          /\ d.flows[r].pc = c.flows[r].pc /\ d.flows[r].token = c.flows[r].token
          /\ d.flows[r].latest => c.flows[r].latest
    BY <1>3, <2>1, <2>2, <2>4
  <2> QED
    BY <1>7, <2>4, <2>5, <2>6 DEF d
<1> QED
  BY <1>6, <1>7

\* A login or a re-authentication succeeds.
LEMMA AuthenticatedKeeps ==
  ASSUME NEW c, Sound(c), mode \in {"instant", "persistent"}, NEW s \in In(c, {"sent"}),
         NEW t \in Tokens, c.flows[s].op = "reauth" => c.flows[s].token = t
  PROVE  LET d == Authenticated(c, s, t) IN
         /\ Sound(d)
         /\ \A n \in Nat : Counted(c, n) => Counted(d, n)
         /\ Clean(c) /\ ~Exposes(d) => Clean(d) /\ Served(d, t)
<1> DEFINE d == Authenticated(c, s, t)
<1>1. /\ s \in Slots /\ c.flows[s].pc = "sent" /\ c.flows[s].op \in {"login", "reauth"}
      /\ IsClient(c) /\ t # 0 /\ c.socket = "open"
  <2>1. s \in Slots /\ c.flows[s].pc = "sent" /\ IsClient(c)
    BY DEF In, Sound
  <2>2. c.flows[s].op \in Ops /\ FlowOK(c.flows[s])
    BY <2>1 DEF Sound, IsClient, Flow, FlowsOK
  <2>3. In(c, {"sent", "revoke"}) # {}
    BY <2>1 DEF In
  <2> QED
    BY <2>1, <2>2, <2>3 DEF FlowOK, Ops, Tokens, Sound, LinkOK
<1>2. /\ IsClient(d) /\ SameLink(c, d) /\ SameTries(c, d)
      /\ d.token = t /\ d.uid = t /\ d.stored = t
      /\ \A r \in Slots : r # s =>
           /\ d.flows[r].op = c.flows[r].op /\ d.flows[r].at = c.flows[r].at
           /\ d.flows[r].pc = c.flows[r].pc /\ d.flows[r].token = c.flows[r].token
           /\ d.flows[r].latest => c.flows[r].latest
      /\ IF mode = "persistent"
         THEN /\ d.view = c.view /\ d.gateway = c.gateway /\ d.kicked = c.kicked
              /\ d.state = IF c.gateway # 0 /\ c.state = "ready" THEN "ready"
                           ELSE "authenticated"
              /\ d.flows[s].op = c.flows[s].op /\ d.flows[s].at = c.flows[s].at
              /\ d.flows[s].pc = "resolve" /\ d.flows[s].latest = c.flows[s].latest
         ELSE /\ d.view = "app" /\ d.gateway = t /\ ~d.kicked /\ d.state = "ready"
              /\ d.flows[s] = NoFlow
  BY <1>1, AuthenticatedDoes
<1> HIDE DEF d
<1>3. NoFlow.op = "none" /\ NoFlow.pc = "idle" /\ ~NoFlow.latest /\ NoFlow.at = 0
  BY DEF NoFlow
<1>4. In(c, {"connect"}) \cap Running(c, "reauth") = {}
  <2> SUFFICES ASSUME NEW r \in In(c, {"connect"}) \cap Running(c, "reauth") PROVE FALSE
    OBVIOUS
  <2>1. In(c, {"idle"}) = Slots \ {r} /\ r # s
    BY <1>1, RestoringAlone DEF In
  <2> QED
    BY <1>1, <2>1 DEF In
<1>5. /\ \A pcs : {"sent", "idle", "resolve"} \cap pcs = {} => In(d, pcs) = In(c, pcs)
      /\ Restorers(d) \subseteq Restorers(c) \ {s}
      /\ In(d, {"connect"}) \cap Running(d, "reauth") = {}
      /\ Running(d, "kick") = Running(c, "kick")
  <2>1. /\ \A pcs : {"sent", "idle", "resolve"} \cap pcs = {} => In(d, pcs) = In(c, pcs)
        /\ Restorers(d) \subseteq Restorers(c) \ {s}
        /\ Running(d, "kick") = Running(c, "kick")
    BY <1>1, <1>2, <1>3 DEF In, Running, Restorers
  <2>2. In(d, {"connect"}) \cap Running(d, "reauth")
          \subseteq In(c, {"connect"}) \cap Running(c, "reauth")
    BY <1>1, <1>2, <1>3 DEF In, Running
  <2> QED
    BY <1>4, <2>1, <2>2
<1>6. FlowsOK(d)
  BY <1>1, <1>2, <1>3 DEF Sound, FlowsOK, FlowOK
<1>7. AttemptsOK(d)
  <2>1. 0 <= Len(c.attempts)
    BY <1>1 DEF IsClient
  <2>2. \A r \in Slots : d.flows[r].at <= Len(c.attempts)
    BY <1>1, <1>2, <1>3, <2>1 DEF Sound, AttemptsOK, AttemptsBut
  <2>3. \A r \in In(d, {"connect"}) : r \in In(c, {"connect"}) /\ d.flows[r].at = c.flows[r].at
    BY <1>2, <1>3 DEF In
  <2> QED
    BY <1>2, <2>2, <2>3 DEF Sound, AttemptsOK, AttemptsBut, SameTries
<1>8. LinkOK(d)
  BY <1>1, <1>2 DEF Sound, LinkOK, SameLink
<1>9. UserOK(d)
  <2>1. d.view = "start" => Running(d, "reauth") # {}
    BY <1>1, <1>2 DEF Sound, UserOK, Running
  <2>2. mode = "instant" => d.state \in {"idle", "ready"} /\ Starting(d) = {}
    <3> SUFFICES ASSUME mode = "instant" PROVE d.state \in {"idle", "ready"} /\ Starting(d) = {}
      OBVIOUS
    <3>1. Starting(c) = {}
      BY DEF Sound, UserOK
    <3> QED
      BY <1>2, <1>3, <3>1 DEF Starting, In
  <2> QED
    BY <1>1, <1>2, <1>5, <2>1, <2>2 DEF UserOK
<1>10. Sound(d)
  BY <1>2, <1>6, <1>7, <1>8, <1>9 DEF Sound
<1>11. \A n \in Nat : Counted(c, n) => Counted(d, n)
  <2>1. In(d, {"cleanup"}) = In(c, {"cleanup"})
    BY <1>5
  <2> QED
    BY <1>2, <2>1 DEF Counted, SameTries
<1>12. ASSUME Clean(c), ~Exposes(d) PROVE Clean(d) /\ Served(d, t)
  <2>1. c.token = c.uid
    BY DEF Sound, UserOK
  <2>2. c.uid \in {0, t}
    <3>1. CASE c.flows[s].op = "login"
      <4>1. s \in In(c, {"connect", "sent"}) \cap Running(c, "login")
        BY <1>1, <3>1 DEF In, Running
      <4> QED
        BY <1>12, <2>1, <4>1 DEF Clean, Exposes, LoginOverSession
    <3>2. CASE c.flows[s].op = "reauth"
      <4>1. s \in Restorers(c)
        BY <1>1, <3>2 DEF Restorers, In, Running
      <4> QED
        BY <1>12, <3>2, <4>1 DEF Clean, Whole, WholeBut
    <3> QED
      BY <1>1, <3>1, <3>2
  <2>3. In(c, {"revoke"}) = {} /\ Running(c, "kick") = {}
    <3>1. In(c, {"revoke"}) = {}
      BY <1>12 DEF Clean, Exposes, AnswerAfterSignOut
    <3> QED
      BY <3>1 DEF Sound, FlowsOK, FlowOK, Running, In
  <2>4. c.uid = 0 => /\ In(c, {"create", "init"}) = {} /\ In(c, {"init"}) = {}
                     /\ c.gateway = 0 /\ c.state = "idle" /\ Restorers(d) = {}
    <3> SUFFICES ASSUME c.uid = 0
                 PROVE  /\ In(c, {"create", "init"}) = {} /\ In(c, {"init"}) = {}
                        /\ c.gateway = 0 /\ c.state = "idle" /\ Restorers(d) = {}
      OBVIOUS
    <3>1. In(c, {"resolve", "create", "init"}) = {}
      BY <1>12, <2>1 DEF Clean, Exposes, SignedOutInStart
    <3>2. In(c, {"create", "init"}) = {} /\ In(c, {"init"}) = {}
      BY <3>1 DEF In
    <3>3. c.gateway = 0 /\ c.state = "idle"
      BY <1>12 DEF Clean, Whole, WholeBut
    <3>4. \A r \in Restorers(c) : r = s
      BY <1>1 DEF Sound, UserOK, In
    <3> QED
      BY <1>5, <3>2, <3>3, <3>4
  <2>5. /\ In(d, {"create", "init"}) = In(c, {"create", "init"})
        /\ In(d, {"init"}) = In(c, {"init"}) /\ In(d, {"revoke"}) = {}
        /\ \A r \in In(c, {"create", "init"}) \cup In(c, {"init"}) \cup Restorers(d) :
             r \in Slots /\ r # s
    <3>1. /\ In(d, {"create", "init"}) = In(c, {"create", "init"})
          /\ In(d, {"init"}) = In(c, {"init"}) /\ In(d, {"revoke"}) = {}
      BY <1>5, <2>3
    <3>2. \A r \in In(c, {"create", "init"}) \cup In(c, {"init"}) : r \in Slots /\ r # s
      BY <1>1 DEF In
    <3>3. \A r \in Restorers(d) : r \in Slots /\ r # s
      BY <1>5 DEF Restorers, In
    <3> QED
      BY <3>1, <3>2, <3>3
  <2>6. d.gateway \in {0, t} /\ (d.state = "ready" => d.gateway = t) /\ d.state # "idle"
    BY <1>2, <1>12, <2>2, <2>4 DEF Clean, Whole, WholeBut
  <2>7. \A r \in In(d, {"create", "init"}) : d.flows[r].token = t
    BY <1>2, <1>12, <2>2, <2>4, <2>5 DEF Clean, Whole, WholeBut
  <2>8. \A r \in In(d, {"init"}) : d.flows[r].latest => d.gateway = t
    <3> SUFFICES ASSUME NEW r \in In(c, {"init"}), c.flows[r].latest PROVE d.gateway = t
      BY <1>2, <2>5
    <3>1. c.gateway = c.uid /\ c.uid = t
      BY <1>12, <2>2, <2>4 DEF Clean, Whole, WholeBut
    <3> QED
      BY <1>2, <3>1
  <2>9. \A r \in Restorers(d) : d.flows[r].token = t
    BY <1>2, <1>5, <1>12, <2>2, <2>4, <2>5 DEF Clean, Whole, WholeBut
  <2>10. Whole(d)
    BY <1>1, <1>2, <1>5, <2>3, <2>6, <2>7, <2>8, <2>9 DEF Whole, WholeBut
  <2>11. Agreed(d)
    BY <1>1, <1>2, <2>5 DEF Agreed
  <2> QED
    BY <1>2, <1>12, <2>10, <2>11 DEF Clean, Served
<1> QED
  BY <1>10, <1>11, <1>12 DEF d

\* A page that is loaded asks the user, or restores the session it remembers.
LEMMA LoadedIs ==
  ASSUME NEW stored \in 0..MaxLogins
  PROVE  LET d == Loaded(stored) IN
         /\ Sound(d)
         /\ \A n \in Nat : Counted(d, n)
         /\ Clean(d) /\ \A online : Served(d, online)
<1> DEFINE c == Fresh(stored)
           b == Begin(c, "reauth", "connect", stored)
           S == IF stored = 0 THEN {} ELSE {Free(c)}
           r == Free(c)
           g == NewFlow("reauth", "connect", stored)
           e == IF stored = 0 THEN c ELSE b
           d == Loaded(stored)
<1>1. /\ IsClient(c) /\ c.flows = [s \in Slots |-> NoFlow]
      /\ c.socket = "none" /\ ~c.timer /\ c.shown = "disconnected"
      /\ c.attempts = <<>> /\ c.hook = 0 /\ c.current = 0
      /\ c.token = 0 /\ c.uid = 0 /\ c.state = "idle" /\ c.gateway = 0 /\ ~c.kicked
      /\ c.stored = stored /\ c.view = IF stored = 0 THEN "auth" ELSE "start"
  <2>1. 0 \in 0..MaxLogins /\ [s \in Slots |-> NoFlow] \in [Slots -> Flow]
    BY SessionAssumption, NoFlowType
  <2>2. <<>> \in Seq(AttemptType)
    OBVIOUS
  <2>3. IsClient(c)
    BY <2>1, <2>2 DEF Fresh, IsClient
  <2> QED
    BY <2>3 DEF Fresh
<1>2. d = EnsureConnected(e, S)
  BY DEF Loaded, EnsureConnected
<1>3. NoFlow.op = "none" /\ NoFlow.pc = "idle" /\ ~NoFlow.latest /\ NoFlow.at = 0
  BY DEF NoFlow
<1> HIDE DEF c
<1>4. \A s \in Slots : c.flows[s] = NoFlow
  BY <1>1
<1>5. r \in Slots
  <2>1. HasFree(c)
    BY <1>3, <1>4, SessionAssumption DEF HasFree, In
  <2> QED
    BY <2>1, FreeIsIdle
<1>6. /\ "reauth" \in Ops /\ "connect" \in Pcs
      /\ g.op = "reauth" /\ g.pc = "connect" /\ g.at = 0 /\ ~g.latest /\ g.token = stored
  BY NewFlowIs DEF Ops, Pcs
<1>7. /\ IsClient(e) /\ SameUser(c, e) /\ SameLink(c, e) /\ SameTries(c, e)
      /\ \A s \in Slots : e.flows[s] = IF s \in S THEN g ELSE NoFlow
  <2>1. CASE stored = 0
    BY <1>1, <1>4, <2>1 DEF SameUser, SameLink, SameTries
  <2>2. CASE stored # 0
    <3>1. e = b /\ \A s \in Slots : s \in S <=> s = r
      BY <2>2
    <3> HIDE DEF g, e, S, r
    <3>2. /\ IsClient(b) /\ SameUser(c, b) /\ SameLink(c, b) /\ SameTries(c, b)
          /\ \A s \in Slots : b.flows[s] = IF s = r THEN g ELSE c.flows[s]
      BY <1>1, <1>6, BeginDoes DEF g, r
    <3> QED
      BY <1>4, <3>1, <3>2
  <2> QED
    BY <2>1, <2>2
<1>8. /\ stored = 0 => S = {}
      /\ stored # 0 => S = {r}
      /\ \A s \in S : s = r
  OBVIOUS
<1> HIDE DEF e, S, r, g, d
<1>9. AttemptsBut(e, S)
  <2>1. Len(<<>>) = 0 /\ e.attempts = <<>> /\ e.hook = 0 /\ e.current = 0
    BY <1>1, <1>7 DEF SameTries
  <2>2. \A s \in Slots : e.flows[s].at = 0
    BY <1>3, <1>6, <1>7
  <2>3. In(e, {"connect"}) \ S = {}
    BY <1>3, <1>7 DEF In
  <2> QED
    BY <2>1, <2>2, <2>3 DEF AttemptsBut
<1>10. /\ IsClient(d) /\ AttemptsOK(d) /\ SameUser(e, d)
       /\ \/ SameLink(e, d)
          \/ d.socket = "connecting" /\ ~d.timer /\ d.shown = "connecting"
       /\ \A s \in Slots : IF s \in S THEN Moved(e.flows[s], d.flows[s], "connect")
                           ELSE d.flows[s] = e.flows[s]
       /\ Len(d.attempts) <= Len(e.attempts) + 1
  <2>1. e.socket # "open" /\ ~e.timer
    BY <1>1, <1>7 DEF SameLink
  <2> QED
    BY <1>2, <1>7, <1>9, <2>1, EnsureConnectedDoes
<1>11. \A s \in Slots :
         IF s \in S THEN /\ d.flows[s].op = "reauth" /\ d.flows[s].pc = "connect"
                         /\ ~d.flows[s].latest
         ELSE d.flows[s] = NoFlow
  BY <1>6, <1>7, <1>10 DEF Moved
<1>12. SameUser(c, d) /\ ~d.timer /\ d.socket # "open" /\ d.shown # "connected"
  BY <1>1, <1>7, <1>10 DEF SameUser, SameLink
<1>13. /\ Starting(d) = {} /\ In(d, {"create", "init"}) = {} /\ In(d, {"init"}) = {}
       /\ In(d, {"sent", "revoke"}) = {} /\ In(d, {"revoke"}) = {} /\ In(d, {"cleanup"}) = {}
       /\ In(d, {"sent"}) = {} /\ Running(d, "kick") = {} /\ Running(d, "login") = {}
  BY <1>3, <1>11 DEF In, Starting, Running
<1>14. /\ \A s \in Restorers(d) : s \in S /\ stored # 0 /\ In(d, {"idle"}) = Slots \ {s}
       /\ stored # 0 => Restorers(d) # {} /\ Running(d, "reauth") # {}
  <2>1. \A s \in Restorers(d) : s \in S
    BY <1>3, <1>11 DEF Restorers, In, Running
  <2>2. \A s \in S : In(d, {"idle"}) = Slots \ {s}
    BY <1>3, <1>5, <1>8, <1>11 DEF In
  <2>3. stored # 0 => r \in Restorers(d) /\ r \in Running(d, "reauth")
    BY <1>5, <1>8, <1>11 DEF Restorers, In, Running
  <2> QED
    BY <1>8, <2>1, <2>2, <2>3
<1>15. FlowsOK(d)
  BY <1>3, <1>11 DEF FlowsOK, FlowOK
<1>16. LinkOK(d)
  BY <1>12, <1>13 DEF LinkOK
<1>17. UserOK(d)
  BY <1>1, <1>12, <1>13, <1>14 DEF UserOK, SameUser
<1>18. Sound(d)
  BY <1>10, <1>15, <1>16, <1>17 DEF Sound
<1>19. \A n \in Nat : Counted(d, n)
  <2>1. Len(<<>>) = 0 /\ e.attempts = <<>>
    BY <1>1, <1>7 DEF SameTries
  <2>2. Len(d.attempts) <= 1 /\ Len(d.attempts) \in Nat
    BY <1>10, <2>1 DEF IsClient
  <2>3. \A n \in Nat : Len(d.attempts) + 0 <= 1 + n
    BY <2>2
  <2> QED
    BY <1>13, <2>3 DEF Counted
<1>20. ~Exposes(d)
  BY <1>1, <1>12, <1>13
  DEF Exposes, SignedOutInStart, StartsForAnother, AnswerAfterSignOut, LoginOverSession,
      SameUser, Starting
<1>21. Whole(d) /\ Agreed(d)
  BY <1>1, <1>12, <1>13, <1>14 DEF Whole, WholeBut, Agreed, SameUser
<1>22. \A online : Served(d, online)
  BY <1>12 DEF Served
<1> QED
  BY <1>18, <1>19, <1>20, <1>21, <1>22 DEF Clean, d

-----------------------------------------------------------------------------
(* The invariant *)

\* The types of the server and of the bounds used so far.
ServerType ==
  [tokens : SUBSET Tokens, issued : 0..MaxLogins, online : 0..MaxLogins, kick : BOOLEAN]

\* (The proof needs no bound on the faults.)
SpentType == [logins : 0..MaxLogins, faults : Nat]

\* The first page load.
LEMMA InitSessionOK == Init => SessionOK
<1> SUFFICES ASSUME Init PROVE SessionOK
  OBVIOUS
<1>1. 0 \in 0..MaxLogins
  BY SessionAssumption
<1>2. /\ Sound(client) /\ Counted(client, 0)
      /\ Clean(client) /\ Served(client, server.online)
  BY <1>1, LoadedIs DEF Init
<1> QED
  BY <1>1, <1>2 DEF Init, SessionOK

\* What holds of a record holds of the client that becomes it.
LEMMA ClientIs ==
  ASSUME NEW d, client' = d, mode' = mode
  PROVE  /\ Sound(d) => Sound(client)'
         /\ Counted(d, spent'.logins) => Counted(client, spent.logins)'
         /\ Clean(d) => Clean(client)'
         /\ Served(d, server'.online) => Served(client, server.online)'
<1>1. ASSUME Sound(d) PROVE Sound(client)'
  <2>1. IsClient(client)'
    BY <1>1 DEF Sound, IsClient
  <2>2. FlowsOK(client)'
    BY <1>1 DEF Sound, FlowsOK, FlowOK
  <2>3. AttemptsOK(client)'
    <3>1. In(client, {"connect"})' = In(d, {"connect"})
      BY DEF In
    <3>2. AttemptsBut(d, {})
      BY <1>1 DEF Sound, AttemptsOK
    <3>3. AttemptsBut(client, {})'
      BY <3>1, <3>2 DEF AttemptsBut
    <3> QED
      BY <3>3 DEF AttemptsOK
  <2>4. LinkOK(client)'
    BY <1>1 DEF Sound, LinkOK, In
  <2>5. UserOK(client)'
    BY <1>1 DEF Sound, UserOK, In, Running, Restorers, Starting
  <2> QED
    BY <2>1, <2>2, <2>3, <2>4, <2>5 DEF Sound
<1>2. Counted(d, spent'.logins) => Counted(client, spent.logins)'
  BY DEF Counted, In
<1>3. Clean(d) => Clean(client)'
  BY DEF Clean, Exposes, SignedOutInStart, StartsForAnother, AnswerAfterSignOut,
         LoginOverSession, Whole, WholeBut, Agreed, In, Running, Restorers, Starting
<1>4. Served(d, server'.online) => Served(client, server.online)'
  BY DEF Served, In, Running
<1> QED
  BY <1>1, <1>2, <1>3, <1>4

\* A step keeps the invariant when the client's new record is sound, and keeps its
\* promises unless a window has been entered.
LEMMA StepOK ==
  ASSUME SessionOK, NEW d, NEW srv, Step(d, srv),
         Sound(d), srv \in ServerType, spent' \in SpentType, Counted(d, spent'.logins),
         /\ Clean(client) /\ Served(client, server.online) /\ ~Exposes(d)
           => Clean(d) /\ Served(d, srv.online)
  PROVE  SessionOK'
<1>1. client' = d /\ mode' = mode /\ server' = Bound(srv, d)
      /\ exposed' = (exposed \/ Exposes(d))
  BY DEF Step
<1>2. server' \in ServerType
  <2>1. 0 \in 0..MaxLogins
    BY SessionAssumption
  <2> QED
    BY <1>1, <2>1 DEF Bound, ServerType
<1>3. Sound(client)' /\ Counted(client, spent.logins)'
  BY <1>1, ClientIs
<1>5. ~exposed' => Clean(d) /\ Served(d, srv.online)
  BY <1>1 DEF SessionOK
<1>6. ~exposed' => Clean(client)'
  BY <1>1, <1>5, ClientIs
<1>7. ~exposed' => Served(client, server.online)'
  <2>1. d.socket = "open" => server'.online = srv.online
    BY <1>1 DEF Bound
  <2>2. ~exposed' => Served(d, server'.online)
    BY <1>5, <2>1 DEF Served, In, Running
  <2> QED
    BY <1>1, <2>2, ClientIs
<1> QED
  BY <1>1, <1>2, <1>3, <1>6, <1>7 DEF SessionOK, ServerType, SpentType

\* The same for a step that needs no word from the server, and is no login.
LEMMA KeepsOK ==
  ASSUME SessionOK, NEW d, NEW srv, Step(d, srv), Keeps(client, d),
         srv \in ServerType, srv.online = server.online,
         spent' \in SpentType, spent'.logins = spent.logins
  PROVE  SessionOK'
<1>1. spent.logins \in Nat
  BY SessionAssumption DEF SessionOK
<1> QED
  BY <1>1, StepOK DEF Keeps, SessionOK

\* Bounds that a step uses up.
LEMMA SpentOK ==
  ASSUME SessionOK
  PROVE  /\ UNCHANGED spent => spent' \in SpentType /\ spent'.logins = spent.logins
         /\ Faulty => spent' \in SpentType /\ spent'.logins = spent.logins
         /\ spent.logins < MaxLogins /\ Spend("logins")
              => spent' \in SpentType /\ spent'.logins = spent.logins + 1
<1>1. spent \in SpentType
  BY DEF SessionOK, SpentType
<1>2. UNCHANGED spent => spent' \in SpentType /\ spent'.logins = spent.logins
  BY <1>1
<1>3. Faulty => spent' \in SpentType /\ spent'.logins = spent.logins
  <2> SUFFICES ASSUME Faulty PROVE spent' \in SpentType /\ spent'.logins = spent.logins
    OBVIOUS
  <2>1. spent' = [spent EXCEPT !.faults = spent.faults + 1]
    BY <1>1 DEF Faulty, Spend, SpentType
  <2> QED
    BY <1>1, <2>1 DEF SpentType
<1>4. spent.logins < MaxLogins /\ Spend("logins")
        => spent' \in SpentType /\ spent'.logins = spent.logins + 1
  <2> SUFFICES ASSUME spent.logins < MaxLogins, Spend("logins")
               PROVE  spent' \in SpentType /\ spent'.logins = spent.logins + 1
    OBVIOUS
  <2>1. spent' = [spent EXCEPT !.logins = spent.logins + 1]
    BY <1>1 DEF Spend, SpentType
  <2>2. spent.logins + 1 \in 0..MaxLogins
    BY <1>1, SessionAssumption DEF SpentType
  <2> QED
    BY <1>1, <2>1, <2>2 DEF SpentType
<1> QED
  BY <1>2, <1>3, <1>4

\* The server's answers.
LEMMA AnswerOK ==
  ASSUME SessionOK, NEW s \in Slots, Answer(s)
  PROVE  SessionOK'
<1>0. /\ Sound(client) /\ mode \in {"instant", "persistent"} /\ server \in ServerType
      /\ UNCHANGED spent /\ spent \in SpentType
      /\ client.flows[s].token \in 0..MaxLogins
  <2>1. client.flows[s].token \in 0..MaxLogins
    BY DEF SessionOK, Sound, IsClient, Flow
  <2> QED
    BY <2>1, SessionAssumption DEF SessionOK, ServerType, SpentType, Answer
<1>00. spent' \in SpentType /\ spent'.logins = spent.logins /\ spent.logins \in Nat
  BY <1>0, SessionAssumption DEF SpentType
<1> DEFINE t == client.flows[s].token
           new == server.issued + 1
<1>1. CASE /\ s \in In(client, {"sent"})
           /\ Step(Fail(client, {s}), server)
  <2>1. s \in In(client, {"sent", "resolve"})
    BY <1>1 DEF In
  <2>2. Keeps(client, Fail(client, {s}))
    BY <1>0, <2>1, FailureKeeps
  <2> QED
    BY <1>0, <1>00, <1>1, <2>2, KeepsOK
<1>2. CASE /\ s \in In(client, {"sent"}) \cap Running(client, "login")
           /\ new \in Tokens
           /\ Step(Authenticated(client, s, new),
                   [server EXCEPT !.tokens = @ \cup {new}, !.issued = new, !.online = new])
  <2> DEFINE d == Authenticated(client, s, new)
             srv == [server EXCEPT !.tokens = @ \cup {new}, !.issued = new, !.online = new]
  <2>1. srv \in ServerType /\ srv.online = new
    <3>1. new \in 0..MaxLogins
      BY <1>2, SessionAssumption DEF Tokens
    <3> HIDE DEF new
    <3> QED
      BY <1>0, <1>2, <3>1 DEF ServerType
  <2>2. s \in In(client, {"sent"}) /\ new \in Tokens /\ client.flows[s].op # "reauth"
    BY <1>2 DEF Running
  <2> HIDE DEF new
  <2>3. /\ Sound(d)
        /\ \A n \in Nat : Counted(client, n) => Counted(d, n)
        /\ Clean(client) /\ ~Exposes(d) => Clean(d) /\ Served(d, new)
    BY <1>0, <2>2, AuthenticatedKeeps
  <2>4. Step(d, srv)
    BY <1>2
  <2>5. Counted(d, spent'.logins)
    BY <1>00, <2>3 DEF SessionOK
  <2> HIDE DEF d, srv
  <2> QED
    BY <1>00, <2>1, <2>3, <2>4, <2>5, StepOK
<1>3. CASE /\ s \in In(client, {"sent"}) \cap Running(client, "reauth")
           /\ t \in server.tokens
           /\ Step(Authenticated(client, s, t), [server EXCEPT !.online = t])
  <2> DEFINE d == Authenticated(client, s, t)
             srv == [server EXCEPT !.online = t]
  <2>1. t \in Tokens /\ s \in In(client, {"sent"})
    BY <1>0, <1>3 DEF ServerType
  <2>2. srv \in ServerType /\ srv.online = t
    BY <1>0 DEF ServerType
  <2>3. /\ Sound(d)
        /\ \A n \in Nat : Counted(client, n) => Counted(d, n)
        /\ Clean(client) /\ ~Exposes(d) => Clean(d) /\ Served(d, t)
    BY <1>0, <2>1, AuthenticatedKeeps
  <2>4. Step(d, srv)
    BY <1>3
  <2>5. Counted(d, spent'.logins)
    BY <1>00, <2>3 DEF SessionOK
  <2> HIDE DEF d, srv
  <2> QED
    BY <1>00, <2>2, <2>3, <2>4, <2>5, StepOK
<1>4. CASE /\ s \in In(client, {"revoke"})
           /\ Step(SignedOut(client, {s}), [server EXCEPT !.tokens = @ \ {t}])
  <2>1. Keeps(client, SignedOut(client, {s}))
    BY <1>0, <1>4, RevokedKeeps
  <2>2. /\ [server EXCEPT !.tokens = @ \ {t}] \in ServerType
        /\ [server EXCEPT !.tokens = @ \ {t}].online = server.online
    BY <1>0 DEF ServerType
  <2> QED
    BY <1>00, <1>4, <2>1, <2>2, KeepsOK
<1> QED
  BY <1>1, <1>2, <1>3, <1>4 DEF Answer

\* Steps of the network, the timers and the database.
LEMMA ProgressOK ==
  ASSUME SessionOK, Progress
  PROVE  SessionOK'
<1>0. Sound(client) /\ server \in ServerType
  BY DEF SessionOK, ServerType
<1>1. CASE SocketOpens
  <2>1. Keeps(client, Opened(client))
    BY <1>0, <1>1, OpenedKeeps DEF SocketOpens, Keeps
  <2> QED
    BY <1>0, <1>1, <2>1, SpentOK, KeepsOK DEF SocketOpens
<1>2. CASE SocketFails
  <2>1. Keeps(client, Drop(client))
    BY <1>0, <1>2, DropKeeps DEF SocketFails
  <2> QED
    BY <1>0, <1>2, <2>1, SpentOK, KeepsOK DEF SocketFails
<1>3. CASE ReconnectTimer
  <2>1. Keeps(client, Connect([client EXCEPT !.timer = FALSE]))
    BY <1>0, <1>3, ReconnectKeeps DEF ReconnectTimer
  <2> QED
    BY <1>0, <1>3, <2>1, SpentOK, KeepsOK DEF ReconnectTimer
<1>4. ASSUME NEW a \in DOMAIN client.attempts, AttemptTimer(a) PROVE SessionOK'
  <2>1. a \in 1..Len(client.attempts)
    BY <1>0, <1>4 DEF Sound, IsClient
  <2>2. Keeps(client, GiveUp(client, a))
    BY <1>0, <2>1, GiveUpKeeps
  <2> QED
    BY <1>0, <1>4, <2>2, SpentOK, KeepsOK DEF AttemptTimer
<1>5. ASSUME NEW s \in Slots, RequestTimer(s) PROVE SessionOK'
  <2>1. CASE s \in In(client, {"sent"}) /\ Step(Fail(client, {s}), server)
    <3>1. s \in In(client, {"sent", "resolve"})
      BY <2>1 DEF In
    <3>2. Keeps(client, Fail(client, {s}))
      BY <1>0, <3>1, FailureKeeps
    <3> QED
      BY <1>0, <1>5, <2>1, <3>2, SpentOK, KeepsOK DEF RequestTimer
  <2>2. ASSUME s \in In(client, {"revoke"}), NEW done \in SUBSET {client.flows[s].token},
               Step(SignedOut(client, {s}), [server EXCEPT !.tokens = @ \ done])
        PROVE  SessionOK'
    <3>1. Keeps(client, SignedOut(client, {s}))
      BY <1>0, <2>2, RevokedKeeps
    <3>2. /\ [server EXCEPT !.tokens = @ \ done] \in ServerType
          /\ [server EXCEPT !.tokens = @ \ done].online = server.online
      BY <1>0 DEF ServerType
    <3> QED
      BY <1>5, <2>2, <3>1, <3>2, SpentOK, KeepsOK DEF RequestTimer
  <2> QED
    BY <1>5, <2>1, <2>2 DEF RequestTimer
<1>6. ASSUME NEW s \in Slots, StorageChecked(s) PROVE SessionOK'
  <2>1. Keeps(client, Resolved(client, s))
    BY <1>0, <1>6, ResolvedKeeps DEF StorageChecked
  <2> QED
    BY <1>0, <1>6, <2>1, SpentOK, KeepsOK DEF StorageChecked
<1>7. ASSUME NEW s \in Slots, DatabaseOpens(s) PROVE SessionOK'
  <2>1. CASE s \in In(client, {"create"}) /\ Step(Created(client, s), server)
    <3>1. Keeps(client, Created(client, s))
      BY <1>0, <2>1, CreatedKeeps
    <3> QED
      BY <1>0, <1>7, <2>1, <3>1, SpentOK, KeepsOK DEF DatabaseOpens
  <2>2. CASE s \in In(client, {"init"}) /\ Step(Inited(client, s), server)
    <3>1. Keeps(client, Inited(client, s))
      BY <1>0, <2>2, InitedKeeps
    <3> QED
      BY <1>0, <1>7, <2>2, <3>1, SpentOK, KeepsOK DEF DatabaseOpens
  <2> QED
    BY <1>7, <2>1, <2>2 DEF DatabaseOpens
<1>8. ASSUME NEW s \in Slots, DatabaseFails(s) PROVE SessionOK'
  <2>1. Keeps(client, SessionFailed(client, s))
    BY <1>0, <1>8, SessionFailedKeeps DEF DatabaseFails
  <2> QED
    BY <1>0, <1>8, <2>1, SpentOK, KeepsOK DEF DatabaseFails
<1>9. CASE KickArrives
  <2>1. Keeps(client, [client EXCEPT !.kicked = @ \/ client.gateway # 0])
    BY <1>0, KickArrivesKeeps
  <2>2. /\ [server EXCEPT !.kick = FALSE] \in ServerType
        /\ [server EXCEPT !.kick = FALSE].online = server.online
    BY <1>0 DEF ServerType
  <2> QED
    BY <1>9, <2>1, <2>2, SpentOK, KeepsOK DEF KickArrives
<1>10. CASE KickLeavesQueue
  <2>1. Keeps(client, KickHandled(client))
    BY <1>0, <1>10, KickKeeps DEF KickLeavesQueue
  <2> QED
    BY <1>0, <1>10, <2>1, SpentOK, KeepsOK DEF KickLeavesQueue
<1> QED
  BY <1>1, <1>2, <1>3, <1>4, <1>5, <1>6, <1>7, <1>8, <1>9, <1>10, AnswerOK DEF Progress

\* Every step keeps the invariant.
LEMMA NextSessionOK == SessionOK /\ [Next]_vars => SessionOK'
<1> SUFFICES ASSUME SessionOK, [Next]_vars PROVE SessionOK'
  OBVIOUS
<1>0. Sound(client) /\ server \in ServerType
  BY DEF SessionOK, ServerType
<1>1. CASE Progress
  BY <1>1, ProgressOK
<1>2. CASE Reload
  <2> DEFINE d == Loaded(client.stored)
             srv == [server EXCEPT !.online = 0, !.kick = FALSE]
  <2>1. client.stored \in 0..MaxLogins
    BY <1>0 DEF Sound, IsClient
  <2>2. /\ Sound(d) /\ \A n \in Nat : Counted(d, n)
        /\ Clean(d) /\ \A online : Served(d, online)
    BY <2>1, LoadedIs
  <2>3. srv \in ServerType
    <3>1. 0 \in 0..MaxLogins
      BY SessionAssumption
    <3> QED
      BY <1>0, <3>1 DEF ServerType
  <2>4. Step(d, srv) /\ Faulty
    BY <1>2 DEF Reload
  <2>5. spent' \in SpentType /\ spent'.logins \in Nat
    BY <2>4, SpentOK, SessionAssumption DEF SpentType, SessionOK
  <2> HIDE DEF d, srv
  <2> QED
    BY <2>2, <2>3, <2>4, <2>5, StepOK
<1>3. CASE LoginClicked
  <2> DEFINE b == Begin(client, "login", "cleanup", 0)
             d == IF Running(client, "kick") # {} THEN b
                  ELSE EnsureConnected(b, {Free(client)})
  <2>1. /\ Sound(d)
        /\ \A n \in Nat : Counted(client, n) => Counted(d, n + 1)
        /\ Clean(client) /\ ~Exposes(d) =>
             Clean(d) /\ \A online : Served(client, online) => Served(d, online)
    BY <1>0, <1>3, LoginKeeps DEF LoginClicked
  <2>2. Step(d, server) /\ Spend("logins") /\ spent.logins < MaxLogins
    BY <1>3 DEF LoginClicked
  <2>3. spent' \in SpentType /\ spent'.logins = spent.logins + 1
    BY <2>2, SpentOK
  <2>4. spent.logins \in Nat /\ Counted(client, spent.logins)
    BY SessionAssumption DEF SessionOK
  <2> HIDE DEF d
  <2> QED
    BY <1>0, <2>1, <2>2, <2>3, <2>4, StepOK
<1>4. CASE LogoutClicked
  <2> DEFINE d == LogOut(Begin([client EXCEPT !.stored = 0], "logout", "revoke", 0),
                         {Free(client)})
  <2>1. Keeps(client, d)
    BY <1>0, <1>4, LogoutKeeps DEF LogoutClicked
  <2>2. Step(d, server) /\ UNCHANGED spent
    BY <1>4 DEF LogoutClicked
  <2> HIDE DEF d
  <2> QED
    BY <1>0, <2>1, <2>2, SpentOK, KeepsOK
<1>5. CASE SocketDrops
  <2>1. Keeps(client, Drop(client))
    BY <1>0, <1>5, DropKeeps DEF SocketDrops
  <2> QED
    BY <1>0, <1>5, <2>1, SpentOK, KeepsOK DEF SocketDrops
<1>6. ASSUME NEW t \in Tokens, PasswordChanged(t) PROVE SessionOK'
  <2> DEFINE srv == [server EXCEPT !.tokens = @ \ {t}, !.kick = @ \/ server.online = t]
  <2>1. srv \in ServerType /\ srv.online = server.online
    BY <1>0 DEF ServerType
  <2>2. Step(client, srv) /\ Faulty
    BY <1>6 DEF PasswordChanged
  <2>3. Keeps(client, client)
    BY <1>0 DEF Keeps
  <2> HIDE DEF srv
  <2> QED
    BY <2>1, <2>2, <2>3, SpentOK, KeepsOK
<1>7. CASE UNCHANGED vars
  <2>1. /\ mode' = mode /\ client' = client /\ server' = server
        /\ exposed' = exposed /\ spent' = spent
    BY <1>7 DEF vars
  <2>2. Sound(client)' /\ Counted(client, spent.logins)'
    BY <1>0, <2>1, ClientIs DEF SessionOK
  <2>3. ~exposed' => Clean(client)' /\ Served(client, server.online)'
    BY <2>1, ClientIs DEF SessionOK
  <2> QED
    BY <2>1, <2>2, <2>3 DEF SessionOK
<1> QED
  BY <1>1, <1>2, <1>3, <1>4, <1>5, <1>6, <1>7 DEF Next

\* Types; and a flow that waits to connect waits on an attempt whose timer runs.
LEMMA OKTyped == SessionOK => TypeOK
<1> SUFFICES ASSUME SessionOK PROVE TypeOK
  OBVIOUS
<1>1. /\ IsClient(client) /\ AttemptsOK(client) /\ LinkOK(client)
      /\ Counted(client, spent.logins) /\ spent.logins \in 0..MaxLogins /\ MaxLogins \in Nat
  BY SessionAssumption DEF SessionOK, Sound
<1>2. Len(client.attempts) \in Nat /\ Len(client.attempts) <= MaxLogins + 1
  <2>1. Len(client.attempts) \in Nat
    BY <1>1 DEF IsClient
  <2>2. Len(client.attempts) + 0 <= 1 + spent.logins
        \/ Len(client.attempts) + 1 <= 1 + spent.logins
    BY <1>1 DEF Counted
  <2> QED
    BY <1>1, <2>1, <2>2
<1>3. client.flows \in [Slots -> FlowType]
  <2> SUFFICES ASSUME NEW s \in Slots PROVE client.flows[s] \in FlowType
    BY <1>1 DEF IsClient
  <2>1. client.flows[s] \in Flow /\ client.flows[s].at <= Len(client.attempts)
    BY <1>1 DEF IsClient, AttemptsOK, AttemptsBut
  <2>2. client.flows[s].at \in 0..(MaxLogins + 1)
    BY <1>1, <1>2, <2>1 DEF Flow
  <2> QED
    BY <2>1, <2>2 DEF Flow, FlowType
<1>4. \A s \in In(client, {"connect"}) : client.attempts[client.flows[s].at].live
  BY <1>1 DEF AttemptsOK, AttemptsBut
<1>5. {client.hook, client.current} \subseteq 0..Len(client.attempts)
  BY <1>1, <1>2 DEF IsClient, AttemptsOK, AttemptsBut
<1>6. client.timer => client.socket = "closed"
  BY <1>1 DEF LinkOK
<1>7. client.attempts \in Seq([live : BOOLEAN, orig : Nat])
  BY <1>1 DEF IsClient, AttemptType
<1> QED
  BY <1>1, <1>3, <1>4, <1>5, <1>6, <1>7 DEF TypeOK, SessionOK, IsClient

\* A session that is at rest.
LEMMA RestIs ==
  ASSUME NEW c, AtRest(c), IsClient(c), FlowsOK(c)
  PROVE  /\ \A op : op # "none" => Running(c, op) = {}
         /\ \A pcs : pcs \subseteq Pcs \ {"idle"} => In(c, pcs) = {}
         /\ Restorers(c) = {}
<1>1. \A s \in Slots : c.flows[s].pc = "idle" /\ c.flows[s].op = "none"
  BY DEF AtRest, In, IsClient, Flow, FlowsOK, FlowOK
<1> QED
  BY <1>1 DEF Running, In, Restorers

\* At rest the promises of the kit, the SDK and the server are the invariant's.
LEMMA OKAgrees == SessionOK => HostAgrees /\ ServedAsSelf
<1> SUFFICES ASSUME SessionOK, ~exposed, AtRest(client)
             PROVE  /\ client.stored = client.token /\ client.token = client.uid
                    /\ client.token = 0 <=> client.state = "idle"
                    /\ client.token = 0 => /\ client.gateway = 0 /\ ~client.timer
                                           /\ client.view = "auth"
                    /\ client.view = "app" =>
                         client.token # 0 /\ (mode = "instant" => client.state = "ready")
                    /\ client.state = "ready" /\ client.socket = "open"
                         => server.online = client.uid
  BY DEF HostAgrees, ServedAsSelf
<1>1. /\ IsClient(client) /\ FlowsOK(client) /\ LinkOK(client) /\ UserOK(client)
      /\ Whole(client) /\ Agreed(client) /\ Served(client, server.online)
  BY DEF SessionOK, Sound, Clean
<1>2. /\ Running(client, "reauth") = {} /\ In(client, {"revoke"}) = {}
      /\ In(client, {"sent"}) = {} /\ Restorers(client) = {}
  BY <1>1, RestIs DEF Pcs
<1>3. client.token = client.uid /\ client.stored = client.uid
  BY <1>1, <1>2 DEF UserOK, Agreed
<1>4. client.view # "start"
  BY <1>1, <1>2 DEF UserOK
<1>5. client.token = 0 <=> client.state = "idle"
  BY <1>1, <1>3 DEF Whole, WholeBut
<1>6. client.token = 0 => /\ client.gateway = 0 /\ ~client.timer /\ client.view = "auth"
  BY <1>1, <1>3, <1>4 DEF Whole, WholeBut, LinkOK, Agreed, IsClient
<1>7. client.view = "app" =>
        client.token # 0 /\ (mode = "instant" => client.state = "ready")
  BY <1>1, <1>3, <1>5 DEF Agreed, UserOK
<1>8. client.state = "ready" /\ client.socket = "open" => server.online = client.uid
  BY <1>1, <1>2, <1>3, <1>5 DEF Served
<1> QED
  BY <1>3, <1>5, <1>6, <1>7, <1>8

\* In every reachable state the client is sound, and keeps its promises unless a window
\* has been entered.
THEOREM AlwaysSessionOK == Spec => []SessionOK
<1>1. Init => SessionOK
  BY InitSessionOK
<1>2. SessionOK /\ [Next]_vars => SessionOK'
  BY NextSessionOK
<1> QED
  BY <1>1, <1>2, PTL DEF Spec

\* Every call that waits to connect waits on an attempt whose own timer still runs,
\* so that ensureConnected cannot hang; and a reconnect timer runs on a closed socket
\* only.
THEOREM SessionTyped == Spec => []TypeOK
BY AlwaysSessionOK, OKTyped, PTL

\* The snapshot says "connected" exactly while the socket is open, however the stacked
\* wrappers of ensureConnected, their timers and the closes of the socket interleave.
THEOREM ConnectionAlwaysShown == Spec => []ConnectionShown
<1>1. SessionOK => ConnectionShown
  BY DEF SessionOK, Sound, LinkOK, ConnectionShown
<1> QED
  BY <1>1, AlwaysSessionOK, PTL

\* A session that says "ready" has a token, a user and that user's gateway, however
\* many calls of startSession overlap, fail or are overtaken.
THEOREM ReadySessionsWhole == Spec => []ReadyIsWhole
<1>1. SessionOK => ReadyIsWhole
  BY DEF SessionOK, Sound, UserOK, Clean, Whole, WholeBut, ReadyIsWhole
<1> QED
  BY <1>1, AlwaysSessionOK, PTL

\* When no call is under way the kit and the SDK agree on who is signed in.
THEOREM HostAlwaysAgrees == Spec => []HostAgrees
BY AlwaysSessionOK, OKAgrees, PTL

\* When no call is under way, the server knows the open connection of a ready session
\* as its user's.
THEOREM AlwaysServedAsSelf == Spec => []ServedAsSelf
BY AlwaysSessionOK, OKAgrees, PTL
=============================================================================
