------------------------------ MODULE Session ------------------------------
(***************************************************************************)
(* The session of one client: WsTransport, ClientSessionRuntime and the    *)
(* lifecycle of YimsgClient (packages/sdk/src), driven by the web kit's    *)
(* auth view (packages/uikit/src/app/views/auth.ts) and a server that      *)
(* issues, checks and revokes tokens.                                      *)
(*                                                                         *)
(* The code is single-threaded: an action is one task of the event loop    *)
(* with every promise continuation it sets off.  What spans several tasks  *)
(* is a flow: a call of login, authenticate or logout, at the await where  *)
(* it is suspended.  Every login is given to a new user, so a number       *)
(* stands for a token and for the user it belongs to; 0 is none.           *)
(*                                                                         *)
(* The web kit uses sessions in memory only, which start without waiting;  *)
(* a persistent session opens a local database, and is explored under the  *)
(* same host.                                                              *)
(***************************************************************************)
EXTENDS Naturals, Sequences, FiniteSets

CONSTANTS
  Modes,      \* the storage to explore: "instant", "persistent"
  Slots,      \* bound: flows that are under way at once
  MaxLogins,  \* bound: logins that the user tries
  MaxFaults   \* bound: lost connections, requests, reloads and kicks

ASSUME SessionAssumption ==
  /\ Modes \subseteq {"instant", "persistent"}
  /\ Slots \subseteq Nat /\ Slots # {} /\ IsFiniteSet(Slots)
  /\ MaxLogins \in Nat /\ MaxFaults \in Nat

VARIABLES
  mode,     \* the storage that the host asks for
  client,   \* transport, runtime, lifecycle and kit (see Fresh)
  server,   \* valid tokens, logins done, whose connection this is, kick on the wire
  exposed,  \* history: a window was entered in which the code breaks a promise
  spent     \* bounds used so far: logins, faults

vars == <<mode, client, server, exposed, spent>>

Tokens == 1..MaxLogins

Ops == {"none", "login", "reauth", "logout", "kick"}

\* Where a flow is suspended: the clean-up of a kicked session, the attempt
\* to connect, the answer to login or authenticate, the check for a local
\* database, its opening, the gateway's init, the answer to logout.
Pcs == {"idle", "cleanup", "connect", "sent", "resolve", "create", "init", "revoke"}

NoFlow == [op |-> "none", pc |-> "idle", at |-> 0, token |-> 0, latest |-> FALSE]

\* socket, timer: WsTransport; shown: the lifecycle's connectionState.
\* attempts: the timers and wrappers of ensureConnected; hook: the wrapper
\* installed as onConnected, 0 for the handler of the constructor; current:
\* connectPromise.
\* gateway: the user whose data gateway is installed; kicked: its queue holds
\* a session:kicked.  stored, view: the kit's token and what it shows.
Fresh(stored) ==
  [socket |-> "none", timer |-> FALSE, shown |-> "disconnected",
   attempts |-> <<>>, hook |-> 0, current |-> 0,
   token |-> 0, uid |-> 0, state |-> "idle", gateway |-> 0, kicked |-> FALSE,
   stored |-> stored, view |-> IF stored = 0 THEN "auth" ELSE "start",
   flows |-> [s \in Slots |-> NoFlow]]

-----------------------------------------------------------------------------
(* Flows *)

In(c, pcs) == {s \in Slots : c.flows[s].pc \in pcs}

Running(c, op) == {s \in Slots : c.flows[s].op = op}

HasFree(c) == In(c, {"idle"}) # {}

Free(c) == CHOOSE s \in In(c, {"idle"}) : \A t \in In(c, {"idle"}) : s <= t

End(c, S) == [c EXCEPT !.flows = [s \in Slots |-> IF s \in S THEN NoFlow ELSE @[s]]]

MoveTo(c, S, pc) ==
  [c EXCEPT !.flows = [s \in Slots |-> IF s \in S THEN [@[s] EXCEPT !.pc = pc] ELSE @[s]]]

Begin(c, op, pc, token) ==
  [c EXCEPT !.flows[Free(c)] = [NoFlow EXCEPT !.op = op, !.pc = pc, !.token = token]]

-----------------------------------------------------------------------------
(* Connecting *)

ConnectKeepsTimer(c) == [c EXCEPT !.socket = "connecting"]

Connect(c) ==
  IF c.socket = "connecting" THEN c
  ELSE [c EXCEPT !.socket = "connecting", !.timer = FALSE]

\* Each attempt wraps the onConnected handler that it finds.
Attempt(c) ==
  LET n == Len(c.attempts) + 1 IN
  Connect([c EXCEPT !.shown = "connecting", !.current = n, !.hook = n,
                    !.attempts = Append(@, [live |-> TRUE, orig |-> c.hook])])

EnsureConnected(c, S) ==
  LET d == IF c.current # 0 THEN c ELSE Attempt(c) IN
  CASE S = {} -> c
    [] S # {} /\ c.socket = "open" -> MoveTo(c, S, "sent")
    [] OTHER -> [MoveTo(d, S, "connect") EXCEPT
                   !.flows = [s \in Slots |-> IF s \in S THEN [@[s] EXCEPT !.at = d.current]
                                              ELSE @[s]]]

\* The wrappers that run when the socket opens.
Chain(c) ==
  LET from[a \in 0..Len(c.attempts)] ==
        IF a = 0 THEN {} ELSE {a} \cup from[c.attempts[a].orig]
  IN  from[c.hook]

\* The outermost wrapper's clean-up comes last: it reinstalls what it wrapped.
RunHooks(c) ==
  LET waiting == {s \in In(c, {"connect"}) : c.flows[s].at \in Chain(c)}
      settled == [a \in DOMAIN c.attempts |->
                    [c.attempts[a] EXCEPT !.live = @ /\ a \notin Chain(c)]] IN
  [MoveTo(c, waiting, "sent") EXCEPT
     !.attempts = settled,
     !.current = IF c.hook = 0 THEN @ ELSE 0,
     !.hook = IF @ = 0 THEN 0 ELSE c.attempts[@].orig]

\* The kit authenticates again on every connection of a session it remembers.
Recalls(c) == c.stored # 0 /\ c.uid # 0

OpenedUnwrapped(c) ==
  RunHooks(LET d == [c EXCEPT !.socket = "open",
                              !.shown = IF c.hook = 0 THEN "connected" ELSE @] IN
           IF c.hook = 0 /\ Recalls(c) THEN Begin(d, "reauth", "sent", c.stored) ELSE d)

OpenedOnce(c) ==
  RunHooks(LET d == [c EXCEPT !.socket = "open", !.shown = "connected"] IN
           IF Recalls(c) /\ c.token = 0 THEN Begin(d, "reauth", "sent", c.stored) ELSE d)

Opened(c) ==
  RunHooks(LET d == [c EXCEPT !.socket = "open", !.shown = "connected"] IN
           IF Recalls(c) THEN Begin(d, "reauth", "sent", c.stored) ELSE d)

-----------------------------------------------------------------------------
(* Signing out *)

WithoutGateway(c) == [c EXCEPT !.gateway = 0, !.kicked = FALSE]

\* The end of logout() in the flows S: the transport rejects every request;
\* a re-authentication among them forgets the token and logs out as well, and
\* logins that wait for the clean-up of a kick go on.
SignedOut(c, S) ==
  LET rejected == In(c, {"sent", "revoke"})
      over     == S \cup rejected
      out      == [End(WithoutGateway(c), over) EXCEPT
                     !.socket = "none", !.timer = FALSE, !.shown = "disconnected",
                     !.token = 0, !.uid = 0, !.state = "idle",
                     !.stored = IF rejected \cap Running(c, "reauth") # {} THEN 0 ELSE @,
                     !.view = IF over \cap (Running(c, "logout") \cup Running(c, "reauth")) # {}
                              THEN "auth" ELSE @]
  IN  EnsureConnected(out, In(out, {"cleanup"}))

\* logout() asks the server to revoke the token when it can.
LogOut(c, S) ==
  IF c.socket = "open" /\ c.token # 0
  THEN [MoveTo(c, S, "revoke") EXCEPT
          !.flows = [s \in Slots |-> IF s \in S THEN [@[s] EXCEPT !.token = c.token] ELSE @[s]]]
  ELSE SignedOut(c, S)

\* A login that fails reports it; a re-authentication that fails, for whatever
\* reason, forgets the token and logs out.
Fail(c, S) ==
  LET again == S \cap Running(c, "reauth")
      d     == End(c, S \ again) IN
  IF again = {} THEN d ELSE LogOut([d EXCEPT !.stored = 0], again)

\* onclose: a connection without a token is not tried again; pending requests
\* are rejected, and a rejected authenticate or logout ends in logout's end.
DropForGood(c) ==
  LET d == [c EXCEPT !.current = 0, !.shown = "disconnected", !.socket = "closed"]
      rejected == In(c, {"sent", "revoke"})
  IN  IF rejected \subseteq Running(c, "login") THEN End(d, rejected) ELSE SignedOut(d, {})

Drop(c) ==
  LET d == [c EXCEPT !.current = 0, !.shown = "disconnected",
                     !.socket = IF c.token = 0 THEN "none" ELSE "closed",
                     !.timer = c.token # 0]
      rejected == In(c, {"sent", "revoke"})
  IN  IF rejected \subseteq Running(c, "login") THEN End(d, rejected) ELSE SignedOut(d, {})

\* The timer of attempt a: it reinstalls what a's wrapper replaced, and forgets
\* connectPromise, which may be a later attempt's.
GiveUpSilently(c, a) ==
  [c EXCEPT !.attempts[a].live = FALSE, !.hook = c.attempts[a].orig, !.current = 0]

GiveUp(c, a) ==
  Fail([c EXCEPT !.attempts[a].live = FALSE, !.hook = c.attempts[a].orig, !.current = 0],
       {s \in In(c, {"connect"}) : c.flows[s].at = a})

-----------------------------------------------------------------------------
(* Starting a session *)

IsAuthenticated(c) == c.state \in {"authenticated", "initializing", "ready"}

\* The kit renders the session as soon as startSession returns.
Shown(c, s) == [End(c, {s}) EXCEPT !.view = "app"]

\* Only the last call of startSession may finish; it drops the gateway.
Initialize(c, s) ==
  [WithoutGateway(c) EXCEPT
     !.state = "initializing",
     !.flows = [t \in Slots |->
        IF t = s THEN [@[t] EXCEPT !.pc = "create", !.token = c.uid, !.latest = TRUE]
        ELSE [@[t] EXCEPT !.latest = FALSE]]]

Resolved(c, s) == IF IsAuthenticated(c) THEN Initialize(c, s) ELSE Fail(c, {s})

\* The gateway is installed without a look at who is the last.
Created(c, s) == [MoveTo(c, {s}, "init") EXCEPT !.gateway = c.flows[s].token]

InitedAnyway(c, s) == Shown([c EXCEPT !.state = "ready"], s)

Inited(c, s) ==
  Shown(IF c.flows[s].latest THEN [c EXCEPT !.state = "ready"] ELSE c, s)

SessionFailed(c, s) ==
  IF c.flows[s].latest
  THEN Fail([WithoutGateway(c) EXCEPT !.state = "authenticated"], {s})
  ELSE Shown(c, s)

\* login or authenticate has returned with token t; the kit stores it and starts
\* a session.
Authenticated(c, s, t) ==
  LET d == [c EXCEPT !.token = t, !.uid = t, !.stored = t,
                     !.state = IF c.gateway # 0 /\ @ = "ready" THEN @ ELSE "authenticated"]
  IN  IF mode = "persistent" THEN MoveTo(d, {s}, "resolve")
      ELSE Inited(Created(Initialize(d, s), s), s)

\* session:kicked leaves the gateway's queue; one clean-up at a time.
KickHandledLightly(c) ==
  LET d == [c EXCEPT !.kicked = FALSE, !.view = "auth"] IN
  IF Running(c, "kick") # {} THEN d ELSE LogOut(Begin(d, "kick", "revoke", 0), {Free(d)})

KickHandled(c) ==
  LET d == [c EXCEPT !.kicked = FALSE, !.stored = 0, !.view = "auth"] IN
  IF Running(c, "kick") # {} THEN d ELSE LogOut(Begin(d, "kick", "revoke", 0), {Free(d)})

-----------------------------------------------------------------------------
(* Steps *)

\* Windows in which a promise of the documents is not kept: the user signs out
\* while a persistent session starts; sessions of two users start at once; a
\* re-authentication is answered before the logout that overtook it; a login
\* that was submitted twice signs in over a session.
SignedOutInStart(c) ==
  In(c, {"resolve", "create", "init"}) # {} /\ (c.token = 0 \/ In(c, {"revoke"}) # {})

StartsForAnother(c) ==
  \E s, t \in In(c, {"create", "init"}) : c.flows[s].token # c.flows[t].token

AnswerAfterSignOut(c) == In(c, {"revoke"}) # {} /\ In(c, {"sent"}) # {}

LoginOverSession(c) ==
  c.token # 0 /\ In(c, {"connect", "sent"}) \cap Running(c, "login") # {}

Exposes(c) ==
  \/ SignedOutInStart(c) \/ StartsForAnother(c)
  \/ AnswerAfterSignOut(c) \/ LoginOverSession(c)

\* The server forgets a connection that is not open.
Bound(srv, c) ==
  IF c.socket = "open" THEN srv ELSE [srv EXCEPT !.online = 0, !.kick = FALSE]

Step(c, srv) ==
  /\ client' = c
  /\ server' = Bound(srv, c)
  /\ exposed' = (exposed \/ Exposes(c))
  /\ UNCHANGED mode

Spend(what) == spent' = [spent EXCEPT ![what] = @ + 1]

Faulty == spent.faults < MaxFaults /\ Spend("faults")

\* A page load finds a token in storage, or asks the user.
Loaded(stored) ==
  LET c == Fresh(stored) IN
  IF stored = 0 THEN c ELSE EnsureConnected(Begin(c, "reauth", "connect", stored), {Free(c)})

Init ==
  /\ mode \in Modes
  /\ client = Loaded(0)
  /\ server = [tokens |-> {}, issued |-> 0, online |-> 0, kick |-> FALSE]
  /\ exposed = FALSE
  /\ spent = [logins |-> 0, faults |-> 0]

Reload == Faulty /\ Step(Loaded(client.stored), [server EXCEPT !.online = 0, !.kick = FALSE])

(* The user *)

LoginClicked ==
  /\ client.view = "auth" /\ HasFree(client) /\ spent.logins < MaxLogins
  /\ Spend("logins")
  /\ LET c == Begin(client, "login", "cleanup", 0) IN
     Step(IF Running(client, "kick") # {} THEN c ELSE EnsureConnected(c, {Free(client)}), server)

LogoutClicked ==
  /\ client.view = "app" /\ HasFree(client)
  /\ LET c == Begin([client EXCEPT !.stored = 0], "logout", "revoke", 0) IN
     Step(LogOut(c, {Free(client)}), server)
  /\ UNCHANGED spent

(* The network and the timers *)

SocketOpens ==
  /\ client.socket = "connecting" /\ HasFree(client)
  /\ Step(Opened(client), server)
  /\ UNCHANGED spent

SocketFails == client.socket = "connecting" /\ Faulty /\ Step(Drop(client), server)

SocketDrops == client.socket = "open" /\ Faulty /\ Step(Drop(client), server)

ReconnectTimer ==
  /\ client.timer
  /\ Step(Connect([client EXCEPT !.timer = FALSE]), server)
  /\ UNCHANGED spent

AttemptTimer(a) ==
  /\ a \in DOMAIN client.attempts /\ client.attempts[a].live
  /\ Step(GiveUp(client, a), server)
  /\ UNCHANGED spent

(* Requests *)

Answer(s) ==
  LET t == client.flows[s].token
      new == server.issued + 1 IN
  /\ client.socket = "open"
  /\ \/ /\ s \in In(client, {"sent"}) \cap Running(client, "login")
        /\ \/ Step(Fail(client, {s}), server)
           \/ /\ new \in Tokens
              /\ Step(Authenticated(client, s, new),
                      [server EXCEPT !.tokens = @ \cup {new}, !.issued = new, !.online = new])
     \/ /\ s \in In(client, {"sent"}) \cap Running(client, "reauth")
        /\ IF t \in server.tokens
           THEN Step(Authenticated(client, s, t), [server EXCEPT !.online = t])
           ELSE Step(Fail(client, {s}), server)
     \/ /\ s \in In(client, {"revoke"})
        /\ Step(SignedOut(client, {s}), [server EXCEPT !.tokens = @ \ {t}])
  /\ UNCHANGED spent

\* No answer in time; a logout may have been carried out.
RequestTimer(s) ==
  /\ Faulty
  /\ \/ s \in In(client, {"sent"}) /\ Step(Fail(client, {s}), server)
     \/ /\ s \in In(client, {"revoke"})
        /\ \E done \in SUBSET {client.flows[s].token} :
             Step(SignedOut(client, {s}), [server EXCEPT !.tokens = @ \ done])

(* Persistent sessions *)

StorageChecked(s) ==
  /\ s \in In(client, {"resolve"})
  /\ Step(Resolved(client, s), server)
  /\ UNCHANGED spent

DatabaseOpens(s) ==
  /\ \/ s \in In(client, {"create"}) /\ Step(Created(client, s), server)
     \/ s \in In(client, {"init"}) /\ Step(Inited(client, s), server)
  /\ UNCHANGED spent

DatabaseFails(s) ==
  /\ s \in In(client, {"create", "init"}) /\ Faulty
  /\ Step(SessionFailed(client, s), server)

(* A password change revokes every token of the user *)

PasswordChanged(t) ==
  /\ t \in server.tokens /\ Faulty
  /\ Step(client, [server EXCEPT !.tokens = @ \ {t}, !.kick = @ \/ server.online = t])

KickArrives ==
  /\ server.kick
  /\ Step([client EXCEPT !.kicked = @ \/ client.gateway # 0], [server EXCEPT !.kick = FALSE])
  /\ UNCHANGED spent

KickLeavesQueue ==
  /\ client.kicked /\ HasFree(client)
  /\ Step(KickHandled(client), server)
  /\ UNCHANGED spent

\* What happens by itself: connections, timers, answers, the database, kicks.
Progress ==
  \/ SocketOpens \/ SocketFails \/ ReconnectTimer
  \/ \E a \in DOMAIN client.attempts : AttemptTimer(a)
  \/ \E s \in Slots :
       \/ Answer(s) \/ RequestTimer(s)
       \/ StorageChecked(s) \/ DatabaseOpens(s) \/ DatabaseFails(s)
  \/ KickArrives \/ KickLeavesQueue

Next ==
  \/ Progress
  \/ Reload \/ LoginClicked \/ LogoutClicked \/ SocketDrops
  \/ \E t \in Tokens : PasswordChanged(t)

\* Timers fire, connections are made or refused, requests are answered or time
\* out, a database opens or fails.  The user and the network do finitely much,
\* so fairness to all of these together is fairness to each.
Fairness == WF_vars(Progress)

Spec == Init /\ [][Next]_vars /\ Fairness

-----------------------------------------------------------------------------
(* Properties *)

FlowType ==
  [op : Ops, pc : Pcs, at : 0..(MaxLogins + 1), token : 0..MaxLogins, latest : BOOLEAN]

\* Types; and a reconnect timer runs only after the last socket has closed, a
\* flow that waits to connect waits on an attempt whose own timer still runs.
TypeOK ==
  /\ mode \in Modes
  /\ client.socket \in {"none", "connecting", "open", "closed"}
  /\ client.timer => client.socket = "closed"
  /\ client.shown \in {"disconnected", "connecting", "connected"}
  /\ client.attempts \in Seq([live : BOOLEAN, orig : Nat])
  /\ {client.hook, client.current} \subseteq 0..Len(client.attempts)
  /\ {client.token, client.uid, client.gateway, client.stored} \subseteq 0..MaxLogins
  /\ client.state \in {"idle", "authenticated", "initializing", "ready"}
  /\ client.kicked \in BOOLEAN /\ client.view \in {"start", "auth", "app"}
  /\ client.flows \in [Slots -> FlowType]
  /\ \A s \in In(client, {"connect"}) : client.attempts[client.flows[s].at].live
  /\ server \in [tokens : SUBSET Tokens, issued : 0..MaxLogins,
                 online : 0..MaxLogins, kick : BOOLEAN]

AtRest(c) == In(c, Pcs \ {"idle"}) = {} /\ ~c.kicked

\* A session that says "ready" has a token, a user and that user's data gateway,
\* whatever calls of startSession overlap, fail or are overtaken.
ReadyIsWhole ==
  ~exposed /\ client.state = "ready"
    => /\ client.uid # 0 /\ client.token = client.uid
       /\ client.gateway = client.uid

\* When no call is under way the kit and the SDK agree on who is signed in: the
\* stored token is the SDK's, signed out means idle, with no gateway left, no
\* reconnect pending and the auth view on screen; the app view means ready in
\* the kit, and signed in under a host with persistent sessions, whose earlier
\* startSession returns without an error when a later one fails.
HostAgrees ==
  ~exposed /\ AtRest(client)
    => /\ client.stored = client.token /\ client.token = client.uid
       /\ client.token = 0 <=> client.state = "idle"
       /\ client.token = 0 => /\ client.gateway = 0 /\ ~client.timer
                              /\ client.view = "auth"
       /\ client.view = "app" => client.token # 0 /\ (mode = "instant" => client.state = "ready")

\* When no call is under way and the socket of a ready session is open, the
\* server knows the connection as this user's: every reconnect authenticated.
ServedAsSelf ==
  ~exposed /\ AtRest(client) /\ client.state = "ready" /\ client.socket = "open"
    => server.online = client.uid

\* The snapshot says "connected" exactly while the socket is open, through every
\* stack of attempts, time-outs and closes.
ConnectionShown == client.shown = "connected" <=> client.socket = "open"

\* Every login, re-authentication, logout and clean-up ends, whatever the
\* network does: each await has a timer or an event that settles it.
FlowsEnd == \A s \in Slots : []<>(client.flows[s].pc = "idle")

\* A client that holds a token gets a connection again, or gives the token up.
StaysConnected == []<>(client.token = 0 \/ client.socket = "open")
=============================================================================
