------------------------------ MODULE Delivery ------------------------------
(***************************************************************************)
(* From a task that a request submits to the client that shows its effect: *)
(* the persistent task queue (server/internal/taskqueue/taskqueue.go), the *)
(* start and the stop of the server (cmd/yimsg-server/main.go), the        *)
(* registry of connections (internal/online/online.go) and a connection's  *)
(* goroutines (internal/ws/connection.go).                                 *)
(*                                                                         *)
(* A task writes the inbox of one user and signals him; his client pulls   *)
(* what is new when it signs in and on every signal.  What the task writes *)
(* is in Messaging and how the client pulls in LocalReplica; here both are *)
(* one step, and the question is whether the one always leads to the other *)
(* through two bounded channels, stops and starts of the server, and lost  *)
(* connections.                                                            *)
(***************************************************************************)
EXTENDS Naturals, Sequences, FiniteSets, SequencesExt

CONSTANTS
  Tasks,          \* ids of task_queue, drawn in order: 1..n
  Submitters,     \* goroutines that serve the connections of senders
  Runners,        \* workers of the queue
  QueueSize,      \* capacity of the queue's channel (1024)
  SignalSize,     \* capacity of a connection's channel (64)
  SocketSize,     \* frames that a socket holds before writing blocks
  MaxMishaps      \* bound: stops, kills, database errors, lost connections,
                  \* writes that time out, signals of other types

ASSUME DeliveryAssumption ==
  /\ IsFiniteSet(Tasks) /\ Tasks = 1..Cardinality(Tasks)
  /\ {QueueSize, SignalSize, SocketSize} \subseteq Nat \ {0}
  /\ MaxMishaps \in Nat

VARIABLES
  process,   \* "starting", "serving", "stopping" or "down"
  table,     \* rows of task_queue, by id
  queued,    \* the queue's channel
  replay,    \* what Recover has still to dispatch
  submit,    \* per submitter: the stored task it is about to send, 0 for none
  working,   \* per worker: its task, 0 for none
  drawn,     \* ids drawn so far
  written,   \* tasks whose effect is in the user's inbox
  signals,   \* the connection's channel, while it is registered
  link,      \* the connection: "none", "registered", "open" or "mute"
  wire,      \* frames on the socket to the client
  seen,      \* what the client has pulled
  missed,    \* history: tasks whose last execution failed to write the inbox
  waiting,   \* history: tasks whose row waits for the next start
  lost,      \* history: the connection has lost a signal for good
  mishaps

delivery == <<process, table, queued, replay, submit, working, drawn, written,
              signals, link, wire, seen, missed, waiting, lost, mishaps>>

none == 0

Mishap == mishaps < MaxMishaps /\ mishaps' = mishaps + 1

-----------------------------------------------------------------------------
(* The life of the process *)

NoSubmit == [s \in Submitters |-> none]

NoWork == [w \in Runners |-> none]

DeliveryInit ==
  /\ process = "serving"
  /\ table = {} /\ queued = <<>> /\ replay = <<>>
  /\ submit = NoSubmit /\ working = NoWork
  /\ drawn = 0 /\ written = {}
  /\ signals = <<>> /\ link = "none" /\ wire = <<>> /\ seen = {}
  /\ missed = {} /\ waiting = {} /\ lost = FALSE /\ mishaps = 0

\* Nothing of the process survives but its tables.
Ended ==
  /\ process' = "down"
  /\ queued' = <<>> /\ replay' = <<>> /\ submit' = NoSubmit /\ working' = NoWork
  /\ signals' = <<>> /\ link' = "none" /\ wire' = <<>>
  /\ UNCHANGED <<table, drawn, written, seen, missed, waiting, lost>>

Kill == process # "down" /\ Mishap /\ Ended

\* The rows S as the query of Recover lists them: each once, by ascending id.
InOrder(S) == {s \in [1..Cardinality(S) -> S] : \A i, j \in DOMAIN s : i < j => s[i] < s[j]}

\* Open, SetAsync and the query of Recover, which main completes before it listens.
\* An error of the query is logged, and the server goes on without the rows.
Start ==
  /\ process = "down"
  /\ process' = "starting"
  /\ \/ replay' \in InOrder(table) /\ waiting' = {} /\ UNCHANGED mishaps
     \/ Mishap /\ replay' = <<>> /\ waiting' = table
  /\ UNCHANGED <<table, queued, submit, working, drawn, written, signals, link, wire,
                 seen, missed, lost>>

\* Recover dispatches the next row; it blocks while the channel is full.
Replay ==
  /\ process = "starting" /\ replay # <<>> /\ Len(queued) < QueueSize
  /\ queued' = Append(queued, Head(replay))
  /\ replay' = Tail(replay)
  /\ UNCHANGED <<process, table, submit, working, drawn, written, signals, link, wire,
                 seen, missed, waiting, lost, mishaps>>

Listen ==
  /\ process = "starting" /\ replay = <<>>
  /\ process' = "serving"
  /\ UNCHANGED <<table, queued, replay, submit, working, drawn, written, signals, link, wire,
                 seen, missed, waiting, lost, mishaps>>

-----------------------------------------------------------------------------
(* The queue *)

\* Submit persists the task.  Connections outlive the listener.
Persist(s) ==
  /\ process \in {"serving", "stopping"} /\ submit[s] = none
  /\ drawn + 1 \in Tasks
  /\ drawn' = drawn + 1
  /\ table' = table \cup {drawn'}
  /\ submit' = [submit EXCEPT ![s] = drawn']
  /\ UNCHANGED <<process, queued, replay, working, written, signals, link, wire, seen,
                 missed, waiting, lost, mishaps>>

\* Mutant: a full channel drops the task.
DispatchOrDrop(s) ==
  /\ process = "serving" /\ submit[s] # none
  /\ queued' = IF Len(queued) < QueueSize THEN Append(queued, submit[s]) ELSE queued
  /\ submit' = [submit EXCEPT ![s] = none]
  /\ UNCHANGED <<process, table, replay, working, drawn, written, signals, link, wire,
                 seen, missed, waiting, lost, mishaps>>

\* dispatch: the goroutine blocks while the channel is full.
Dispatch(s) ==
  /\ process = "serving" /\ submit[s] # none /\ Len(queued) < QueueSize
  /\ queued' = Append(queued, submit[s])
  /\ submit' = [submit EXCEPT ![s] = none]
  /\ UNCHANGED <<process, table, replay, working, drawn, written, signals, link, wire,
                 seen, missed, waiting, lost, mishaps>>

\* A send on the closed channel panics, which ends the sender's connection.
Panic(s) ==
  /\ process = "stopping" /\ submit[s] # none
  /\ submit' = [submit EXCEPT ![s] = none]
  /\ waiting' = waiting \cup {submit[s]}
  /\ UNCHANGED <<process, table, queued, replay, working, drawn, written, signals, link,
                 wire, seen, missed, lost, mishaps>>

\* A worker takes the next task; each execution tries to write anew.
TakeTask(w) ==
  /\ process # "down" /\ working[w] = none /\ queued # <<>>
  /\ working' = [working EXCEPT ![w] = Head(queued)]
  /\ queued' = Tail(queued)
  /\ missed' = missed \ {Head(queued)}
  /\ UNCHANGED <<process, table, replay, submit, drawn, written, signals, link, wire,
                 seen, waiting, lost, mishaps>>

\* The handler writes the inbox, or an error of the database stops it, which is
\* logged and not returned.
Write(w) ==
  /\ working[w] # none /\ working[w] \notin written \cup missed
  /\ \/ written' = written \cup {working[w]} /\ UNCHANGED <<missed, mishaps>>
     \/ Mishap /\ missed' = missed \cup {working[w]} /\ UNCHANGED written
  /\ UNCHANGED <<process, table, queued, replay, submit, working, drawn, signals, link,
                 wire, seen, waiting, lost>>

\* Notify: a full channel drops the signal.
Notified(type) ==
  IF link # "none" /\ Len(signals) < SignalSize THEN Append(signals, type) ELSE signals

Masks == link # "none" /\ Len(signals) >= SignalSize /\ ~Contains(signals, "messages")

\* The handler signals the user and returns; run removes the row, or leaves it
\* to be replayed when that fails.
Finish(w) ==
  /\ working[w] \in written \cup missed
  /\ signals' = Notified("messages")
  /\ lost' = (lost \/ Masks)
  /\ working' = [working EXCEPT ![w] = none]
  /\ \/ table' = table \ {working[w]} /\ UNCHANGED <<waiting, mishaps>>
     \/ Mishap /\ waiting' = waiting \cup {working[w]} /\ UNCHANGED table
  /\ UNCHANGED <<process, queued, replay, submit, drawn, written, link, wire, seen, missed>>

\* A signal or an interrupt: the listener ends and Close closes the channel.
Stop ==
  /\ process = "serving" /\ Mishap
  /\ process' = "stopping"
  /\ UNCHANGED <<table, queued, replay, submit, working, drawn, written, signals, link, wire,
                 seen, missed, waiting, lost>>

\* Close has waited for the workers, which drain the channel; main returns.
Exit ==
  /\ process = "stopping" /\ queued = <<>> /\ working = NoWork
  /\ Ended /\ UNCHANGED mishaps

-----------------------------------------------------------------------------
(* The connection of the user *)

\* bindAuthAndDrain registers the connection before it answers.
Register ==
  /\ process = "serving" /\ link = "none"
  /\ link' = "registered" /\ signals' = <<>> /\ lost' = FALSE
  /\ UNCHANGED <<process, table, queued, replay, submit, working, drawn, written, wire,
                 seen, missed, waiting, mishaps>>

\* The answer arrives and the client pulls; the channel is drained from now on.
SignedIn ==
  /\ link = "registered"
  /\ link' = "open" /\ seen' = written
  /\ UNCHANGED <<process, table, queued, replay, submit, working, drawn, written, signals,
                 wire, missed, waiting, lost, mishaps>>

\* Mutant: a frame that does not fit is dropped.
DrainOrDrop ==
  /\ signals # <<>> /\ signals' = Tail(signals)
  /\ link \in {"open", "mute"}
  /\ wire' = IF link = "open" /\ Len(wire) < SocketSize
             THEN Append(wire, Head(signals)) ELSE wire
  /\ UNCHANGED <<process, table, queued, replay, submit, working, drawn, written, link,
                 seen, missed, waiting, lost, mishaps>>

\* The connection's goroutine writes a signal, which blocks while the socket is
\* full; on a connection that has become mute every write fails at once.
Drain ==
  /\ signals # <<>> /\ signals' = Tail(signals)
  /\ \/ /\ link = "open" /\ Len(wire) < SocketSize
        /\ wire' = Append(wire, Head(signals))
     \/ link = "mute" /\ UNCHANGED wire
  /\ UNCHANGED <<process, table, queued, replay, submit, working, drawn, written, link,
                 seen, missed, waiting, lost, mishaps>>

\* The deadline of a write passes.  The error is logged and the connection stays
\* registered, but no later write to it succeeds.
TimeOut ==
  /\ link = "open" /\ signals # <<>> /\ Len(wire) = SocketSize /\ Mishap
  /\ link' = "mute" /\ signals' = Tail(signals) /\ lost' = TRUE
  /\ UNCHANGED <<process, table, queued, replay, submit, working, drawn, written, wire,
                 seen, missed, waiting>>

\* A signal for messages makes the client pull.
Hear ==
  /\ wire # <<>>
  /\ wire' = Tail(wire)
  /\ seen' = IF Head(wire) = "messages" THEN written ELSE seen
  /\ UNCHANGED <<process, table, queued, replay, submit, working, drawn, written, signals,
                 link, missed, waiting, lost, mishaps>>

\* Unregister
Lose ==
  /\ link # "none" /\ Mishap
  /\ link' = "none" /\ signals' = <<>> /\ wire' = <<>>
  /\ UNCHANGED <<process, table, queued, replay, submit, working, drawn, written, seen,
                 missed, waiting, lost>>

\* Another handler signals the user something else.
SignalOther ==
  /\ process # "down" /\ Mishap
  /\ signals' = Notified("other")
  /\ UNCHANGED <<process, table, queued, replay, submit, working, drawn, written, link, wire,
                 seen, missed, waiting, lost>>

Main == Start \/ Replay \/ Listen \/ Exit

Submitter(s) == Dispatch(s) \/ Panic(s)

Runner(w) == TakeTask(w) \/ Write(w) \/ Finish(w)

Client == Register \/ SignedIn \/ Hear

DeliveryNext ==
  \/ Main \/ Client \/ Drain
  \/ \E s \in Submitters : Persist(s) \/ Submitter(s)
  \/ \E w \in Runners : Runner(w)
  \/ Stop \/ Kill \/ Lose \/ TimeOut \/ SignalOther

\* Goroutines run, a server that ended is started again, and the client connects
\* again; nobody has to submit.
Fairness ==
  /\ WF_delivery(Main) /\ WF_delivery(Client) /\ WF_delivery(Drain)
  /\ \A s \in Submitters : WF_delivery(Submitter(s))
  /\ \A w \in Runners : WF_delivery(Runner(w))

DeliverySpec == DeliveryInit /\ [][DeliveryNext]_delivery /\ Fairness

-----------------------------------------------------------------------------
(* Properties *)

\* Where this process holds task t.
Holders(t) ==
  {<<"queue", i>> : i \in {j \in DOMAIN queued : queued[j] = t}}
  \cup {<<"replay", i>> : i \in {j \in DOMAIN replay : replay[j] = t}}
  \cup {<<"submit", s>> : s \in {x \in Submitters : submit[x] = t}}
  \cup {<<"work", w>> : w \in {x \in Runners : working[x] = t}}

\* Every task drawn so far is stored, or its effect is written, or its handler hid
\* that it could not be; a running process holds every stored task in exactly one
\* place, but for those it has left to the next start, and its channels keep within
\* their capacity.
HeldOnce ==
  /\ \A t \in 1..drawn : t \in table \/ t \in written \/ t \in missed
  /\ process # "down" =>
       \A t \in Tasks : Cardinality(Holders(t)) = IF t \in table \ waiting THEN 1 ELSE 0
  /\ Len(queued) <= QueueSize /\ Len(signals) <= SignalSize

\* What a task writes is seen by the client in the end, through full channels,
\* stops and starts: a signal that is dropped because others for messages wait in
\* front of it is one that they make up for.  Only a signal dropped among signals
\* of other types, and a connection that went mute, leave the client behind, until
\* it connects again; and a task whose write failed, or whose row waits for another
\* start, has nothing to show yet.
EveryTaskIsSeen ==
  \A t \in Tasks : t <= drawn ~>
    t \in seen \/ lost \/ t \in missed \/ t \in waiting \ written
=============================================================================
