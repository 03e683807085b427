--------------------------- MODULE DeliveryProofs ---------------------------
(***************************************************************************)
(* A running server holds every stored task in exactly one place, whatever *)
(* the size of the channels, the number of goroutines, and the stops and   *)
(* kills: in the queue's channel, among the rows that Recover has still to *)
(* dispatch, with the goroutine that submits it, or with the worker that   *)
(* executes it.                                                            *)
(*                                                                         *)
(* HeldOnce counts these places.  The inductive invariant Held says the    *)
(* same of the sets of tasks in them: none of the four contains a task     *)
(* twice, no two have one in common, and together they are the stored      *)
(* tasks but for those that an error or a stop has left to the next start. *)
(***************************************************************************)
EXTENDS Delivery, TLAPS, FiniteSetTheorems, SequenceTheorems

\* The tasks in a channel, or in the variables of goroutines.
In(f) == {f[x] : x \in DOMAIN f} \ {none}

\* No task is there twice.
Alone(f) == \A x, y \in DOMAIN f : f[x] = f[y] /\ f[x] # none => x = y

\* The places q, r, s and w share the tasks T out among them.
Shared(q, r, s, w, T) ==
  /\ Alone(q) /\ Alone(r) /\ Alone(s) /\ Alone(w)
  /\ In(q) \cap In(r) = {} /\ In(q) \cap In(s) = {} /\ In(q) \cap In(w) = {}
  /\ In(r) \cap In(s) = {} /\ In(r) \cap In(w) = {} /\ In(s) \cap In(w) = {}
  /\ In(q) \cup In(r) \cup In(s) \cup In(w) = T

\* The ids that task_queue has drawn.
Ids == 1..drawn

\* Every place of the process holds drawn tasks, or none.
Typed ==
  /\ process \in {"starting", "serving", "stopping", "down"}
  /\ drawn \in Nat
  /\ table \subseteq Ids /\ written \subseteq Ids /\ missed \subseteq Ids
  /\ waiting \subseteq Ids
  /\ queued \in Seq(Ids) /\ replay \in Seq(Ids)
  /\ submit \in [Submitters -> Ids \cup {none}]
  /\ working \in [Runners -> Ids \cup {none}]
  /\ signals \in Seq({"messages", "other"})

\* The inductive invariant: nothing drawn is forgotten before it was tried, and the
\* places of a process that is up share out the stored tasks that do not wait for
\* the next start.
Held ==
  /\ Typed
  /\ \A t \in Ids : t \in table \/ t \in written \/ t \in missed
  /\ IF process = "down"
     THEN queued = <<>> /\ replay = <<>> /\ submit = NoSubmit /\ working = NoWork
     ELSE Shared(queued, replay, submit, working, table \ waiting)
  /\ Len(queued) <= QueueSize /\ Len(signals) <= SignalSize

-----------------------------------------------------------------------------
(* The rows that Recover lists *)

\* A set of n numbers can be listed in ascending order.
Listable(n) == \A S \in SUBSET Nat : IsFiniteSet(S) /\ Cardinality(S) = n => InOrder(S) # {}

\* Every finite set of ids can be listed in ascending order.  A set that cannot,
\* with the fewest elements, has a least one, and without it can be listed.
LEMMA InOrderExists ==
  ASSUME NEW S \in SUBSET Nat, IsFiniteSet(S)
  PROVE  InOrder(S) # {}
<1> DEFINE Bad == {n \in Nat : ~Listable(n)}
<1>1. SUFFICES Bad = {}
  <2>1. Cardinality(S) \in Nat
    BY FS_CardinalityType
  <2> QED
    BY <1>1, <2>1 DEF Listable
<1>2. SUFFICES ASSUME Bad # {} PROVE FALSE
  OBVIOUS
<1>3. PICK n \in Bad : \A k \in Bad : ~(k < n)
  <2>1. PICK n \in Bad : \A k \in Bad : <<k, n>> \notin OpToRel(<, Nat)
    BY <1>2, NatLessThanWellFounded, WFMin
  <2> QED
    BY <2>1 DEF OpToRel
<1>4. PICK T \in SUBSET Nat : IsFiniteSet(T) /\ Cardinality(T) = n /\ InOrder(T) = {}
  BY <1>3 DEF Listable
<1>5. CASE T = {}
  <2>1. Cardinality(T) = 0
    BY <1>5, FS_EmptySet
  <2>2. <<>> \in InOrder(T)
    BY <1>5, <2>1 DEF InOrder
  <2> QED
    BY <1>4, <2>2
<1>6. CASE T # {}
  <2>1. PICK m \in T : \A k \in T : m <= k
    <3>1. PICK m \in T : \A k \in T : <<k, m>> \notin OpToRel(<, Nat)
      BY <1>6, NatLessThanWellFounded, WFMin
    <3>2. \A k \in T : ~(k < m)
      BY <3>1 DEF OpToRel
    <3> QED
      BY <3>2
  <2> DEFINE U == T \ {m}
  <2>2. /\ IsFiniteSet(U)
        /\ Cardinality(U) = n - 1
        /\ n - 1 \in Nat
    <3>1. IsFiniteSet(U) /\ Cardinality(U) = n - 1
      BY <1>4, FS_RemoveElement
    <3>2. Cardinality(U) \in Nat
      BY <3>1, FS_CardinalityType
    <3> QED
      BY <3>1, <3>2
  <2>3. PICK s : s \in InOrder(U)
    <3>1. n - 1 \notin Bad
      BY <1>3, <2>2
    <3> QED
      BY <2>2, <3>1 DEF Listable
  <2> DEFINE r == [i \in 1..n |-> IF i = 1 THEN m ELSE s[i - 1]]
  <2>4. /\ s \in [1..(n - 1) -> U]
        /\ \A i, j \in 1..(n - 1) : i < j => s[i] < s[j]
    BY <2>2, <2>3 DEF InOrder
  <2>5. r \in [1..n -> T]
    BY <2>2, <2>4
  <2>6. ASSUME NEW i \in 1..n, NEW j \in 1..n, i < j
        PROVE  r[i] < r[j]
    <3>1. j - 1 \in 1..(n - 1) /\ r[j] = s[j - 1] /\ s[j - 1] \in U
      BY <2>2, <2>4, <2>6
    <3>2. CASE i = 1
      <4>1. r[i] = m
        BY <3>2
      <4>2. m \in Nat /\ s[j - 1] \in Nat /\ m <= s[j - 1] /\ m # s[j - 1]
        BY <2>1, <3>1
      <4> QED
        BY <3>1, <4>1, <4>2
    <3>3. CASE i # 1
      <4>1. i - 1 \in 1..(n - 1) /\ r[i] = s[i - 1] /\ i - 1 < j - 1
        BY <2>2, <2>6, <3>3
      <4> QED
        BY <2>4, <3>1, <4>1
    <3> QED
      BY <3>2, <3>3
  <2>7. r \in InOrder(T)
    BY <1>4, <2>5, <2>6 DEF InOrder
  <2> QED
    BY <1>4, <2>7
<1> QED
  BY <1>5, <1>6

\* The list has every row once.
LEMMA InOrderLists ==
  ASSUME NEW S \in SUBSET Nat, IsFiniteSet(S), none \notin S, NEW s \in InOrder(S)
  PROVE  s \in Seq(S) /\ Alone(s) /\ In(s) = S
<1> DEFINE n == Cardinality(S)
<1>1. /\ n \in Nat
      /\ s \in [1..n -> S]
      /\ \A i, j \in 1..n : i < j => s[i] < s[j]
  BY FS_CardinalityType DEF InOrder
<1>2. s \in Seq(S)
  BY <1>1, SeqDef
<1>3. \A i, j \in 1..n : s[i] = s[j] => i = j
  <2> SUFFICES ASSUME NEW i \in 1..n, NEW j \in 1..n, s[i] = s[j], i # j
               PROVE  FALSE
    OBVIOUS
  <2>1. s[i] \in Nat /\ s[j] \in Nat
    <3>1. s[i] \in S /\ s[j] \in S
      BY <1>1
    <3> QED
      BY <3>1
  <2>2. i < j \/ j < i
    BY <1>1
  <2> QED
    BY <1>1, <2>1, <2>2
<1>4. In(s) = S
  <2>1. s \in Injection(1..n, S)
    BY <1>1, <1>3 DEF Injection, IsInjective
  <2>2. IsFiniteSet(1..n) /\ Cardinality(1..n) = n
    BY <1>1, FS_Interval
  <2>3. s \in Surjection(1..n, S)
    BY <2>1, <2>2, FS_Injection
  <2> QED
    BY <1>1, <2>3 DEF Surjection, In
<1> QED
  BY <1>1, <1>2, <1>3, <1>4 DEF Alone

-----------------------------------------------------------------------------
(* A task enters a place, and leaves it *)

\* A send on a channel adds the task to those in it.
LEMMA Sent ==
  ASSUME NEW T, NEW q \in Seq(T), NEW e \in T, e # none, Alone(q), e \notin In(q)
  PROVE  /\ Append(q, e) \in Seq(T) /\ Len(Append(q, e)) = Len(q) + 1
         /\ Alone(Append(q, e))
         /\ In(Append(q, e)) = In(q) \cup {e}
<1> DEFINE r == Append(q, e)
           n == Len(q)
<1>1. n \in Nat /\ DOMAIN q = 1..n
  BY LenProperties
<1>2. /\ r \in Seq(T) /\ Len(r) = n + 1 /\ DOMAIN r = 1..(n + 1)
      /\ \A i \in 1..n : r[i] = q[i]
      /\ r[n + 1] = e
  <2>1. r \in Seq(T) /\ Len(r) = n + 1
    BY <1>1
  <2>2. DOMAIN r = 1..(n + 1)
    BY <2>1, LenProperties
  <2> QED
    BY <1>1, <2>1, <2>2
<1> HIDE DEF r
<1>3. \A i \in 1..n : q[i] # e
  BY <1>1 DEF In
<1>4. ASSUME NEW i \in 1..(n + 1), NEW j \in 1..(n + 1), r[i] = r[j], r[i] # none
      PROVE  i = j
  <2>1. CASE i \in 1..n /\ j \in 1..n
    BY <1>1, <1>2, <1>4, <2>1 DEF Alone
  <2>2. CASE i \notin 1..n \/ j \notin 1..n
    <3>1. i = n + 1 \/ j = n + 1
      BY <1>1, <2>2
    <3> QED
      BY <1>1, <1>2, <1>3, <1>4, <3>1
  <2> QED
    BY <2>1, <2>2
<1>5. In(r) = In(q) \cup {e}
  <2>1. \A i \in 1..(n + 1) : i \in 1..n \/ i = n + 1
    BY <1>1
  <2>2. 1..n \subseteq 1..(n + 1) /\ n + 1 \in 1..(n + 1)
    BY <1>1
  <2> QED
    BY <1>1, <1>2, <2>1, <2>2 DEF In
<1>6. Alone(r)
  BY <1>2, <1>4 DEF Alone
<1> QED
  BY <1>2, <1>5, <1>6 DEF r

\* A receive takes the first task out of a channel.
LEMMA Received ==
  ASSUME NEW T, NEW q \in Seq(T), q # <<>>, none \notin T, Alone(q)
  PROVE  /\ Tail(q) \in Seq(T) /\ Len(Tail(q)) < Len(q)
         /\ Head(q) \in T /\ Head(q) \in In(q)
         /\ Alone(Tail(q))
         /\ In(Tail(q)) = In(q) \ {Head(q)}
<1> DEFINE r == Tail(q)
           n == Len(q)
<1>1. n \in Nat /\ n > 0 /\ DOMAIN q = 1..n /\ \A i \in 1..n : q[i] \in T
  BY LenProperties, EmptySeq, ElementOfSeq
<1>2. /\ Head(q) \in T /\ Head(q) = q[1]
      /\ r \in Seq(T) /\ Len(r) = n - 1 /\ DOMAIN r = 1..(n - 1)
      /\ \A i \in 1..(n - 1) : r[i] = q[i + 1]
  <2>1. /\ Head(q) \in T /\ r \in Seq(T) /\ Len(r) = n - 1
        /\ \A i \in 1..Len(r) : r[i] = q[i + 1]
    BY HeadTailProperties
  <2>2. DOMAIN r = 1..Len(r)
    BY <2>1, LenProperties
  <2> QED
    BY <2>1, <2>2
<1> HIDE DEF r
<1>3. \A i \in 1..n : q[i] # none
  BY <1>1
<1>4. \A i \in 1..(n - 1) : i + 1 \in 1..n /\ i + 1 # 1
  BY <1>1
<1>5. \A i \in 1..n : i = 1 \/ (i - 1 \in 1..(n - 1) /\ (i - 1) + 1 = i)
  BY <1>1
<1>6. Alone(r)
  <2> SUFFICES ASSUME NEW i \in 1..(n - 1), NEW j \in 1..(n - 1), r[i] = r[j]
               PROVE  i = j
    BY <1>2 DEF Alone
  <2>1. i + 1 = j + 1
    BY <1>1, <1>2, <1>3, <1>4 DEF Alone
  <2> QED
    BY <1>1, <2>1
<1>7. 1 \in 1..n /\ q[1] \in In(q)
  BY <1>1, <1>3 DEF In
<1>8. In(r) = In(q) \ {q[1]}
  <2>1. ASSUME NEW e \in In(r) PROVE e \in In(q) \ {q[1]}
    <3>1. PICK i \in 1..(n - 1) : e = q[i + 1]
      BY <1>2, <2>1 DEF In
    <3>2. e # q[1]
      BY <1>1, <1>3, <1>4, <1>7, <3>1 DEF Alone
    <3> QED
      BY <1>1, <1>3, <1>4, <3>1, <3>2 DEF In
  <2>2. ASSUME NEW e \in In(q) \ {q[1]} PROVE e \in In(r)
    <3>1. PICK i \in 1..n : e = q[i]
      BY <1>1, <2>2 DEF In
    <3>2. i - 1 \in 1..(n - 1) /\ (i - 1) + 1 = i
      BY <1>5, <2>2, <3>1
    <3>3. r[i - 1] = e /\ e # none
      BY <1>2, <1>3, <3>1, <3>2
    <3> QED
      BY <1>2, <3>2, <3>3 DEF In
  <2> QED
    BY <2>1, <2>2
<1>9. Len(r) < n
  BY <1>1, <1>2
<1> QED
  BY <1>2, <1>6, <1>7, <1>8, <1>9 DEF r

\* A goroutine without a task takes one up.
LEMMA TakenUp ==
  ASSUME NEW f, NEW d \in DOMAIN f, NEW e, e # none, f[d] = none, Alone(f), e \notin In(f)
  PROVE  Alone([f EXCEPT ![d] = e]) /\ In([f EXCEPT ![d] = e]) = In(f) \cup {e}
<1> DEFINE g == [f EXCEPT ![d] = e]
           D == DOMAIN f
<1>1. DOMAIN g = D /\ g[d] = e /\ \A x \in D : x # d => g[x] = f[x]
  OBVIOUS
<1> HIDE DEF g
<1>2. \A x \in D : f[x] # e
  BY DEF In
<1>3. Alone(g)
  BY <1>1, <1>2 DEF Alone
<1>4. In(g) = In(f) \cup {e}
  BY <1>1, <1>2 DEF In
<1> QED
  BY <1>3, <1>4 DEF g

\* A goroutine gives its task away.
LEMMA GivenAway ==
  ASSUME NEW D, NEW T, NEW f \in [D -> T \cup {none}], NEW d \in D, f[d] # none, Alone(f)
  PROVE  /\ [f EXCEPT ![d] = none] \in [D -> T \cup {none}]
         /\ Alone([f EXCEPT ![d] = none])
         /\ In([f EXCEPT ![d] = none]) = In(f) \ {f[d]}
         /\ f[d] \in In(f)
<1> DEFINE g == [f EXCEPT ![d] = none]
<1>1. /\ g \in [D -> T \cup {none}]
      /\ g[d] = none /\ \A x \in D : x # d => g[x] = f[x]
  OBVIOUS
<1>2. DOMAIN f = D /\ DOMAIN g = D
  OBVIOUS
<1> HIDE DEF g
<1>3. \A x \in D : f[x] = f[d] => x = d
  BY <1>2 DEF Alone
<1>4. Alone(g)
  BY <1>1, <1>2 DEF Alone
<1>5. In(g) = In(f) \ {f[d]}
  BY <1>1, <1>2, <1>3 DEF In
<1>6. f[d] \in In(f)
  BY <1>2 DEF In
<1> QED
  BY <1>1, <1>4, <1>5, <1>6 DEF g

\* Nobody holds anything.
LEMMA Idle ==
  /\ Alone(<<>>) /\ In(<<>>) = {}
  /\ Alone(NoSubmit) /\ In(NoSubmit) = {}
  /\ Alone(NoWork) /\ In(NoWork) = {}
  BY DEF Alone, In, NoSubmit, NoWork

-----------------------------------------------------------------------------
(* Every step keeps Held *)

\* What holds of a channel of signals.
Signals(q) == q \in Seq({"messages", "other"}) /\ Len(q) <= SignalSize

\* The tasks held do not move while a connection is served.
LEMMA HeldStays ==
  ASSUME Held, Signals(signals'),
         UNCHANGED <<process, table, queued, replay, submit, working, drawn, waiting>>,
         written \subseteq written', written' \subseteq Ids,
         missed \subseteq missed', missed' \subseteq Ids
  PROVE  Held'
<1>1. Typed'
  BY DEF Held, Typed, Ids, Signals
<1>2. (\A t \in Ids : t \in table \/ t \in written \/ t \in missed)'
  BY DEF Held, Ids
<1>3. process # "down" => Shared(queued, replay, submit, working, table \ waiting)
  BY DEF Held
<1>4. process = "down" => queued = <<>> /\ replay = <<>> /\ submit = NoSubmit /\ working = NoWork
  BY DEF Held
<1> QED
  BY <1>1, <1>2, <1>3, <1>4 DEF Held, Signals

\* No action fills a channel of signals beyond its size.
LEMMA SignalsKeep ==
  ASSUME Signals(signals)
  PROVE  /\ \A type \in {"messages", "other"} : Signals(Notified(type))
         /\ Signals(<<>>)
         /\ signals # <<>> => Signals(Tail(signals))
<1>1. SignalSize \in Nat /\ SignalSize > 0
  BY DeliveryAssumption
<1>2. Len(signals) \in Nat
  BY LenProperties DEF Signals
<1>3. ASSUME NEW type \in {"messages", "other"} PROVE Signals(Notified(type))
  <2>1. CASE link # "none" /\ Len(signals) < SignalSize
    <3>1. Notified(type) = Append(signals, type)
      BY <2>1 DEF Notified
    <3>2. /\ Append(signals, type) \in Seq({"messages", "other"})
          /\ Len(Append(signals, type)) = Len(signals) + 1
      BY <1>2 DEF Signals
    <3> QED
      BY <1>1, <1>2, <2>1, <3>1, <3>2 DEF Signals
  <2>2. CASE ~(link # "none" /\ Len(signals) < SignalSize)
    BY <2>2 DEF Notified
  <2> QED
    BY <2>1, <2>2
<1>4. Signals(<<>>)
  BY <1>1, EmptySeq DEF Signals
<1>5. ASSUME signals # <<>> PROVE Signals(Tail(signals))
  <2>1. Tail(signals) \in Seq({"messages", "other"}) /\ Len(Tail(signals)) = Len(signals) - 1
    BY <1>5, HeadTailProperties DEF Signals
  <2> QED
    BY <1>1, <1>2, <2>1 DEF Signals
<1> QED
  BY <1>3, <1>4, <1>5

\* A process that ends holds nothing.
LEMMA HeldEnds ==
  ASSUME Held, Ended
  PROVE  Held'
<1>1. Signals(signals')
  BY SignalsKeep DEF Ended, Held, Typed, Signals
<1>2. Typed'
  BY <1>1, EmptySeq DEF Held, Typed, Ended, Ids, Signals, NoSubmit, NoWork
<1>3. Len(queued') <= QueueSize
  BY EmptySeq, DeliveryAssumption DEF Ended
<1>4. (\A t \in Ids : t \in table \/ t \in written \/ t \in missed)'
  BY DEF Held, Ids, Ended
<1> QED
  BY <1>1, <1>2, <1>3, <1>4 DEF Held, Ended, Signals

\* The query of Recover finds all that is stored, or fails and leaves it all.
LEMMA HeldStart ==
  ASSUME Held, Start
  PROVE  Held'
<1>1. /\ table \in SUBSET Nat /\ IsFiniteSet(table) /\ none \notin table
      /\ table \subseteq Ids
  <2>1. drawn \in Nat /\ table \subseteq Ids
    BY DEF Held, Typed
  <2>2. IsFiniteSet(Ids)
    BY <2>1, FS_Interval DEF Ids
  <2>3. table \in SUBSET Nat /\ none \notin table
    BY <2>1 DEF Ids, none
  <2> QED
    BY <2>1, <2>2, <2>3, FS_Subset
<1>2. /\ replay' \in Seq(table) /\ Alone(replay') /\ In(replay') = table \ waiting'
      /\ waiting' \subseteq table
  <2>1. CASE replay' \in InOrder(table) /\ waiting' = {}
    BY <1>1, <2>1, InOrderLists
  <2>2. CASE replay' = <<>> /\ waiting' = table
    BY <2>2, EmptySeq, Idle
  <2> QED
    BY <2>1, <2>2 DEF Start
<1>3. replay' \in Seq(Ids)
  BY <1>1, <1>2, SeqMonotonic
<1>4. /\ process = "down" /\ process' = "starting"
      /\ UNCHANGED <<table, queued, submit, working, drawn, written, missed, signals>>
  BY DEF Start
<1>5. queued' = <<>> /\ submit' = NoSubmit /\ working' = NoWork
  BY <1>4 DEF Held
<1>6. Typed'
  BY <1>1, <1>2, <1>3, <1>4 DEF Held, Typed, Ids
<1>7. (table \ waiting)' = table \ waiting'
  BY <1>4
<1>8. Shared(queued', replay', submit', working', table \ waiting')
  BY <1>2, <1>5, Idle DEF Shared
<1>9. (\A t \in Ids : t \in table \/ t \in written \/ t \in missed)'
  BY <1>4 DEF Held, Ids
<1> QED
  BY <1>4, <1>6, <1>7, <1>8, <1>9 DEF Held

\* Recover moves the first of its rows to the queue.
LEMMA HeldReplay ==
  ASSUME Held, Replay
  PROVE  Held'
<1>1. /\ process = "starting" /\ replay # <<>> /\ Len(queued) < QueueSize
      /\ queued' = Append(queued, Head(replay)) /\ replay' = Tail(replay)
      /\ UNCHANGED <<process, table, submit, working, drawn, written, missed, signals, waiting>>
  BY DEF Replay
<1>2. Typed /\ Shared(queued, replay, submit, working, table \ waiting)
  BY <1>1 DEF Held
<1>3. queued \in Seq(Ids) /\ replay \in Seq(Ids) /\ none \notin Ids
  BY <1>2 DEF Typed, Ids, none
<1>4. /\ replay' \in Seq(Ids) /\ Head(replay) \in Ids /\ Head(replay) \in In(replay)
      /\ Alone(replay') /\ In(replay') = In(replay) \ {Head(replay)}
  BY <1>1, <1>2, <1>3, Received DEF Shared
<1>5. Head(replay) \notin In(queued)
  BY <1>2, <1>4 DEF Shared
<1>6. /\ queued' \in Seq(Ids) /\ Len(queued') = Len(queued) + 1
      /\ Alone(queued') /\ In(queued') = In(queued) \cup {Head(replay)}
  BY <1>1, <1>2, <1>3, <1>4, <1>5, Sent DEF Shared
<1>7. Shared(queued', replay', submit, working, table \ waiting)
  BY <1>2, <1>4, <1>5, <1>6 DEF Shared
<1>8. Typed'
  BY <1>1, <1>2, <1>4, <1>6 DEF Typed, Ids
<1>9. Len(queued') <= QueueSize
  BY <1>1, <1>3, <1>6, LenProperties, DeliveryAssumption
<1> QED
  BY <1>1, <1>7, <1>8, <1>9 DEF Held, Ids

\* Submit stores a task under an id that no other has had.
LEMMA HeldPersist ==
  ASSUME Held, NEW u \in Submitters, Persist(u)
  PROVE  Held'
<1> DEFINE e == drawn + 1
<1>1. /\ process \in {"serving", "stopping"} /\ submit[u] = none
      /\ drawn' = e /\ table' = table \cup {e} /\ submit' = [submit EXCEPT ![u] = e]
      /\ UNCHANGED <<process, queued, replay, working, written, missed, signals, waiting>>
  BY DEF Persist
<1>2. Typed /\ Shared(queued, replay, submit, working, table \ waiting)
  BY <1>1 DEF Held
<1>3. drawn \in Nat /\ e # none /\ e \notin Ids /\ e \in Ids' /\ Ids \subseteq Ids'
      /\ \A t \in Ids' : t \in Ids \/ t = e
  BY <1>1, <1>2 DEF Typed, Ids, none
<1> HIDE DEF e
<1>4. e \notin table /\ e \notin waiting
  BY <1>2, <1>3 DEF Typed
<1>5. e \notin In(queued) /\ e \notin In(replay) /\ e \notin In(submit) /\ e \notin In(working)
  BY <1>2, <1>4 DEF Shared
<1>6. submit \in [Submitters -> Ids' \cup {none}]
  BY <1>2, <1>3 DEF Typed
<1>7. /\ submit' \in [Submitters -> Ids' \cup {none}]
      /\ Alone(submit') /\ In(submit') = In(submit) \cup {e}
  <2>1. Alone(submit)
    BY <1>2 DEF Shared
  <2>2. submit' \in [Submitters -> Ids' \cup {none}]
    BY <1>1, <1>3, <1>6
  <2>3. u \in DOMAIN submit
    BY <1>6
  <2> QED
    BY <1>1, <1>3, <1>5, <2>1, <2>2, <2>3, TakenUp
<1>8. (table \ waiting)' = (table \ waiting) \cup {e}
  BY <1>1, <1>4
<1>9. Shared(queued, replay, submit', working, (table \ waiting) \cup {e})
  BY <1>2, <1>5, <1>7 DEF Shared
<1>10. Typed'
  <2>1. queued' \in Seq(Ids') /\ replay' \in Seq(Ids')
    BY <1>1, <1>2, <1>3, SeqMonotonic DEF Typed
  <2>2. /\ drawn' \in Nat /\ table' \subseteq Ids' /\ written' \subseteq Ids'
        /\ missed' \subseteq Ids' /\ waiting' \subseteq Ids' /\ working' \in [Runners -> Ids' \cup {none}]
    BY <1>1, <1>2, <1>3 DEF Typed, e
  <2>3. process' \in {"starting", "serving", "stopping", "down"}
        /\ signals' \in Seq({"messages", "other"})
    BY <1>1, <1>2 DEF Typed
  <2> QED
    BY <1>7, <2>1, <2>2, <2>3 DEF Typed
<1>11. (\A t \in Ids : t \in table \/ t \in written \/ t \in missed)'
  BY <1>1, <1>3 DEF Held
<1> QED
  BY <1>1, <1>8, <1>9, <1>10, <1>11 DEF Held

\* The submitter hands its task to the queue.
LEMMA HeldDispatch ==
  ASSUME Held, NEW u \in Submitters, Dispatch(u)
  PROVE  Held'
<1> DEFINE e == submit[u]
<1>1. /\ process = "serving" /\ e # none /\ Len(queued) < QueueSize
      /\ queued' = Append(queued, e) /\ submit' = [submit EXCEPT ![u] = none]
      /\ UNCHANGED <<process, table, replay, working, drawn, written, missed, signals, waiting>>
  BY DEF Dispatch
<1>2. Typed /\ Shared(queued, replay, submit, working, table \ waiting)
  BY <1>1 DEF Held
<1>3. queued \in Seq(Ids) /\ submit \in [Submitters -> Ids \cup {none}] /\ e \in Ids
  BY <1>1, <1>2 DEF Typed
<1>4. /\ submit' \in [Submitters -> Ids \cup {none}]
      /\ Alone(submit') /\ In(submit') = In(submit) \ {e} /\ e \in In(submit)
  BY <1>1, <1>2, <1>3, GivenAway DEF Shared
<1> HIDE DEF e
<1>5. e \notin In(queued)
  BY <1>2, <1>4 DEF Shared
<1>6. /\ queued' \in Seq(Ids) /\ Len(queued') = Len(queued) + 1
      /\ Alone(queued') /\ In(queued') = In(queued) \cup {e}
  BY <1>1, <1>2, <1>3, <1>5, Sent DEF Shared
<1>7. Shared(queued', replay, submit', working, table \ waiting)
  BY <1>2, <1>4, <1>5, <1>6 DEF Shared
<1>8. Typed'
  BY <1>1, <1>2, <1>4, <1>6 DEF Typed, Ids
<1>9. Len(queued') <= QueueSize
  BY <1>1, <1>3, <1>6, LenProperties, DeliveryAssumption
<1> QED
  BY <1>1, <1>7, <1>8, <1>9 DEF Held, Ids

\* A submitter that panics leaves its row to the next start.
LEMMA HeldPanic ==
  ASSUME Held, NEW u \in Submitters, Panic(u)
  PROVE  Held'
<1> DEFINE e == submit[u]
<1>1. /\ process = "stopping" /\ e # none
      /\ submit' = [submit EXCEPT ![u] = none] /\ waiting' = waiting \cup {e}
      /\ UNCHANGED <<process, table, queued, replay, working, drawn, written, missed, signals>>
  BY DEF Panic
<1>2. Typed /\ Shared(queued, replay, submit, working, table \ waiting)
  BY <1>1 DEF Held
<1>3. submit \in [Submitters -> Ids \cup {none}] /\ e \in Ids
  BY <1>1, <1>2 DEF Typed
<1>4. /\ submit' \in [Submitters -> Ids \cup {none}]
      /\ Alone(submit') /\ In(submit') = In(submit) \ {e} /\ e \in In(submit)
  BY <1>1, <1>2, <1>3, GivenAway DEF Shared
<1> HIDE DEF e
<1>5. (table \ waiting)' = (table \ waiting) \ {e}
  BY <1>1
<1>6. Shared(queued, replay, submit', working, (table \ waiting) \ {e})
  BY <1>2, <1>4 DEF Shared
<1>7. Typed'
  BY <1>1, <1>2, <1>3, <1>4 DEF Typed, Ids
<1> QED
  BY <1>1, <1>5, <1>6, <1>7 DEF Held, Ids

\* A worker takes the first task of the queue.
LEMMA HeldTake ==
  ASSUME Held, NEW w \in Runners, TakeTask(w)
  PROVE  Held'
<1> DEFINE e == Head(queued)
<1>1. /\ process # "down" /\ working[w] = none /\ queued # <<>>
      /\ working' = [working EXCEPT ![w] = e] /\ queued' = Tail(queued)
      /\ UNCHANGED <<process, table, replay, submit, drawn, written, signals, waiting>>
      /\ missed' = missed \ {e}
  BY DEF TakeTask
<1>2. Typed /\ Shared(queued, replay, submit, working, table \ waiting)
  BY <1>1 DEF Held
<1>3. queued \in Seq(Ids) /\ working \in [Runners -> Ids \cup {none}] /\ none \notin Ids
  BY <1>2 DEF Typed, Ids, none
<1>4. /\ queued' \in Seq(Ids) /\ Len(queued') < Len(queued) /\ e \in Ids /\ e \in In(queued)
      /\ Alone(queued') /\ In(queued') = In(queued) \ {e}
  BY <1>1, <1>2, <1>3, Received DEF Shared
<1> HIDE DEF e
<1>5. e \notin In(working) /\ e # none
  BY <1>2, <1>3, <1>4 DEF Shared
<1>6. /\ working' \in [Runners -> Ids \cup {none}]
      /\ Alone(working') /\ In(working') = In(working) \cup {e}
  <2>1. Alone(working)
    BY <1>2 DEF Shared
  <2>2. working' \in [Runners -> Ids \cup {none}]
    BY <1>1, <1>3, <1>4
  <2>3. w \in DOMAIN working
    BY <1>3
  <2> QED
    BY <1>1, <1>5, <2>1, <2>2, <2>3, TakenUp
<1>7. Shared(queued', replay, submit, working', table \ waiting)
  BY <1>2, <1>4, <1>5, <1>6 DEF Shared
<1>8. Typed'
  BY <1>1, <1>2, <1>4, <1>6 DEF Typed, Ids
<1>9. Len(queued') <= QueueSize
  <2>1. Len(queued) <= QueueSize
    BY DEF Held
  <2> QED
    BY <1>3, <1>4, <2>1, LenProperties, DeliveryAssumption
<1>10. (\A t \in Ids : t \in table \/ t \in written \/ t \in missed)'
  <2>1. e \in table
    BY <1>2, <1>4 DEF Shared
  <2> QED
    BY <1>1, <2>1 DEF Held, Ids
<1> QED
  BY <1>1, <1>7, <1>8, <1>9, <1>10 DEF Held

\* A worker that is done removes the row of its task, which is written or could not
\* be, or leaves it to the next start.
LEMMA HeldFinish ==
  ASSUME Held, NEW w \in Runners, Finish(w)
  PROVE  Held'
<1> DEFINE e == working[w]
<1>1. /\ e \in written \cup missed /\ signals' = Notified("messages")
      /\ working' = [working EXCEPT ![w] = none]
      /\ \/ table' = table \ {e} /\ waiting' = waiting
         \/ waiting' = waiting \cup {e} /\ table' = table
      /\ UNCHANGED <<process, queued, replay, submit, drawn, written, missed>>
  BY DEF Finish
<1>2. Typed /\ e # none
  BY <1>1 DEF Held, Typed, Ids, none
<1>3. Shared(queued, replay, submit, working, table \ waiting)
  BY <1>2 DEF Held, NoWork
<1>4. working \in [Runners -> Ids \cup {none}] /\ e \in Ids
  BY <1>2 DEF Typed
<1>5. /\ working' \in [Runners -> Ids \cup {none}]
      /\ Alone(working') /\ In(working') = In(working) \ {e} /\ e \in In(working)
  BY <1>2, <1>3, <1>4, GivenAway, ZenonT(60) DEF Shared, Finish
<1>6. process # "down"
  BY <1>2 DEF Held, NoWork
<1> HIDE DEF e
<1>7. (table \ waiting)' = (table \ waiting) \ {e}
  BY <1>1
<1>8. Shared(queued, replay, submit, working', (table \ waiting) \ {e})
  BY <1>3, <1>5 DEF Shared
<1>9. Signals(signals')
  BY <1>1, SignalsKeep DEF Held, Typed, Signals
<1>10. Typed'
  BY <1>1, <1>2, <1>4, <1>5, <1>9 DEF Typed, Ids, Signals
<1>11. (\A t \in Ids : t \in table \/ t \in written \/ t \in missed)'
  BY <1>1 DEF Held, Ids
<1> QED
  BY <1>1, <1>6, <1>7, <1>8, <1>9, <1>10, <1>11 DEF Held, Signals

\* Main leaves its first phase with nothing to dispatch, and its second one with
\* all that it holds.
LEMMA HeldTurns ==
  ASSUME Held, Listen \/ Stop
  PROVE  Held'
<1>1. /\ process # "down" /\ process' \in {"serving", "stopping"}
      /\ UNCHANGED <<table, queued, replay, submit, working, drawn, written, missed, signals, waiting>>
  BY DEF Listen, Stop
<1>2. Typed'
  BY <1>1 DEF Held, Typed, Ids
<1>3. Shared(queued, replay, submit, working, table \ waiting)
  BY <1>1 DEF Held
<1> QED
  BY <1>1, <1>2, <1>3 DEF Held, Ids

\* Every step keeps Held.
LEMMA HeldNext ==
  ASSUME Held, [DeliveryNext]_delivery
  PROVE  Held'
<1>1. Signals(signals) /\ written \subseteq Ids /\ missed \subseteq Ids
  BY DEF Held, Typed, Signals
<1>2. CASE Main
  <2>1. CASE Exit
    BY <2>1, HeldEnds DEF Exit
  <2> QED
    BY <1>2, <2>1, HeldStart, HeldReplay, HeldTurns DEF Main
<1>3. CASE Client \/ Drain \/ Lose \/ TimeOut \/ SignalOther
  <2>1. Signals(signals')
    BY <1>1, <1>3, SignalsKeep
       DEF Client, Register, SignedIn, Hear, Drain, Lose, TimeOut, SignalOther
  <2>2. UNCHANGED <<process, table, queued, replay, submit, working, drawn, waiting, written,
                    missed>>
    BY <1>3 DEF Client, Register, SignedIn, Hear, Drain, Lose, TimeOut, SignalOther
  <2> QED
    BY <1>1, <2>1, <2>2, HeldStays
<1>4. ASSUME NEW u \in Submitters, Persist(u) \/ Submitter(u) PROVE Held'
  BY <1>4, HeldPersist, HeldDispatch, HeldPanic DEF Submitter
<1>5. ASSUME NEW w \in Runners, Runner(w) PROVE Held'
  <2>1. CASE Write(w)
    <3>1. /\ \/ written' = written \cup {working[w]} /\ missed' = missed
             \/ missed' = missed \cup {working[w]} /\ written' = written
          /\ working[w] # none
          /\ UNCHANGED <<process, table, queued, replay, submit, working, drawn, waiting,
                         signals>>
      BY <2>1 DEF Write
    <3>2. working[w] \in Ids
      BY <3>1 DEF Held, Typed
    <3> QED
      BY <1>1, <3>1, <3>2, HeldStays
  <2> QED
    BY <1>5, <2>1, HeldTake, HeldFinish DEF Runner
<1>6. CASE Stop
  BY <1>6, HeldTurns
<1>7. CASE Kill
  BY <1>7, HeldEnds DEF Kill
<1>8. CASE UNCHANGED delivery
  BY <1>1, <1>8, HeldStays DEF delivery
<1> QED
  BY <1>2, <1>3, <1>4, <1>5, <1>6, <1>7, <1>8 DEF DeliveryNext

\* A server that has just been installed holds nothing.
LEMMA HeldInit ==
  ASSUME DeliveryInit
  PROVE  Held
<1>1. Ids = {}
  BY DEF DeliveryInit, Ids
<1>2. Typed
  BY <1>1, EmptySeq DEF DeliveryInit, Typed, NoSubmit, NoWork
<1>3. Shared(queued, replay, submit, working, table \ waiting)
  BY Idle DEF DeliveryInit, Shared
<1>4. Len(queued) <= QueueSize /\ Len(signals) <= SignalSize
  BY EmptySeq, DeliveryAssumption DEF DeliveryInit
<1> QED
  BY <1>1, <1>2, <1>3, <1>4 DEF Held, DeliveryInit

-----------------------------------------------------------------------------
(* Counting the places of a task *)

\* Where f holds task t, as Holders names it.
Places(name, f, t) == {<<name, x>> : x \in {y \in DOMAIN f : f[y] = t}}

\* A task is in one place of those where it is, and in none of the others.
LEMMA OnePlace ==
  ASSUME NEW f, Alone(f), NEW t, t # none, NEW name
  PROVE  IF t \in In(f) THEN \E x : Places(name, f, t) = {x} ELSE Places(name, f, t) = {}
<1>1. CASE t \in In(f)
  <2>1. PICK x \in DOMAIN f : f[x] = t
    BY <1>1 DEF In
  <2>2. {y \in DOMAIN f : f[y] = t} = {x}
    BY <2>1 DEF Alone
  <2>3. Places(name, f, t) = {<<name, x>>}
    BY <2>2 DEF Places
  <2> QED
    BY <1>1, <2>3
<1>2. CASE t \notin In(f)
  <2>1. {y \in DOMAIN f : f[y] = t} = {}
    BY <1>2 DEF In
  <2>2. Places(name, f, t) = {}
    BY <2>1 DEF Places
  <2> QED
    BY <1>2, <2>2
<1> QED
  BY <1>1, <1>2

\* What Held says of the sets of tasks, HeldOnce says of the number of places.
LEMMA HeldHeldOnce ==
  ASSUME Held
  PROVE  HeldOnce
<1>1. \A t \in 1..drawn : t \in table \/ t \in written \/ t \in missed
  BY DEF Held, Ids
<1>2. ASSUME process # "down", NEW t \in Tasks
      PROVE  Cardinality(Holders(t)) = IF t \in table \ waiting THEN 1 ELSE 0
  <2> DEFINE Q == Places("queue", queued, t)
             R == Places("replay", replay, t)
             S == Places("submit", submit, t)
             W == Places("work", working, t)
  <2>1. Shared(queued, replay, submit, working, table \ waiting)
    BY <1>2 DEF Held
  <2>2. t # none
    <3>1. Cardinality(Tasks) \in Nat /\ t \in 1..Cardinality(Tasks)
      BY FS_CardinalityType, DeliveryAssumption
    <3> QED
      BY <3>1 DEF none
  <2>3. DOMAIN submit = Submitters /\ DOMAIN working = Runners
    BY DEF Held, Typed
  <2>4. /\ IF t \in In(queued) THEN \E x : Q = {x} ELSE Q = {}
        /\ IF t \in In(replay) THEN \E x : R = {x} ELSE R = {}
        /\ IF t \in In(submit) THEN \E x : S = {x} ELSE S = {}
        /\ IF t \in In(working) THEN \E x : W = {x} ELSE W = {}
    BY <2>1, <2>2, OnePlace DEF Shared
  <2>5. Holders(t) = Q \cup R \cup S \cup W
    BY <2>3 DEF Holders, Places
  <2> HIDE DEF Q, R, S, W
  <2>6. CASE t \in table \ waiting
    <3>1. \E x : Holders(t) = {x}
      BY <2>1, <2>4, <2>5, <2>6 DEF Shared
    <3> QED
      BY <2>6, <3>1, FS_Singleton
  <2>7. CASE t \notin table \ waiting
    <3>1. Holders(t) = {}
      BY <2>1, <2>4, <2>5, <2>7 DEF Shared
    <3> QED
      BY <2>7, <3>1, FS_EmptySet
  <2> QED
    BY <2>6, <2>7
<1> QED
  BY <1>1, <1>2 DEF HeldOnce, Held

\* A running server holds every task that is stored, and that no error or stop has
\* left to the next start, in exactly one place; no task is dropped before its
\* handler has written or has failed to, and no channel grows beyond its capacity.
THEOREM TasksHeldOnce == DeliverySpec => []HeldOnce
<1>1. DeliveryInit => Held
  BY HeldInit
<1>2. Held /\ [DeliveryNext]_delivery => Held'
  BY HeldNext
<1>3. Held => HeldOnce
  BY HeldHeldOnce
<1> QED
  BY <1>1, <1>2, <1>3, PTL DEF DeliverySpec
=============================================================================
