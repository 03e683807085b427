---------------------------- MODULE CacheProofs ----------------------------
(***************************************************************************)
(* The display-info cache shows nobody another user's remarks, leaves no   *)
(* id without its name, forgets no forced read and never goes back to an   *)
(* older name, but in a load of several requests whose early answer was    *)
(* overtaken, for any number of users, ids and events, any size of cache,  *)
(* queue, load and request and any reads.                                  *)
(*                                                                         *)
(* All five properties are of one inductive invariant, CacheOK, which says *)
(* of every request on its way whose it is, what its answer may say and    *)
(* what earlier requests of its load have been told.                       *)
(***************************************************************************)
EXTENDS DisplayCache, TLAPS, SequenceTheorems, FiniteSetTheorems, WellFoundedInduction

-----------------------------------------------------------------------------
(* The inductive invariant *)

\* A load is asked for in parts: what its request asks for is answered with a name each,
\* behind the names of what earlier requests asked for; a change of a name is answered
\* with the number that the server gave it.
FetchRequest ==
  {q \in [op : {"fetch"}, served : BOOLEAN, gateway : Nat \ {0}, ids : Seq(Ids),
          need : SUBSET Ids, asked : SUBSET Ids, names : UNION {[S -> Nat] : S \in SUBSET Ids}] :
     /\ q.need \subseteq ToSet(q.ids) /\ q.asked \subseteq q.need /\ DOMAIN q.names \subseteq q.need
     /\ IF q.served THEN q.asked \subseteq DOMAIN q.names ELSE q.asked \cap DOMAIN q.names = {}}

ChangeRequest ==
  [op : {"change"}, served : BOOLEAN, id : Ids, field : Fields, value : Nat]

LoginRequest == [op : {"login"}, served : BOOLEAN, user : Users, session : Nat \ {0}]

Request == FetchRequest \cup ChangeRequest \cup LoginRequest

Client ==
  [held : Seq(Ids), entry : [Ids -> Entry], pending : Seq(Ids), forced : SUBSET Ids,
   timer : BOOLEAN, user : Users \cup {0}, session : Nat, gateway : Nat, opened : BOOLEAN]

History == [owed : SUBSET Ids, lost : SUBSET Ids, ahead : SUBSET Ids]

\* A client's store keeps within its bound and holds an id once; what is not held has
\* no entry.
IsStore(st) ==
  /\ st \in Client /\ Len(st.held) <= size.cache /\ IsInjective(st.held)
  /\ \A i \in Ids : ~Holds(st, i) => st.entry[i] = Absent

\* The queue keeps within its bound, and a forced id is in it.
IsQueue(st) == Len(st.pending) <= size.queue /\ st.forced \subseteq ToSet(st.pending)

Timed(st) == st.timer => st.pending # <<>> /\ (st.session = 0 \/ st.gateway # 0)

Typed ==
  /\ storage \in Storages /\ size \in Sizes
  /\ IsStore(store) /\ IsQueue(store) /\ Timed(store)
  /\ rows \in [Users -> [Ids -> Row]]
  /\ wire \in Seq(Request) /\ source \in [Ids -> Nat \ {0}]
  /\ history \in History /\ used \in Nat

\* A change on its way is the signed-in user's, and no login is before it.
OwnChange(n) ==
  /\ \A m \in 1..(n - 1) : wire[m].op # "login"
  /\ wire[n].field = "remark" => wire[n].value \in {0, store.user}

\* Who can have what on the wire, and whose the remarks are.  Only a session that has
\* failed leaves a user with what he had and no gateway.
Apart ==
  /\ SessionsApart
  /\ store.user = 0 =>
       store.session = 0 /\ store.held = <<>> /\ \A n \in DOMAIN wire : wire[n].op = "login"
  /\ store.session = 0 => store.gateway = 0
  /\ storage = "instant" =>
       store.gateway = store.session /\ (store.gateway = 0 => store.user = 0)
  /\ store.gateway = 0 => history.owed = {}
  /\ store.session # 0 /\ store.gateway = 0 =>
       store.held = <<>> /\ \A n \in DOMAIN wire : wire[n].op # "change"
  /\ storage = "persistent" /\ Logins # {} => store.session = 0
  /\ \A m, n \in Logins : m = n
  /\ \A n \in DOMAIN wire : wire[n].op = "change" => OwnChange(n)

\* The answer of q says what i is called.
Tells(q, i) ==
  /\ q.served
  /\ \/ q.op = "fetch" /\ i \in q.asked
     \/ q.op = "change" /\ q.field = "name" /\ q.id = i

NameIn(q, i) == IF q.op = "fetch" THEN q.names[i] ELSE q.value

\* An earlier request of the load was told what i is called.
Knows(q, i) == q.op = "fetch" /\ i \in Waited(q)

\* Requests are served in order, so of two answers the later one has the newer name, and
\* what a load was told before is not newer than any answer.
Ordered ==
  /\ \A m, n \in DOMAIN wire : m < n /\ wire[n].served => wire[m].served
  /\ \A n \in DOMAIN wire : \A i \in Ids : Tells(wire[n], i) =>
       /\ NameIn(wire[n], i) # 0 /\ NameIn(wire[n], i) <= source[i]
       /\ \A m \in 1..n : Tells(wire[m], i) => NameIn(wire[m], i) <= NameIn(wire[n], i)
  /\ \A m \in DOMAIN wire : \A i \in Ids : Knows(wire[m], i) =>
       /\ wire[m].names[i] # 0 /\ wire[m].names[i] <= source[i]
       /\ \A n \in DOMAIN wire : Tells(wire[n], i) => wire[m].names[i] <= NameIn(wire[n], i)

\* What is shown or stored is not newer than what an answer on its way says, and what
\* is shown not newer than what is stored, but for own changes.
Forward ==
  /\ \A i \in Ids : store.entry[i].name <= source[i]
  /\ \A u \in Users : \A i \in Ids : rows[u][i].name <= source[i]
  /\ \A n \in DOMAIN wire : \A i \in Ids : Tells(wire[n], i) =>
       /\ store.entry[i].name <= NameIn(wire[n], i)
       /\ \A u \in Users : rows[u][i].name <= NameIn(wire[n], i)
  /\ storage = "persistent" /\ store.gateway # 0 =>
       \A i \in Ids :
         store.entry[i].name <= rows[store.user][i].name \/ i \in history.ahead

\* The load at n is of i, on behalf of the gateway that is installed.
Asks(n, i) == wire[n].op = "fetch" /\ FromOwn(wire[n]) /\ i \in wire[n].need

\* The name of an id that is held without one has failed to load, is queued or asked for.
Named ==
  store.gateway # 0 =>
    \A i \in Ids : Holds(store, i) =>
      \/ store.entry[i].name # 0 \/ i \in history.lost \/ i \in ToSet(store.pending)
      \/ \E n \in DOMAIN wire : Asks(n, i)

\* From n on no answer says anything but the server's name.
TrueFrom(n, i) ==
  \A m \in DOMAIN wire : m >= n /\ Tells(wire[m], i) => NameIn(wire[m], i) = source[i]

\* Queued with force and timed.
Due(i) == i \in store.forced /\ store.timer

\* Asked for, with nothing older known before or told behind.
Coming(i) ==
  \E n \in DOMAIN wire :
    /\ Asks(n, i) /\ TrueFrom(n, i)
    /\ Knows(wire[n], i) => wire[n].names[i] = source[i]

\* Shown, or about to be loaded from where it is.
Arrived(i) ==
  /\ TrueFrom(1, i)
  /\ Holds(store, i) =>
       store.entry[i].name = source[i] \/ (i \in ToSet(store.pending) /\ store.timer)
  /\ storage = "persistent" => rows[store.user][i].name = source[i]

\* An id that must show the server's name at rest will.
Owed == \A i \in history.owed : Due(i) \/ Coming(i) \/ Arrived(i)

CacheOK == Typed /\ Apart /\ Ordered /\ Forward /\ Named /\ Owed

-----------------------------------------------------------------------------
(* Loops over a sequence *)

\* What holds at 0 and goes from n to n + 1 holds up to N.
LEMMA Counting ==
  ASSUME NEW N \in Nat, NEW S, 0 \in S, \A n \in 0..N : n < N /\ n \in S => n + 1 \in S
  PROVE  0..N \subseteq S
<1> DEFINE Bad == {n \in 0..N : n \notin S}
<1>1. SUFFICES ASSUME Bad # {} PROVE FALSE
  OBVIOUS
<1>2. Bad \in SUBSET Nat
  OBVIOUS
<1>3. PICK m \in Bad : \A n \in Bad : <<n, m>> \notin OpToRel(<, Nat)
  BY <1>1, <1>2, NatLessThanWellFounded, WFMin
<1>4. \A n \in Bad : ~(n < m)
  BY <1>2, <1>3 DEF OpToRel
<1>5. m \in Nat /\ m # 0 /\ m <= N /\ m \notin S
  OBVIOUS
<1>6. m - 1 \in 0..N /\ m - 1 < N /\ m - 1 < m
  BY <1>5
<1>7. m - 1 \in S
  BY <1>4, <1>6
<1> QED
  BY <1>5, <1>6, <1>7

\* F is the run of a loop of N rounds that starts with b and does G[n] in the n-th.
LoopRun(N, b, G, F) == F[0] = b /\ \A n \in 1..N : F[n] = G[n][F[n - 1]]

\* A loop that stays within D has a run.
LEMMA Looping ==
  ASSUME NEW N \in Nat, NEW D, NEW b \in D, NEW G \in [1..N -> [D -> D]]
  PROVE  \E F \in [0..N -> D] : LoopRun(N, b, G, F)
<1> DEFINE Run(n, F) == \A k \in 0..n : F[k] = IF k = 0 THEN b ELSE G[k][F[k - 1]]
           S == {n \in 0..N : \E F \in [0..n -> D] : Run(n, F)}
<1>1. 0 \in S
  <2> DEFINE F == [k \in 0..0 |-> b]
  <2>1. F \in [0..0 -> D] /\ Run(0, F)
    OBVIOUS
  <2>2. \E E \in [0..0 -> D] : Run(0, E)
    BY <2>1
  <2> QED
    BY <2>2
<1>2. ASSUME NEW n \in 0..N, n < N, n \in S
      PROVE  n + 1 \in S
  <2>1. PICK F \in [0..n -> D] : Run(n, F)
    BY <1>2
  <2> DEFINE H == [k \in 0..(n + 1) |-> IF k = n + 1 THEN G[n + 1][F[n]] ELSE F[k]]
  <2>2. n \in 0..n /\ n + 1 \in 1..N /\ n + 1 \in 0..N
    BY <1>2
  <2>3. G[n + 1][F[n]] \in D
    BY <2>2
  <2>4. \A k \in 0..(n + 1) : k = n + 1 \/ k \in 0..n
    OBVIOUS
  <2>5. H \in [0..(n + 1) -> D]
    BY <2>3, <2>4
  <2>6. ASSUME NEW k \in 0..(n + 1)
        PROVE  H[k] = IF k = 0 THEN b ELSE G[k][H[k - 1]]
    <3>1. CASE k = n + 1
      <4>1. k - 1 = n /\ k # 0 /\ n \in 0..(n + 1) /\ n # n + 1
        BY <2>2, <3>1
      <4> QED
        BY <3>1, <4>1
    <3>2. CASE k \in 0..n
      <4>1. k # n + 1 /\ H[k] = F[k]
        BY <3>2
      <4>2. CASE k = 0
        BY <2>1, <3>2, <4>1, <4>2
      <4>3. CASE k # 0
        <5>1. k - 1 \in 0..(n + 1) /\ k - 1 # n + 1
          BY <3>2, <4>3
        <5>2. H[k - 1] = F[k - 1]
          BY <5>1
        <5> QED
          BY <2>1, <3>2, <4>1, <4>3, <5>2
      <4> QED
        BY <4>2, <4>3
    <3> QED
      BY <2>4, <3>1, <3>2
  <2>7. Run(n + 1, H)
    BY <2>6
  <2> QED
    BY <2>2, <2>5, <2>7
<1>3. 0..N \subseteq S
  <2> HIDE DEF S
  <2> QED
    BY <1>1, <1>2, Counting
<1>4. PICK F \in [0..N -> D] : Run(N, F)
  BY <1>3
<1>5. LoopRun(N, b, G, F)
  BY <1>4 DEF LoopRun
<1> QED
  BY <1>5

-----------------------------------------------------------------------------
(* What is shown *)

\* The queue, the session and the gateway are not touched.
OnlyShown(s, t) ==
  /\ t.pending = s.pending /\ t.forced = s.forced /\ t.timer = s.timer
  /\ t.user = s.user /\ t.session = s.session /\ t.gateway = s.gateway /\ t.opened = s.opened

\* The capacities are numbers.
LEMMA SizesAre ==
  size \in Sizes =>
    /\ size.cache \in Nat /\ size.queue \in Nat
    /\ size.batch \in Nat \ {0} /\ size.request \in Nat \ {0}
BY DisplayCacheAssumption

\* An item that is appended is there, and so are the others.
LEMMA ToSetAppend ==
  ASSUME NEW T, NEW s \in Seq(T), NEW x \in T
  PROVE  ToSet(Append(s, x)) = ToSet(s) \cup {x}
<1>1. /\ Append(s, x) \in Seq(T) /\ Len(Append(s, x)) = Len(s) + 1
      /\ \A k \in 1..Len(s) : Append(s, x)[k] = s[k]
      /\ Append(s, x)[Len(s) + 1] = x
  OBVIOUS
<1>2. DOMAIN Append(s, x) = 1..(Len(s) + 1) /\ DOMAIN s = 1..Len(s) /\ Len(s) \in Nat
  BY <1>1
<1>3. \A k \in 1..(Len(s) + 1) : k \in 1..Len(s) \/ k = Len(s) + 1
  BY <1>2
<1>4. \A k \in 1..Len(s) : k \in 1..(Len(s) + 1)
  BY <1>2
<1>5. Len(s) + 1 \in 1..(Len(s) + 1)
  BY <1>2
<1> QED
  BY <1>1, <1>2, <1>3, <1>4, <1>5 DEF ToSet

\* A new item is only there once.
LEMMA InjectiveAppend ==
  ASSUME NEW T, NEW s \in Seq(T), IsInjective(s), NEW x \in T, x \notin ToSet(s)
  PROVE  IsInjective(Append(s, x))
<1>1. /\ DOMAIN s = 1..Len(s) /\ Len(s) \in Nat /\ DOMAIN Append(s, x) = 1..(Len(s) + 1)
      /\ \A k \in 1..Len(s) : Append(s, x)[k] = s[k]
      /\ Append(s, x)[Len(s) + 1] = x
  OBVIOUS
<1>2. \A k \in 1..Len(s) : s[k] # x
  BY <1>1 DEF ToSet
<1> QED
  BY <1>1, <1>2 DEF IsInjective

\* What is left without the first item.
LEMMA InjectiveTail ==
  ASSUME NEW T, NEW s \in Seq(T), IsInjective(s), s # <<>>
  PROVE  /\ Tail(s) \in Seq(T) /\ Len(Tail(s)) = Len(s) - 1
         /\ IsInjective(Tail(s)) /\ ToSet(Tail(s)) \subseteq ToSet(s)
<1>1. /\ Tail(s) \in Seq(T) /\ Len(Tail(s)) = Len(s) - 1 /\ Len(s) \in Nat
      /\ DOMAIN s = 1..Len(s) /\ DOMAIN Tail(s) = 1..(Len(s) - 1)
  OBVIOUS
<1>2. \A k \in 1..(Len(s) - 1) : Tail(s)[k] = s[k + 1] /\ k + 1 \in 1..Len(s)
  BY <1>1
<1>3. IsInjective(Tail(s))
  BY <1>1, <1>2 DEF IsInjective
<1>4. ToSet(Tail(s)) \subseteq ToSet(s)
  BY <1>1, <1>2 DEF ToSet
<1> QED
  BY <1>1, <1>3, <1>4

\* So a sequence is as long as it has items.
LEMMA InjectiveSize ==
  ASSUME NEW T, NEW s \in Seq(T), IsInjective(s)
  PROVE  IsFiniteSet(ToSet(s)) /\ Cardinality(ToSet(s)) = Len(s)
<1>1. s \in [1..Len(s) -> T] /\ Len(s) \in Nat /\ DOMAIN s = 1..Len(s)
  OBVIOUS
<1>2. s \in [1..Len(s) -> ToSet(s)] /\ \A x \in ToSet(s) : \E k \in 1..Len(s) : s[k] = x
  BY <1>1 DEF ToSet
<1>3. s \in Bijection(1..Len(s), ToSet(s))
  BY <1>1, <1>2 DEF Bijection, Injection, Surjection
<1>4. ExistsBijection(1..Len(s), ToSet(s))
  BY <1>3 DEF ExistsBijection
<1>5. IsFiniteSet(1..Len(s)) /\ Cardinality(1..Len(s)) = Len(s)
  <2>1. 1 \in Int /\ Len(s) \in Int
    BY <1>1
  <2>2. IsFiniteSet(1..Len(s)) /\ Cardinality(1..Len(s)) = IF 1 > Len(s) THEN 0 ELSE Len(s) - 1 + 1
    BY <2>1, FS_Interval
  <2> QED
    BY <1>1, <2>2
<1> QED
  BY <1>4, <1>5, FS_Bijection

\* FifoMap.set: the id has the entry if it is held at all, the others have theirs if
\* they still are; none is pushed out if there is room.
LEMMA PutDoes ==
  ASSUME size \in Sizes, NEW st, IsStore(st), NEW i \in Ids, NEW e \in Entry
  PROVE  LET p == Put(st, i, e) IN
         /\ IsStore(p) /\ OnlyShown(st, p)
         /\ \A j \in Ids : Holds(p, j) =>
              IF j = i THEN p.entry[j] = e ELSE Holds(st, j) /\ p.entry[j] = st.entry[j]
         /\ Holds(st, i) \/ Len(st.held) < size.cache => ToSet(p.held) = ToSet(st.held) \cup {i}
<1> DEFINE ids == IF Holds(st, i) THEN st.held ELSE Append(st.held, i)
           kept == IF Len(ids) > size.cache THEN Tail(ids) ELSE ids
           now == [st.entry EXCEPT ![i] = e]
           entry == [j \in Ids |-> IF j \in ToSet(kept) THEN now[j] ELSE Absent]
           p == Put(st, i, e)
<1>0. /\ size.cache \in Nat /\ st.held \in Seq(Ids) /\ Len(st.held) <= size.cache
      /\ Len(st.held) \in Nat /\ st.entry \in [Ids -> Entry] /\ st \in Client
      /\ IsInjective(st.held)
  BY SizesAre DEF IsStore, Client
<1>1. ids \in Seq(Ids) /\ Len(ids) <= size.cache + 1 /\ IsInjective(ids)
      /\ ToSet(ids) = ToSet(st.held) \cup {i}
      /\ (Holds(st, i) \/ Len(st.held) < size.cache => Len(ids) <= size.cache)
  <2>1. CASE Holds(st, i)
    BY <1>0, <2>1 DEF Holds
  <2>2. CASE ~Holds(st, i)
    <3>1. Len(ids) = Len(st.held) + 1 /\ ids = Append(st.held, i)
      BY <1>0, <2>2
    <3>2. IsInjective(ids) /\ ToSet(ids) = ToSet(st.held) \cup {i}
      BY <1>0, <2>2, <3>1, InjectiveAppend, ToSetAppend DEF Holds
    <3> QED
      BY <1>0, <2>2, <3>1, <3>2
  <2> QED
    BY <2>1, <2>2
<1>2. ToSet(ids) \subseteq ToSet(st.held) \cup {i}
  BY <1>1
<1>3. kept \in Seq(Ids) /\ Len(kept) <= size.cache /\ IsInjective(kept)
      /\ ToSet(kept) \subseteq ToSet(ids)
      /\ (Len(ids) <= size.cache => kept = ids)
  <2>0. Len(ids) \in Nat
    BY <1>1
  <2> HIDE DEF ids
  <2>1. CASE Len(ids) > size.cache
    <3>1. ids # <<>>
      BY <1>0, <1>1, <2>1
    <3>2. Tail(ids) \in Seq(Ids) /\ Len(Tail(ids)) = Len(ids) - 1
          /\ IsInjective(Tail(ids)) /\ ToSet(Tail(ids)) \subseteq ToSet(ids)
      BY <1>1, <3>1, InjectiveTail
    <3>3. kept = Tail(ids) /\ ~(Len(ids) <= size.cache)
      BY <1>0, <2>0, <2>1
    <3>4. Len(Tail(ids)) <= size.cache
      BY <1>0, <1>1, <2>0, <3>2
    <3> HIDE DEF kept
    <3> QED
      BY <3>2, <3>3, <3>4
  <2>2. CASE ~(Len(ids) > size.cache)
    BY <1>0, <1>1, <2>0, <2>2
  <2> QED
    BY <2>1, <2>2
<1>4. /\ ToSet(kept) \subseteq ToSet(st.held) \cup {i}
      /\ Holds(st, i) \/ Len(st.held) < size.cache => ToSet(kept) = ToSet(st.held) \cup {i}
  BY <1>1, <1>3
<1>5. p = [st EXCEPT !.held = kept, !.entry = entry]
  BY DEF Put
<1> HIDE DEF ids, kept
<1>6. now \in [Ids -> Entry] /\ Absent \in Entry
  BY <1>0 DEF Absent, Entry
<1>7. entry \in [Ids -> Entry]
  BY <1>6
<1>8. p.held = kept /\ p.entry = entry /\ p \in Client /\ OnlyShown(st, p)
  BY <1>0, <1>3, <1>5, <1>7 DEF Client, OnlyShown
<1>9. \A j \in Ids : ~Holds(p, j) => p.entry[j] = Absent
  BY <1>8 DEF Holds
<1>10. \A j \in Ids : Holds(p, j) =>
         IF j = i THEN p.entry[j] = e ELSE Holds(st, j) /\ p.entry[j] = st.entry[j]
  BY <1>0, <1>2, <1>3, <1>8 DEF Holds
<1> QED
  BY <1>3, <1>4, <1>8, <1>9, <1>10 DEF IsStore

\* The items of any sequence are finitely many.
LEMMA ToSetFinite ==
  ASSUME NEW T, NEW s \in Seq(T)
  PROVE  IsFiniteSet(ToSet(s))
<1>1. s \in [1..Len(s) -> T] /\ Len(s) \in Nat /\ DOMAIN s = 1..Len(s)
  OBVIOUS
<1>2. IsFiniteSet(1..Len(s))
  <2>1. 1 \in Int /\ Len(s) \in Int
    BY <1>1
  <2> QED
    BY <2>1, FS_Interval
<1>3. s \in Surjection(1..Len(s), ToSet(s))
  BY <1>1 DEF Surjection, ToSet
<1> QED
  BY <1>2, <1>3, FS_Surjection

\* From s to t the infos of the ids in S were shown and nothing else changed: an id
\* keeps its entry, but for a remark that is lost when it is pushed out on the way.
ShowsOf(s, t, S, infos) ==
  /\ OnlyShown(s, t)
  /\ \A j \in Ids : Holds(t, j) =>
       IF j \in S
       THEN /\ t.entry[j].name = infos[j].name /\ t.entry[j].expired = infos[j].expired
            /\ t.entry[j].remark \in {0, s.entry[j].remark}
       ELSE Holds(s, j) /\ t.entry[j] = s.entry[j]
  /\ IsFiniteSet(S) /\ Cardinality(ToSet(s.held) \cup S) <= size.cache =>
       /\ ToSet(t.held) = ToSet(s.held) \cup S
       /\ \A j \in ToSet(s.held) : t.entry[j].remark = s.entry[j].remark

\* One more id is shown.
LEMMA ShowDoes ==
  ASSUME size \in Sizes, NEW s, IsStore(s), NEW S \in SUBSET Ids, NEW infos \in [S -> Row],
         NEW R \in SUBSET S, NEW t, IsStore(t), ShowsOf(s, t, R, infos), NEW i \in S
  PROVE  IsStore(Show(t, i, infos[i])) /\ ShowsOf(s, Show(t, i, infos[i]), R \cup {i}, infos)
<1> DEFINE e == [name |-> infos[i].name, expired |-> infos[i].expired, remark |-> t.entry[i].remark]
           p == Put(t, i, e)
<1>1. Show(t, i, infos[i]) = p
  BY DEF Show
<1>2. i \in Ids /\ infos[i] \in Row /\ t.entry \in [Ids -> Entry] /\ s.entry \in [Ids -> Entry]
  BY DEF IsStore, Client
<1>3. e \in Entry /\ e.name = infos[i].name /\ e.expired = infos[i].expired
      /\ e.remark = t.entry[i].remark
  BY <1>2 DEF Entry, Row
<1> HIDE DEF e
<1>4. /\ IsStore(p) /\ OnlyShown(t, p)
      /\ \A j \in Ids : Holds(p, j) =>
           IF j = i THEN p.entry[j] = e ELSE Holds(t, j) /\ p.entry[j] = t.entry[j]
      /\ Holds(t, i) \/ Len(t.held) < size.cache => ToSet(p.held) = ToSet(t.held) \cup {i}
  BY <1>2, <1>3, PutDoes
<1> HIDE DEF p
<1>5. OnlyShown(s, p)
  BY <1>4 DEF OnlyShown, ShowsOf
<1>6. t.entry[i].remark \in {0, s.entry[i].remark}
  <2>1. CASE Holds(t, i)
    BY <1>2, <2>1 DEF ShowsOf
  <2>2. CASE ~Holds(t, i)
    BY <1>2, <2>2 DEF IsStore, Absent
  <2> QED
    BY <2>1, <2>2
<1>7. ASSUME NEW j \in Ids, Holds(p, j)
      PROVE  IF j \in R \cup {i}
             THEN /\ p.entry[j].name = infos[j].name /\ p.entry[j].expired = infos[j].expired
                  /\ p.entry[j].remark \in {0, s.entry[j].remark}
             ELSE Holds(s, j) /\ p.entry[j] = s.entry[j]
  <2>1. CASE j = i
    BY <1>3, <1>4, <1>6, <1>7, <2>1
  <2>2. CASE j # i
    BY <1>4, <1>7, <2>2 DEF ShowsOf
  <2> QED
    BY <2>1, <2>2
<1>8. ASSUME IsFiniteSet(R \cup {i}), Cardinality(ToSet(s.held) \cup (R \cup {i})) <= size.cache
      PROVE  /\ ToSet(p.held) = ToSet(s.held) \cup (R \cup {i})
             /\ \A j \in ToSet(s.held) : p.entry[j].remark = s.entry[j].remark
  <2> DEFINE H == ToSet(s.held)
             K == H \cup R
  <2>1. /\ s.held \in Seq(Ids) /\ t.held \in Seq(Ids) /\ size.cache \in Nat
        /\ IsInjective(s.held) /\ IsInjective(t.held) /\ H \subseteq Ids
    <3>1. s.held \in Seq(Ids) /\ t.held \in Seq(Ids) /\ IsInjective(s.held) /\ IsInjective(t.held)
      BY DEF IsStore, Client
    <3> QED
      BY <3>1, SizesAre DEF ToSet
  <2>2. IsFiniteSet(H) /\ IsFiniteSet(ToSet(t.held)) /\ Cardinality(ToSet(t.held)) = Len(t.held)
    BY <2>1, InjectiveSize
  <2>3. R \in SUBSET (R \cup {i})
    OBVIOUS
  <2>4. IsFiniteSet(R)
    BY <1>8, <2>3, FS_Subset
  <2> HIDE DEF H
  <2>5. IsFiniteSet(K)
    BY <2>2, <2>4, FS_Union
  <2>6. H \cup (R \cup {i}) = K \cup {i}
    OBVIOUS
  <2>7. /\ Cardinality(K \cup {i}) = IF i \in K THEN Cardinality(K) ELSE Cardinality(K) + 1
        /\ Cardinality(K) \in Nat /\ Cardinality(K \cup {i}) <= size.cache
    <3>1. Cardinality(K \cup {i}) <= size.cache
      BY <1>8, <2>6 DEF H
    <3> HIDE DEF K
    <3> QED
      BY <2>5, <3>1, FS_AddElement, FS_CardinalityType
  <2>8. /\ ToSet(t.held) = K
        /\ \A j \in H : t.entry[j].remark = s.entry[j].remark
    <3>1. Cardinality(H \cup R) <= size.cache
      BY <2>1, <2>7
    <3> QED
      BY <2>4, <3>1 DEF ShowsOf, H
  <2> HIDE DEF K
  <2>9. Holds(t, i) \/ Len(t.held) < size.cache
    BY <2>1, <2>2, <2>7, <2>8 DEF Holds
  <2>10. ToSet(p.held) = K \cup {i}
    BY <1>4, <2>8, <2>9
  <2>11. ASSUME NEW j \in H
         PROVE  p.entry[j].remark = s.entry[j].remark
    <3>1. j \in Ids /\ Holds(p, j) /\ t.entry[j].remark = s.entry[j].remark
      BY <2>1, <2>8, <2>10 DEF Holds, K
    <3> QED
      BY <1>3, <1>4, <3>1
  <2> QED
    BY <2>6, <2>10, <2>11 DEF H
<1> QED
  BY <1>1, <1>4, <1>5, <1>7, <1>8 DEF ShowsOf

\* F is the run of the loop of ShowAll.
ShowRun(st, ids, infos, F) ==
  F = [n \in 0..Len(ids) |->
         IF n = 0 THEN st
         ELSE IF ids[n] \in DOMAIN infos THEN Show(F[n - 1], ids[n], infos[ids[n]])
         ELSE F[n - 1]]

\* There is one.
LEMMA ShowRuns ==
  ASSUME size \in Sizes, NEW st, IsStore(st), NEW ids \in Seq(Ids), NEW S \in SUBSET Ids,
         NEW infos \in [S -> Row]
  PROVE  \E F : ShowRun(st, ids, infos, F)
<1> DEFINE N == Len(ids)
           D == {t \in Client : IsStore(t)}
           G == [n \in 1..N |-> [t \in D |-> IF ids[n] \in S THEN Show(t, ids[n], infos[ids[n]]) ELSE t]]
<1>1. N \in Nat /\ st \in D
  BY DEF IsStore
<1>2. ASSUME NEW n \in 1..N, NEW t \in D, ids[n] \in S
      PROVE  Show(t, ids[n], infos[ids[n]]) \in D
  <2>1. IsStore(t)
    OBVIOUS
  <2>2. OnlyShown(t, t) /\ ShowsOf(t, t, {}, infos)
    BY DEF OnlyShown, ShowsOf
  <2>3. {} \in SUBSET S
    OBVIOUS
  <2> HIDE DEF D
  <2>4. IsStore(Show(t, ids[n], infos[ids[n]]))
    BY <1>2, <2>1, <2>2, <2>3, ShowDoes
  <2> QED
    BY <2>4 DEF D, IsStore
<1>3. G \in [1..N -> [D -> D]]
  BY <1>2
<1> HIDE DEF N, D, G
<1>4. PICK F \in [0..N -> D] : LoopRun(N, st, G, F)
  BY <1>1, <1>3, Looping
<1>5. ASSUME NEW n \in 0..N
      PROVE  F[n] = IF n = 0 THEN st
                    ELSE IF ids[n] \in DOMAIN infos THEN Show(F[n - 1], ids[n], infos[ids[n]])
                    ELSE F[n - 1]
  <2>1. CASE n = 0
    BY <1>4, <2>1 DEF LoopRun
  <2>2. CASE n # 0
    <3>1. n \in 1..N /\ n - 1 \in 0..N
      BY <1>1, <2>2
    <3>2. F[n] = G[n][F[n - 1]] /\ F[n - 1] \in D
      BY <1>4, <2>2, <3>1 DEF LoopRun
    <3>3. DOMAIN infos = S
      OBVIOUS
    <3> QED
      BY <2>2, <3>1, <3>2, <3>3 DEF G
  <2> QED
    BY <2>1, <2>2
<1>6. ShowRun(st, ids, infos, F)
  <2>1. F = [n \in 0..N |-> F[n]]
    OBVIOUS
  <2> QED
    BY <1>5, <2>1 DEF ShowRun, N
<1> QED
  BY <1>6

\* All the ids that there are infos of are shown.
LEMMA ShowAllDoes ==
  ASSUME size \in Sizes, NEW st, IsStore(st), NEW ids \in Seq(Ids), NEW S \in SUBSET Ids,
         NEW infos \in [S -> Row]
  PROVE  /\ IsStore(ShowAll(st, ids, infos))
         /\ ShowsOf(st, ShowAll(st, ids, infos), ToSet(ids) \cap S, infos)
<1> DEFINE N == Len(ids)
           F == CHOOSE F : ShowRun(st, ids, infos, F)
           Upto(n) == {ids[k] : k \in 1..n} \cap S
           Done == {n \in 0..N : IsStore(F[n]) /\ ShowsOf(st, F[n], Upto(n), infos)}
<1>1. ShowRun(st, ids, infos, F)
  BY ShowRuns
<1>2. ShowAll(st, ids, infos) = F[N]
  BY DEF ShowAll, ShowRun
<1>3. N \in Nat
  OBVIOUS
<1> HIDE DEF F
<1>4. F[0] = st
  BY <1>1, <1>3 DEF ShowRun
<1>5. 0 \in Done
  <2>1. Upto(0) = {}
    OBVIOUS
  <2>2. ShowsOf(st, F[0], Upto(0), infos)
    BY <1>4, <2>1 DEF OnlyShown, ShowsOf
  <2>3. 0 \in 0..N /\ IsStore(F[0])
    BY <1>3, <1>4
  <2> QED
    BY <2>2, <2>3
<1>6. ASSUME NEW n \in 0..N, n < N, n \in Done
      PROVE  n + 1 \in Done
  <2>1. n + 1 \in 0..N /\ n + 1 # 0 /\ (n + 1) - 1 = n /\ n + 1 \in 1..N
    BY <1>3, <1>6
  <2>2. F[n + 1] = IF ids[n + 1] \in S THEN Show(F[n], ids[n + 1], infos[ids[n + 1]]) ELSE F[n]
    BY <1>1, <2>1 DEF ShowRun
  <2>3. Upto(n + 1) = Upto(n) \cup ({ids[n + 1]} \cap S)
    <3>1. \A k \in 1..(n + 1) : k \in 1..n \/ k = n + 1
      OBVIOUS
    <3>2. \A k \in 1..n : k \in 1..(n + 1)
      OBVIOUS
    <3>3. n + 1 \in 1..(n + 1)
      OBVIOUS
    <3> QED
      BY <3>1, <3>2, <3>3
  <2> DEFINE R == Upto(n)
             i == ids[n + 1]
  <2>4. R \in SUBSET S /\ IsStore(F[n]) /\ ShowsOf(st, F[n], R, infos)
    BY <1>6
  <2>5. CASE i \in S
    <3>1. Upto(n + 1) = R \cup {i}
      BY <2>3, <2>5
    <3>2. F[n + 1] = Show(F[n], i, infos[i])
      BY <2>2, <2>5
    <3> DEFINE t == F[n]
    <3>4. R \in SUBSET S /\ IsStore(t) /\ ShowsOf(st, t, R, infos) /\ F[n + 1] = Show(t, i, infos[i])
      BY <2>4, <3>2
    <3> HIDE DEF R, i, t
    <3>5. IsStore(Show(t, i, infos[i])) /\ ShowsOf(st, Show(t, i, infos[i]), R \cup {i}, infos)
      BY <2>5, <3>4, ShowDoes
    <3>3. IsStore(F[n + 1]) /\ ShowsOf(st, F[n + 1], R \cup {i}, infos)
      BY <3>4, <3>5
    <3> QED
      BY <2>1, <3>1, <3>3
  <2>6. CASE i \notin S
    <3>1. Upto(n + 1) = R /\ F[n + 1] = F[n]
      BY <2>2, <2>3, <2>6
    <3> QED
      BY <2>1, <2>4, <3>1
  <2> QED
    BY <2>5, <2>6
<1>7. 0..N \subseteq Done
  <2> HIDE DEF Done
  <2> QED
    BY <1>3, <1>5, <1>6, Counting
<1>8. N \in Done
  <2>1. N \in 0..N
    BY <1>3
  <2> HIDE DEF Done
  <2> QED
    BY <1>7, <2>1
<1>9. Upto(N) = ToSet(ids) \cap S
  BY <1>3 DEF ToSet
<1> QED
  BY <1>2, <1>8, <1>9

-----------------------------------------------------------------------------
(* What is queued *)

\* What is shown and whose it is is not touched, and nothing leaves the queue.
OnlyQueued(s, t) ==
  /\ t.held = s.held /\ t.entry = s.entry
  /\ t.user = s.user /\ t.session = s.session /\ t.gateway = s.gateway /\ t.opened = s.opened
  /\ ToSet(s.pending) \subseteq ToSet(t.pending) /\ s.forced \subseteq t.forced

\* r is what became of s when the ids in S were asked for, up to one that was refused.
AskedOf(s, r, S, force) ==
  /\ r \in [st : {t \in Client : IsStore(t) /\ IsQueue(t)}, threw : BOOLEAN]
  /\ OnlyQueued(s, r.st) /\ r.st.timer = s.timer
  /\ ~r.threw => \A i \in S : Lacks(s, i, force) =>
       i \in ToSet(r.st.pending) /\ (force => i \in r.st.forced)

\* One more id is asked for.
LEMMA AskDoes ==
  ASSUME size \in Sizes, NEW s, IsStore(s), NEW force \in BOOLEAN, NEW S, NEW r,
         AskedOf(s, r, S, force), NEW i \in Ids
  PROVE  AskedOf(s, Ask(r, i, force), S \cup {i}, force)
<1>0. /\ r \in [st : {t \in Client : IsStore(t) /\ IsQueue(t)}, threw : BOOLEAN]
      /\ IsStore(r.st) /\ IsQueue(r.st) /\ r.st \in Client /\ size.queue \in Nat
      /\ r.st.pending \in Seq(Ids) /\ r.st.forced \subseteq Ids /\ Len(r.st.pending) \in Nat
  BY SizesAre DEF AskedOf, Client
<1>1. Lacks(r.st, i, force) <=> Lacks(s, i, force)
  BY DEF AskedOf, OnlyQueued, Lacks, Holds
<1>2. CASE r.threw \/ ~Lacks(r.st, i, force)
  <2>1. Ask(r, i, force) = r
    BY <1>2 DEF Ask
  <2> QED
    BY <1>1, <1>2, <2>1 DEF AskedOf
<1>3. CASE ~(r.threw \/ ~Lacks(r.st, i, force)) /\ Refused(r.st, i)
  <2>1. Ask(r, i, force) = [r EXCEPT !.threw = TRUE]
    BY <1>3 DEF Ask
  <2> QED
    BY <1>0, <2>1 DEF AskedOf
<1>4. CASE ~(r.threw \/ ~Lacks(r.st, i, force)) /\ ~Refused(r.st, i)
  <2> DEFINE t == Enqueue(r.st, i, force)
             pending == IF i \in ToSet(r.st.pending) THEN r.st.pending ELSE Append(r.st.pending, i)
             forced == IF force THEN r.st.forced \cup {i} ELSE r.st.forced
  <2>1. Ask(r, i, force) = [r EXCEPT !.st = t]
    BY <1>4 DEF Ask
  <2>2. t = [r.st EXCEPT !.pending = pending, !.forced = forced]
    BY DEF Enqueue
  <2>3. pending \in Seq(Ids) /\ Len(pending) <= size.queue
        /\ ToSet(pending) = ToSet(r.st.pending) \cup {i}
    <3>1. CASE i \in ToSet(r.st.pending)
      BY <1>0, <3>1 DEF IsQueue
    <3>2. CASE i \notin ToSet(r.st.pending)
      <4>1. Len(r.st.pending) < size.queue
        BY <1>0, <1>4, <3>2 DEF Refused
      <4> QED
        BY <1>0, <3>2, <4>1, ToSetAppend
    <3> QED
      BY <3>1, <3>2
  <2>4. forced \subseteq Ids /\ forced \subseteq ToSet(pending) /\ r.st.forced \subseteq forced
        /\ (force => i \in forced)
    BY <1>0, <2>3 DEF IsQueue
  <2> HIDE DEF pending, forced
  <2>5. /\ t \in Client /\ t.pending = pending /\ t.forced = forced /\ t.held = r.st.held
        /\ t.entry = r.st.entry /\ t.timer = r.st.timer /\ t.user = r.st.user
        /\ t.session = r.st.session /\ t.gateway = r.st.gateway /\ t.opened = r.st.opened
    BY <1>0, <2>2, <2>3, <2>4 DEF Client
  <2> HIDE DEF t
  <2>6. IsStore(t) /\ IsQueue(t)
    BY <1>0, <2>3, <2>4, <2>5 DEF IsStore, IsQueue, Holds
  <2>7. OnlyQueued(s, t) /\ t.timer = s.timer
    BY <2>3, <2>4, <2>5 DEF AskedOf, OnlyQueued
  <2>8. [r EXCEPT !.st = t] \in [st : {u \in Client : IsStore(u) /\ IsQueue(u)}, threw : BOOLEAN]
        /\ [r EXCEPT !.st = t].st = t
    BY <1>0, <2>5, <2>6
  <2>9. \A j \in S \cup {i} : Lacks(s, j, force) =>
          j \in ToSet(t.pending) /\ (force => j \in t.forced)
    BY <1>4, <2>3, <2>4, <2>5 DEF AskedOf
  <2> QED
    BY <2>1, <2>7, <2>8, <2>9 DEF AskedOf
<1> QED
  BY <1>2, <1>3, <1>4

\* F is the run of the loop of Read.
AskRun(s, ids, force, F) ==
  F = [n \in 0..Len(ids) |->
         IF n = 0 THEN [st |-> s, threw |-> FALSE] ELSE Ask(F[n - 1], ids[n], force)]

\* There is one.
LEMMA AskRuns ==
  ASSUME size \in Sizes, NEW s, IsStore(s), IsQueue(s), NEW ids \in Seq(Ids),
         NEW force \in BOOLEAN
  PROVE  \E F : AskRun(s, ids, force, F)
<1> DEFINE N == Len(ids)
           b == [st |-> s, threw |-> FALSE]
           D == [st : {t \in Client : IsStore(t) /\ IsQueue(t)}, threw : BOOLEAN]
           G == [n \in 1..N |-> [r \in D |-> Ask(r, ids[n], force)]]
<1>1. N \in Nat /\ b \in D
  BY DEF IsStore
<1>2. ASSUME NEW n \in 1..N, NEW r \in D
      PROVE  Ask(r, ids[n], force) \in D
  <2>1. IsStore(r.st) /\ OnlyQueued(r.st, r.st)
    BY DEF OnlyQueued
  <2>2. AskedOf(r.st, r, {}, force) /\ ids[n] \in Ids
    BY <2>1 DEF AskedOf
  <2>3. AskedOf(r.st, Ask(r, ids[n], force), {} \cup {ids[n]}, force)
    BY <2>1, <2>2, AskDoes
  <2> QED
    BY <2>3 DEF AskedOf
<1>3. G \in [1..N -> [D -> D]]
  BY <1>2
<1> HIDE DEF N, D, G, b
<1>4. PICK F \in [0..N -> D] : LoopRun(N, b, G, F)
  BY <1>1, <1>3, Looping
<1>5. ASSUME NEW n \in 0..N
      PROVE  F[n] = IF n = 0 THEN b ELSE Ask(F[n - 1], ids[n], force)
  <2>1. CASE n = 0
    BY <1>4, <2>1 DEF LoopRun
  <2>2. CASE n # 0
    <3>1. n \in 1..N /\ n - 1 \in 0..N
      BY <1>1, <2>2
    <3>2. F[n] = G[n][F[n - 1]] /\ F[n - 1] \in D
      BY <1>4, <2>2, <3>1 DEF LoopRun
    <3> QED
      BY <2>2, <3>1, <3>2 DEF G
  <2> QED
    BY <2>1, <2>2
<1>6. AskRun(s, ids, force, F)
  <2>1. F = [n \in 0..N |-> F[n]]
    OBVIOUS
  <2> QED
    BY <1>5, <2>1 DEF AskRun, N, b
<1> QED
  BY <1>6

\* The loop asks for all the ids, or one was refused.
LEMMA AllAsked ==
  ASSUME size \in Sizes, NEW s, IsStore(s), IsQueue(s), NEW ids \in Seq(Ids),
         NEW force \in BOOLEAN, NEW F, AskRun(s, ids, force, F)
  PROVE  AskedOf(s, F[Len(ids)], ToSet(ids), force)
<1> DEFINE N == Len(ids)
           Upto(n) == {ids[k] : k \in 1..n}
           Done == {n \in 0..N : AskedOf(s, F[n], Upto(n), force)}
<1>1. N \in Nat
  OBVIOUS
<1>2. 0 \in Done
  <2>1. F[0] = [st |-> s, threw |-> FALSE] /\ s \in Client
    BY <1>1 DEF AskRun, IsStore
  <2>2. AskedOf(s, F[0], Upto(0), force)
    BY <2>1 DEF AskedOf, OnlyQueued
  <2>3. 0 \in 0..N
    BY <1>1
  <2> QED
    BY <2>2, <2>3
<1>3. ASSUME NEW n \in 0..N, n < N, n \in Done
      PROVE  n + 1 \in Done
  <2>1. n + 1 \in 0..N /\ n + 1 # 0 /\ (n + 1) - 1 = n /\ n + 1 \in 1..N
    BY <1>1, <1>3
  <2>2. F[n + 1] = Ask(F[n], ids[n + 1], force)
    BY <2>1 DEF AskRun
  <2>3. Upto(n + 1) = Upto(n) \cup {ids[n + 1]}
    <3>1. \A k \in 1..(n + 1) : k \in 1..n \/ k = n + 1
      OBVIOUS
    <3>2. \A k \in 1..n : k \in 1..(n + 1)
      OBVIOUS
    <3>3. n + 1 \in 1..(n + 1)
      OBVIOUS
    <3> QED
      BY <3>1, <3>2, <3>3
  <2> DEFINE R == Upto(n)
             r == F[n]
             i == ids[n + 1]
  <2>4. AskedOf(s, r, R, force) /\ i \in Ids
    BY <1>3, <2>1
  <2> HIDE DEF R, r, i
  <2>5. AskedOf(s, Ask(r, i, force), R \cup {i}, force)
    BY <2>4, AskDoes
  <2>6. AskedOf(s, F[n + 1], Upto(n + 1), force)
    BY <2>2, <2>3, <2>5 DEF R, r, i
  <2> QED
    BY <2>1, <2>6
<1>4. N \in Done
  <2>1. N \in 0..N
    BY <1>1
  <2> HIDE DEF Done
  <2> QED
    BY <1>1, <1>2, <1>3, <2>1, Counting
<1>5. Upto(N) = ToSet(ids)
  BY <1>1 DEF ToSet
<1> QED
  BY <1>4, <1>5

\* getUserInfos queues what it lacks and sees to the timer, unless it throws.
LEMMA ReadDoes ==
  ASSUME size \in Sizes, NEW s, IsStore(s), IsQueue(s), NEW ids \in Seq(Ids),
         NEW force \in BOOLEAN
  PROVE  LET r == Read(s, ids, force) IN
         /\ r.threw \in BOOLEAN /\ IsStore(r.st) /\ IsQueue(r.st) /\ OnlyQueued(s, r.st)
         /\ r.threw => r.st.timer = s.timer
         /\ ~r.threw =>
              /\ r.st.timer = (s.timer \/ (r.st.pending # <<>> /\ s.gateway # 0))
              /\ \A i \in ToSet(ids) : Lacks(s, i, force) =>
                   i \in ToSet(r.st.pending) /\ (force => i \in r.st.forced)
<1> DEFINE F == CHOOSE F : AskRun(s, ids, force, F)
           end == F[Len(ids)]
           r == Read(s, ids, force)
<1>1. AskRun(s, ids, force, F)
  BY AskRuns
<1>2. r = [end EXCEPT !.st = IF end.threw THEN @ ELSE Schedule(@)]
  BY DEF Read, AskRun
<1> HIDE DEF F
<1>3. AskedOf(s, end, ToSet(ids), force)
  BY <1>1, AllAsked
<1> HIDE DEF end
<1>4. /\ end \in [st : {t \in Client : IsStore(t) /\ IsQueue(t)}, threw : BOOLEAN]
      /\ IsStore(end.st) /\ IsQueue(end.st) /\ end.st \in Client /\ end.threw \in BOOLEAN
      /\ OnlyQueued(s, end.st) /\ end.st.timer = s.timer
  BY <1>3 DEF AskedOf
<1>5. CASE end.threw
  BY <1>2, <1>4, <1>5
<1>6. CASE ~end.threw
  <2> DEFINE t == Schedule(end.st)
  <2>1. r.threw = FALSE /\ r.st = t
    BY <1>2, <1>4, <1>6
  <2>2. /\ t.timer = (end.st.timer \/ (end.st.pending # <<>> /\ end.st.gateway # 0))
        /\ t.held = end.st.held /\ t.entry = end.st.entry /\ t.pending = end.st.pending
        /\ t.forced = end.st.forced /\ t.user = end.st.user /\ t.session = end.st.session
        /\ t.gateway = end.st.gateway /\ t.opened = end.st.opened /\ t \in Client
    BY <1>4 DEF Schedule, Client
  <2> HIDE DEF t
  <2>3. IsStore(t) /\ IsQueue(t) /\ OnlyQueued(s, t)
    BY <1>4, <2>2 DEF IsStore, IsQueue, OnlyQueued, Holds
  <2>4. \A i \in ToSet(ids) : Lacks(s, i, force) =>
          i \in ToSet(t.pending) /\ (force => i \in t.forced)
    BY <1>3, <1>6, <2>2 DEF AskedOf
  <2>5. t.timer = (s.timer \/ (t.pending # <<>> /\ s.gateway # 0))
    BY <1>4, <2>2 DEF OnlyQueued
  <2> QED
    BY <2>1, <2>3, <2>4, <2>5
<1> QED
  BY <1>4, <1>5, <1>6

-----------------------------------------------------------------------------
(* What is asked for *)

\* A slice has the ids of its places.
LEMMA BatchIs ==
  ASSUME size \in Sizes, NEW ids \in Seq(Ids), NEW n \in Nat \ {0}
  PROVE  /\ Batch(ids, n) \in Seq(Ids) /\ ToSet(Batch(ids, n)) \subseteq ToSet(ids)
         /\ \A k \in 1..Len(ids) : (n - 1) * size.batch < k /\ k <= n * size.batch =>
              ids[k] \in ToSet(Batch(ids, n))
<1> DEFINE a == (n - 1) * size.batch
           b == n * size.batch
<1>1. a \in Nat /\ b \in Nat /\ Len(ids) \in Nat
  BY SizesAre
<1> DEFINE c == IF b < Len(ids) THEN b ELSE Len(ids)
           s == SubSeq(ids, a + 1, c)
<1>2. Batch(ids, n) = s
  BY DEF Batch
<1> HIDE DEF a, b
<1>3. c \in Nat /\ c <= Len(ids) /\ c <= b
  BY <1>1
<1> HIDE DEF c
<1>4. CASE a < c
  <2>1. a + 1 \in 1..Len(ids) /\ c \in 1..Len(ids) /\ a + 1 <= c
    BY <1>1, <1>3, <1>4
  <2>2. /\ s \in Seq(Ids) /\ Len(s) = c - a
        /\ \A j \in 1..(c - a) : s[j] = ids[a + j] /\ a + j \in 1..Len(ids)
    BY <1>1, <1>3, <1>4, <2>1
  <2>3. DOMAIN s = 1..(c - a) /\ DOMAIN ids = 1..Len(ids)
    BY <2>2
  <2>4. \A k \in 1..Len(ids) : a < k /\ k <= b => k - a \in 1..(c - a) /\ a + (k - a) = k
    BY <1>1, <1>3, <1>4 DEF c
  <2> HIDE DEF s
  <2>5. ToSet(s) \subseteq ToSet(ids)
    BY <2>2, <2>3 DEF ToSet
  <2>6. \A k \in 1..Len(ids) : a < k /\ k <= b => ids[k] \in ToSet(s)
    BY <2>2, <2>3, <2>4 DEF ToSet
  <2> QED
    BY <1>2, <2>2, <2>5, <2>6 DEF a, b
<1>5. CASE ~(a < c)
  <2>1. s = <<>>
    BY <1>1, <1>3, <1>5
  <2>2. \A k \in 1..Len(ids) : ~(a < k /\ k <= b)
    BY <1>1, <1>3, <1>5 DEF c
  <2> HIDE DEF s
  <2>3. s \in Seq(Ids) /\ ToSet(s) = {}
    BY <2>1 DEF ToSet
  <2> QED
    BY <1>2, <2>2, <2>3 DEF a, b
<1> QED
  BY <1>4, <1>5

\* Every place is in a slice.
LEMMA InBatch ==
  ASSUME size \in Sizes, NEW k \in Nat \ {0}
  PROVE  \E n \in 1..k : (n - 1) * size.batch < k /\ k <= n * size.batch
<1> DEFINE S == {j \in 0..k : j # 0 => \E n \in 1..j : (n - 1) * size.batch < j /\ j <= n * size.batch}
<1>0. size.batch \in Nat /\ size.batch >= 1
  BY SizesAre
<1>1. 0 \in S
  OBVIOUS
<1>2. ASSUME NEW j \in 0..k, j < k, j \in S
      PROVE  j + 1 \in S
  <2>0. j + 1 \in 0..k /\ j \in Nat
    BY <1>2
  <2>1. CASE j = 0
    <3>1. (1 - 1) * size.batch = 0 /\ 1 * size.batch = size.batch
      BY <1>0
    <3>2. 1 \in 1..(j + 1) /\ (1 - 1) * size.batch < j + 1 /\ j + 1 <= 1 * size.batch
      BY <1>0, <2>1, <3>1
    <3> QED
      BY <2>0, <3>2
  <2>2. CASE j # 0
    <3>1. PICK n \in 1..j : (n - 1) * size.batch < j /\ j <= n * size.batch
      BY <1>2, <2>2
    <3> DEFINE a == (n - 1) * size.batch
               b == n * size.batch
    <3>2. a \in Nat /\ b \in Nat /\ (n + 1) * size.batch = b + size.batch /\ (n + 1) - 1 = n
      BY <1>0
    <3>3. CASE j < b
      <4>1. n \in 1..(j + 1) /\ a < j + 1 /\ j + 1 <= b
        BY <2>0, <3>1, <3>2, <3>3
      <4> QED
        BY <2>0, <4>1
    <3>4. CASE j = b
      <4>1. n + 1 \in 1..(j + 1) /\ ((n + 1) - 1) * size.batch < j + 1
        BY <2>0, <3>2, <3>4
      <4>2. j + 1 <= (n + 1) * size.batch
        BY <1>0, <2>0, <3>2, <3>4
      <4> QED
        BY <2>0, <4>1, <4>2
    <3> QED
      BY <2>0, <3>1, <3>2, <3>3, <3>4
  <2> QED
    BY <2>1, <2>2
<1>3. k \in S
  <2>1. k \in 0..k
    OBVIOUS
  <2> HIDE DEF S
  <2> QED
    BY <1>1, <1>2, <2>1, Counting
<1> QED
  BY <1>3

\* F is the run of the loop of LoadRemote.
LoadRun(gateway, ids, need, F) ==
  F = [n \in 0..Len(ids) |->
         IF n = 0 THEN <<>>
         ELSE IF ToSet(Batch(ids, n)) \cap need = {} THEN F[n - 1]
         ELSE Append(F[n - 1], Fetch(gateway, Batch(ids, n), ToSet(Batch(ids, n)) \cap need))]

\* A load of some of the ids in need by the gateway: its first request.
IsLoad(q, gateway, need) ==
  /\ q \in FetchRequest /\ q.op = "fetch" /\ ~q.served
  /\ q.gateway = gateway /\ q.need \subseteq need /\ DOMAIN q.names = {}

\* A request asks for nothing but what is left.
LEMMA SliceIs ==
  ASSUME NEW ids \in Seq(Ids), NEW left
  PROVE  Slice(ids, left) \subseteq left
BY DEF Slice

\* A slice's load is one.
LEMMA FetchIs ==
  ASSUME size \in Sizes, NEW gateway \in Nat \ {0}, NEW ids \in Seq(Ids),
         NEW need \in SUBSET Ids, NEW n \in Nat \ {0}
  PROVE  IsLoad(Fetch(gateway, Batch(ids, n), ToSet(Batch(ids, n)) \cap need), gateway, need)
<1> DEFINE slice == Batch(ids, n)
           part == ToSet(slice) \cap need
           asked == Slice(slice, part)
           none == [i \in {} |-> 0]
           q == Fetch(gateway, slice, part)
<1>1. slice \in Seq(Ids)
  BY BatchIs
<1>2. none \in [{} -> Nat] /\ {} \in SUBSET Ids /\ DOMAIN none = {}
  OBVIOUS
<1>3. none \in UNION {[S -> Nat] : S \in SUBSET Ids}
  BY <1>2
<1>4. q = [op |-> "fetch", served |-> FALSE, gateway |-> gateway, ids |-> slice,
           need |-> part, asked |-> asked, names |-> none]
  BY DEF Fetch
<1>5. asked \subseteq part /\ part \subseteq need /\ part \subseteq Ids /\ part \subseteq ToSet(slice)
  <2>1. asked \subseteq part
    BY <1>1, SliceIs
  <2> QED
    BY <2>1
<1> HIDE DEF slice, part, asked, none, q
<1>6. /\ q.served = FALSE /\ q.op = "fetch" /\ q.gateway = gateway /\ q.ids = slice
      /\ q.need = part /\ q.asked = asked /\ q.names = none
  BY <1>4
<1>7. q \in [op : {"fetch"}, served : BOOLEAN, gateway : Nat \ {0}, ids : Seq(Ids),
             need : SUBSET Ids, asked : SUBSET Ids, names : UNION {[S -> Nat] : S \in SUBSET Ids}]
  BY <1>1, <1>3, <1>4, <1>5
<1>8. q \in FetchRequest
  BY <1>2, <1>5, <1>6, <1>7 DEF FetchRequest
<1> QED
  BY <1>2, <1>5, <1>6, <1>8 DEF IsLoad, q, part, slice

\* There is one.
LEMMA LoadRuns ==
  ASSUME size \in Sizes, NEW gateway \in Nat \ {0}, NEW ids \in Seq(Ids),
         NEW need \in SUBSET Ids
  PROVE  \E F : LoadRun(gateway, ids, need, F)
<1> DEFINE N == Len(ids)
           D == Seq(FetchRequest)
           part(n) == ToSet(Batch(ids, n)) \cap need
           q(n) == Fetch(gateway, Batch(ids, n), part(n))
           G == [n \in 1..N |-> [s \in D |-> IF part(n) = {} THEN s ELSE Append(s, q(n))]]
<1>1. N \in Nat /\ <<>> \in D
  OBVIOUS
<1>2. ASSUME NEW n \in 1..N
      PROVE  q(n) \in FetchRequest
  <2>1. IsLoad(q(n), gateway, need)
    <3>1. n \in Nat \ {0}
      BY <1>1
    <3> QED
      BY <3>1, FetchIs
  <2> QED
    BY <2>1 DEF IsLoad
<1> HIDE DEF q, part
<1>3. G \in [1..N -> [D -> D]]
  BY <1>2
<1> HIDE DEF N, D, G
<1>4. PICK F \in [0..N -> D] : LoopRun(N, <<>>, G, F)
  BY <1>1, <1>3, Looping
<1>5. ASSUME NEW n \in 0..N
      PROVE  F[n] = IF n = 0 THEN <<>>
                    ELSE IF part(n) = {} THEN F[n - 1] ELSE Append(F[n - 1], q(n))
  <2>1. CASE n = 0
    BY <1>4, <2>1 DEF LoopRun
  <2>2. CASE n # 0
    <3>1. n \in 1..N /\ n - 1 \in 0..N
      BY <1>1, <2>2
    <3>2. F[n] = G[n][F[n - 1]] /\ F[n - 1] \in D
      BY <1>4, <2>2, <3>1 DEF LoopRun
    <3> QED
      BY <2>2, <3>1, <3>2 DEF G
  <2> QED
    BY <2>1, <2>2
<1>6. LoadRun(gateway, ids, need, F)
  <2>1. F = [n \in 0..N |-> F[n]]
    OBVIOUS
  <2> QED
    BY <1>5, <2>1 DEF LoadRun, N, part, q
<1> QED
  BY <1>6

\* What a request is appended to keeps its items.
LEMMA AppendIs ==
  ASSUME NEW T, NEW s \in Seq(T), NEW x \in T
  PROVE  /\ Append(s, x) \in Seq(T) /\ DOMAIN s = 1..Len(s) /\ Len(s) \in Nat
         /\ DOMAIN Append(s, x) = 1..(Len(s) + 1)
         /\ \A k \in DOMAIN Append(s, x) :
              IF k = Len(s) + 1 THEN Append(s, x)[k] = x
              ELSE k \in DOMAIN s /\ Append(s, x)[k] = s[k]
         /\ \A k \in DOMAIN s : k \in DOMAIN Append(s, x) /\ Append(s, x)[k] = s[k]
<1>1. /\ Append(s, x) \in Seq(T) /\ Len(Append(s, x)) = Len(s) + 1
      /\ \A k \in 1..Len(s) : Append(s, x)[k] = s[k]
      /\ Append(s, x)[Len(s) + 1] = x
  OBVIOUS
<1>2. DOMAIN Append(s, x) = 1..(Len(s) + 1) /\ DOMAIN s = 1..Len(s) /\ Len(s) \in Nat
  BY <1>1
<1> QED
  BY <1>1, <1>2

\* All that is needed is asked for, and nothing else.
LEMMA LoadRemoteDoes ==
  ASSUME size \in Sizes, NEW gateway \in Nat \ {0}, NEW ids \in Seq(Ids),
         NEW need \in SUBSET Ids
  PROVE  LET s == LoadRemote(gateway, ids, need) IN
         /\ s \in Seq(FetchRequest)
         /\ \A k \in DOMAIN s : IsLoad(s[k], gateway, need)
         /\ \A i \in need \cap ToSet(ids) : \E k \in DOMAIN s : i \in s[k].need
<1> DEFINE N == Len(ids)
           F == CHOOSE F : LoadRun(gateway, ids, need, F)
           part(n) == ToSet(Batch(ids, n)) \cap need
           q(n) == Fetch(gateway, Batch(ids, n), part(n))
           Loads(s) == s \in Seq(FetchRequest) /\ \A k \in DOMAIN s : IsLoad(s[k], gateway, need)
           Has(s, S) == \A i \in S : \E k \in DOMAIN s : i \in s[k].need
           Upto(n) == UNION {part(m) : m \in 1..n}
           Done == {n \in 0..N : Loads(F[n]) /\ Has(F[n], Upto(n))}
<1>1. LoadRun(gateway, ids, need, F)
  BY LoadRuns
<1>2. LoadRemote(gateway, ids, need) = F[N]
  BY DEF LoadRemote, LoadRun
<1>3. N \in Nat
  OBVIOUS
<1>4. ASSUME NEW n \in 1..N
      PROVE  IsLoad(q(n), gateway, need) /\ q(n).need = part(n)
  <2>1. n \in Nat \ {0}
    BY <1>3
  <2>2. IsLoad(q(n), gateway, need)
    BY <2>1, FetchIs
  <2>3. q(n).need = part(n)
    BY DEF Fetch
  <2> QED
    BY <2>2, <2>3
<1>5. ASSUME NEW n \in 0..N
      PROVE  F[n] = IF n = 0 THEN <<>>
                    ELSE IF part(n) = {} THEN F[n - 1] ELSE Append(F[n - 1], q(n))
  BY <1>1 DEF LoadRun
<1> HIDE DEF F, q
<1>6. 0 \in Done
  <2>1. F[0] = <<>> /\ 0 \in 0..N
    BY <1>3, <1>5
  <2>2. Loads(F[0])
    BY <2>1
  <2>3. Upto(0) = {}
    OBVIOUS
  <2>4. Has(F[0], Upto(0))
    BY <2>3
  <2> QED
    BY <2>1, <2>2, <2>4
<1> HIDE DEF part
<1>7. ASSUME NEW n \in 0..N, n < N, n \in Done
      PROVE  n + 1 \in Done
  <2>1. n + 1 \in 0..N /\ n + 1 # 0 /\ (n + 1) - 1 = n /\ n + 1 \in 1..N
    BY <1>3, <1>7
  <2> DEFINE s == F[n]
             x == q(n + 1)
             S == part(n + 1)
  <2>2. F[n + 1] = IF S = {} THEN s ELSE Append(s, x)
    BY <1>5, <2>1
  <2>3. Upto(n + 1) = Upto(n) \cup S
    <3>1. \A k \in 1..(n + 1) : k \in 1..n \/ k = n + 1
      OBVIOUS
    <3>2. \A k \in 1..n : k \in 1..(n + 1)
      OBVIOUS
    <3>3. n + 1 \in 1..(n + 1)
      OBVIOUS
    <3> QED
      BY <3>1, <3>2, <3>3
  <2>4. Loads(s) /\ Has(s, Upto(n)) /\ IsLoad(x, gateway, need) /\ x.need = S
    BY <1>4, <1>7, <2>1
  <2> DEFINE R == Upto(n)
  <2> HIDE DEF s, x, S, R
  <2>5. CASE S = {}
    <3>1. Loads(F[n + 1]) /\ Has(F[n + 1], R \cup S)
      BY <2>2, <2>4, <2>5 DEF R
    <3> QED
      BY <2>1, <2>3, <3>1 DEF R
  <2>6. CASE S # {}
    <3> DEFINE t == Append(s, x)
    <3>1. s \in Seq(FetchRequest) /\ x \in FetchRequest
      BY <2>4 DEF IsLoad
    <3>2. /\ t \in Seq(FetchRequest) /\ Len(s) + 1 \in DOMAIN t /\ t[Len(s) + 1] = x
          /\ \A k \in DOMAIN t : t[k] = x \/ (k \in DOMAIN s /\ t[k] = s[k])
          /\ \A k \in DOMAIN s : k \in DOMAIN t /\ t[k] = s[k]
      <4>1. /\ t \in Seq(FetchRequest) /\ DOMAIN t = 1..(Len(s) + 1) /\ Len(s) \in Nat
            /\ \A k \in DOMAIN t :
                 IF k = Len(s) + 1 THEN t[k] = x ELSE k \in DOMAIN s /\ t[k] = s[k]
            /\ \A k \in DOMAIN s : k \in DOMAIN t /\ t[k] = s[k]
        BY <3>1, AppendIs
      <4> HIDE DEF t
      <4>2. Len(s) + 1 \in DOMAIN t
        BY <4>1
      <4> QED
        BY <4>1, <4>2
    <3>3. F[n + 1] = t
      BY <2>2, <2>6
    <3> HIDE DEF t
    <3>4. Loads(t)
      BY <2>4, <3>2
    <3>5. Has(t, R \cup S)
      <4>1. Has(s, R)
        BY <2>4 DEF R
      <4> HIDE DEF R
      <4> QED
        BY <2>4, <3>2, <4>1
    <3>6. Loads(F[n + 1]) /\ Has(F[n + 1], R \cup S)
      BY <3>3, <3>4, <3>5
    <3> QED
      BY <2>1, <2>3, <3>6 DEF R
  <2> QED
    BY <2>5, <2>6
<1>8. N \in Done
  <2>1. N \in 0..N
    BY <1>3
  <2> HIDE DEF Done
  <2> QED
    BY <1>3, <1>6, <1>7, <2>1, Counting
<1>9. need \cap ToSet(ids) \subseteq Upto(N)
  <2> SUFFICES ASSUME NEW i \in need \cap ToSet(ids) PROVE \E m \in 1..N : i \in part(m)
    OBVIOUS
  <2>1. PICK k \in 1..N : i = ids[k]
    BY DEF ToSet
  <2>2. PICK m \in 1..k : (m - 1) * size.batch < k /\ k <= m * size.batch
    <3>1. k \in Nat \ {0}
      BY <1>3
    <3> QED
      BY <3>1, InBatch
  <2>3. m \in 1..N /\ m \in Nat \ {0} /\ k \in 1..Len(ids)
    BY <1>3
  <2>4. ids[k] \in ToSet(Batch(ids, m))
    BY <2>2, <2>3, BatchIs
  <2> QED
    BY <2>1, <2>3, <2>4 DEF part
<1> QED
  BY <1>2, <1>8, <1>9

-----------------------------------------------------------------------------
(* Requests that come and go *)

\* The kinds of requests.
LEMMA RequestIs ==
  ASSUME NEW q \in Request
  PROVE  /\ q.op \in {"fetch", "change", "login"} /\ q.served \in BOOLEAN
         /\ q.op = "fetch" =>
              /\ q \in FetchRequest /\ q.gateway \in Nat \ {0} /\ q.ids \in Seq(Ids)
              /\ q.need \subseteq Ids /\ q.need \subseteq ToSet(q.ids)
              /\ q.asked \subseteq q.need /\ DOMAIN q.names \subseteq q.need
              /\ q.names \in [DOMAIN q.names -> Nat]
              /\ IF q.served THEN q.asked \subseteq DOMAIN q.names
                 ELSE q.asked \cap DOMAIN q.names = {}
         /\ q.op = "change" =>
              q \in ChangeRequest /\ q.id \in Ids /\ q.field \in Fields /\ q.value \in Nat
         /\ q.op = "login" => q \in LoginRequest /\ q.user \in Users /\ q.session \in Nat \ {0}
<1>1. CASE q \in FetchRequest
  <2>1. /\ q.op = "fetch" /\ q.served \in BOOLEAN /\ q.gateway \in Nat \ {0}
        /\ q.ids \in Seq(Ids) /\ q.need \in SUBSET Ids /\ q.asked \in SUBSET Ids
        /\ q.names \in UNION {[S -> Nat] : S \in SUBSET Ids}
        /\ q.need \subseteq ToSet(q.ids) /\ q.asked \subseteq q.need
        /\ DOMAIN q.names \subseteq q.need
        /\ IF q.served THEN q.asked \subseteq DOMAIN q.names
           ELSE q.asked \cap DOMAIN q.names = {}
    BY <1>1 DEF FetchRequest
  <2>2. PICK S \in SUBSET Ids : q.names \in [S -> Nat]
    BY <2>1
  <2>3. DOMAIN q.names = S
    BY <2>2
  <2>4. q.names \in [DOMAIN q.names -> Nat]
    BY <2>2, <2>3
  <2> QED
    BY <1>1, <2>1, <2>4
<1>2. CASE q \in ChangeRequest
  BY <1>2 DEF ChangeRequest
<1>3. CASE q \in LoginRequest
  BY <1>3 DEF LoginRequest
<1> QED
  BY <1>1, <1>2, <1>3 DEF Request

\* The same of what is on the wire.
LEMMA WireIs ==
  ASSUME wire \in Seq(Request)
  PROVE  /\ DOMAIN wire = 1..Len(wire) /\ Len(wire) \in Nat
         /\ \A n \in DOMAIN wire : wire[n] \in Request
OBVIOUS

\* Where an item was that is at j when the one at p is gone.
Back(j, p) == IF j < p THEN j ELSE j + 1

\* The wire without the request at p.
Thinned(p) ==
  /\ wire' \in Seq(Request) /\ Len(wire') = Len(wire) - 1
  /\ \A j \in DOMAIN wire' : wire'[j] = wire[Back(j, p)]

\* Where the items are, and that the others are still there.
LEMMA ThinnedIs ==
  ASSUME wire \in Seq(Request), NEW p \in DOMAIN wire, Thinned(p)
  PROVE  /\ DOMAIN wire' = 1..(Len(wire) - 1)
         /\ \A j \in DOMAIN wire' : Back(j, p) \in DOMAIN wire \ {p} /\ wire'[j] = wire[Back(j, p)]
         /\ \A j, k \in DOMAIN wire' : j < k => Back(j, p) < Back(k, p)
         /\ \A n \in DOMAIN wire \ {p} : \E j \in DOMAIN wire' : Back(j, p) = n
<1>1. DOMAIN wire = 1..Len(wire) /\ Len(wire) \in Nat /\ p \in Nat /\ DOMAIN wire' = 1..Len(wire')
  BY DEF Thinned
<1>2. DOMAIN wire' = 1..(Len(wire) - 1)
  BY <1>1 DEF Thinned
<1>3. \A j \in DOMAIN wire' : Back(j, p) \in DOMAIN wire \ {p}
  BY <1>1, <1>2 DEF Back
<1>4. ASSUME NEW n \in DOMAIN wire \ {p}
      PROVE  \E j \in DOMAIN wire' : Back(j, p) = n
  <2>1. CASE n < p
    <3>1. n \in DOMAIN wire' /\ Back(n, p) = n
      BY <1>1, <1>2, <2>1 DEF Back
    <3> QED
      BY <3>1
  <2>2. CASE n > p
    <3>1. n - 1 \in DOMAIN wire' /\ Back(n - 1, p) = n
      BY <1>1, <1>2, <2>2 DEF Back
    <3> QED
      BY <3>1
  <2> QED
    BY <1>1, <1>4, <2>1, <2>2
<1>5. \A j, k \in DOMAIN wire' : j < k => Back(j, p) < Back(k, p)
  BY <1>1, <1>2 DEF Back
<1> QED
  BY <1>2, <1>3, <1>4, <1>5 DEF Thinned

\* An answer is taken off.
LEMMA TailThins ==
  ASSUME wire \in Seq(Request), wire # <<>>, wire' = Tail(wire)
  PROVE  1 \in DOMAIN wire /\ Head(wire) = wire[1] /\ Thinned(1)
<1>1. /\ Len(wire) \in Nat \ {0} /\ DOMAIN wire = 1..Len(wire) /\ Head(wire) = wire[1]
      /\ Tail(wire) \in Seq(Request) /\ Len(Tail(wire)) = Len(wire) - 1
      /\ \A j \in 1..Len(Tail(wire)) : Tail(wire)[j] = wire[j + 1]
  OBVIOUS
<1>2. \A j \in 1..Len(wire') : Back(j, 1) = j + 1
  BY <1>1 DEF Back
<1>3. DOMAIN wire' = 1..Len(wire')
  BY <1>1
<1> QED
  BY <1>1, <1>2, <1>3 DEF Thinned

\* A request fails.
LEMMA RemoveThins ==
  ASSUME wire \in Seq(Request), NEW p \in DOMAIN wire, wire' = RemoveAt(wire, p)
  PROVE  Thinned(p)
<1> DEFINE a == SubSeq(wire, 1, p - 1)
           b == SubSeq(wire, p + 1, Len(wire))
<1>1. DOMAIN wire = 1..Len(wire) /\ Len(wire) \in Nat /\ p \in 1..Len(wire)
  OBVIOUS
<1>2. a \in Seq(Request) /\ Len(a) = p - 1 /\ \A j \in 1..(p - 1) : a[j] = wire[j]
  BY <1>1
<1>3. /\ b \in Seq(Request) /\ Len(b) = Len(wire) - p
      /\ \A j \in 1..(Len(wire) - p) : b[j] = wire[p + j]
  BY <1>1
<1>4. wire' = a \o b
  BY DEF RemoveAt
<1> HIDE DEF a, b
<1>5. /\ wire' \in Seq(Request) /\ Len(wire') = Len(wire) - 1
      /\ \A j \in 1..(Len(wire) - 1) :
           wire'[j] = IF j <= p - 1 THEN a[j] ELSE b[j - (p - 1)]
  <2>1. /\ a \o b \in Seq(Request) /\ Len(a \o b) = Len(a) + Len(b)
        /\ \A j \in 1..(Len(a) + Len(b)) :
             (a \o b)[j] = IF j <= Len(a) THEN a[j] ELSE b[j - Len(a)]
    BY <1>2, <1>3, ConcatProperties
  <2>2. Len(a) + Len(b) = Len(wire) - 1
    BY <1>1, <1>2, <1>3
  <2> QED
    BY <1>2, <1>4, <2>1, <2>2
<1>6. ASSUME NEW j \in 1..(Len(wire) - 1)
      PROVE  wire'[j] = wire[Back(j, p)]
  <2>1. CASE j < p
    <3>1. j <= p - 1 /\ j \in 1..(p - 1)
      BY <1>1, <2>1
    <3> QED
      BY <1>2, <1>5, <2>1, <3>1 DEF Back
  <2>2. CASE ~(j < p)
    <3>1. ~(j <= p - 1) /\ j - (p - 1) \in 1..(Len(wire) - p) /\ p + (j - (p - 1)) = j + 1
      BY <1>1, <2>2
    <3> QED
      BY <1>3, <1>5, <2>2, <3>1 DEF Back
  <2> QED
    BY <2>1, <2>2
<1>7. DOMAIN wire' = 1..(Len(wire) - 1)
  BY <1>1, <1>5
<1> QED
  BY <1>5, <1>6, <1>7 DEF Thinned

\* A request that nobody has served, nor an earlier one of its load.
Fresh(q) == ~q.served /\ \A i \in Ids : ~Knows(q, i)

\* Such requests are sent.
Extended ==
  /\ wire' \in Seq(Request) /\ Len(wire) <= Len(wire')
  /\ \A n \in DOMAIN wire : wire'[n] = wire[n]
  /\ \A n \in DOMAIN wire' : n \in DOMAIN wire \/ Fresh(wire'[n])

\* Where they are.
LEMMA ExtendedIs ==
  ASSUME wire \in Seq(Request), Extended
  PROVE  /\ DOMAIN wire \subseteq DOMAIN wire'
         /\ \A n \in DOMAIN wire', m \in DOMAIN wire : n < m => n \in DOMAIN wire
<1>1. DOMAIN wire = 1..Len(wire) /\ Len(wire) \in Nat
  OBVIOUS
<1>2. DOMAIN wire' = 1..Len(wire') /\ Len(wire') \in Nat
  BY DEF Extended
<1> QED
  BY <1>1, <1>2 DEF Extended

\* One more request.
LEMMA AppendExtends ==
  ASSUME wire \in Seq(Request), NEW q \in Request, Fresh(q), wire' = Append(wire, q)
  PROVE  /\ Extended
         /\ \A n \in DOMAIN wire' : n \in DOMAIN wire \/ (n = Len(wire) + 1 /\ wire'[n] = q)
<1>1. /\ Append(wire, q) \in Seq(Request) /\ DOMAIN wire = 1..Len(wire) /\ Len(wire) \in Nat
      /\ DOMAIN Append(wire, q) = 1..(Len(wire) + 1)
      /\ \A k \in DOMAIN Append(wire, q) :
           IF k = Len(wire) + 1 THEN Append(wire, q)[k] = q
           ELSE k \in DOMAIN wire /\ Append(wire, q)[k] = wire[k]
      /\ \A k \in DOMAIN wire : k \in DOMAIN Append(wire, q) /\ Append(wire, q)[k] = wire[k]
  BY AppendIs
<1>2. Len(wire) <= Len(wire')
  <2>1. Len(wire') = Len(wire) + 1
    OBVIOUS
  <2> QED
    BY <1>1, <2>1
<1> QED
  BY <1>1, <1>2 DEF Extended

\* Answers stay in order.
LEMMA OrderedThins ==
  ASSUME wire \in Seq(Request), Ordered, NEW p \in DOMAIN wire, Thinned(p), source' = source
  PROVE  Ordered'
<1>1. ASSUME NEW m \in DOMAIN wire', NEW n \in DOMAIN wire', m < n, wire'[n].served
      PROVE  wire'[m].served
  BY <1>1, ThinnedIs DEF Ordered
<1>2. ASSUME NEW n \in DOMAIN wire', NEW i \in Ids, Tells(wire'[n], i)
      PROVE  /\ NameIn(wire'[n], i) # 0 /\ NameIn(wire'[n], i) <= source[i]
             /\ \A m \in 1..n : Tells(wire'[m], i) => NameIn(wire'[m], i) <= NameIn(wire'[n], i)
  <2>1. Back(n, p) \in DOMAIN wire /\ wire'[n] = wire[Back(n, p)]
    BY ThinnedIs
  <2>2. ASSUME NEW m \in 1..n, Tells(wire'[m], i)
        PROVE  NameIn(wire'[m], i) <= NameIn(wire'[n], i)
    <3>1. DOMAIN wire = 1..Len(wire) /\ Len(wire) \in Nat /\ p \in Nat
      OBVIOUS
    <3>2. m \in DOMAIN wire' /\ n \in Nat
      BY <3>1, ThinnedIs
    <3>3. Back(m, p) \in 1..Back(n, p) /\ wire'[m] = wire[Back(m, p)]
      BY <2>1, <3>1, <3>2, ThinnedIs DEF Back
    <3> QED
      BY <1>2, <2>1, <2>2, <3>3 DEF Ordered
  <2> QED
    BY <1>2, <2>1, <2>2 DEF Ordered
<1>3. ASSUME NEW m \in DOMAIN wire', NEW i \in Ids, Knows(wire'[m], i)
      PROVE  /\ wire'[m].names[i] # 0 /\ wire'[m].names[i] <= source[i]
             /\ \A n \in DOMAIN wire' :
                  Tells(wire'[n], i) => wire'[m].names[i] <= NameIn(wire'[n], i)
  BY <1>3, ThinnedIs DEF Ordered
<1> QED
  BY <1>1, <1>2, <1>3 DEF Ordered

\* The same when requests are sent.
LEMMA OrderedExtends ==
  ASSUME wire \in Seq(Request), Ordered, Extended, source' = source
  PROVE  Ordered'
<1>0. /\ DOMAIN wire = 1..Len(wire) /\ Len(wire) \in Nat
      /\ DOMAIN wire' = 1..Len(wire') /\ Len(wire') \in Nat
  BY DEF Extended
<1>1. ASSUME NEW m \in DOMAIN wire', NEW n \in DOMAIN wire', m < n, wire'[n].served
      PROVE  wire'[m].served
  <2>1. n \in DOMAIN wire /\ m \in DOMAIN wire
    BY <1>0, <1>1 DEF Extended, Fresh
  <2> QED
    BY <1>1, <2>1 DEF Extended, Ordered
<1>2. ASSUME NEW n \in DOMAIN wire', NEW i \in Ids, Tells(wire'[n], i)
      PROVE  /\ NameIn(wire'[n], i) # 0 /\ NameIn(wire'[n], i) <= source[i]
             /\ \A m \in 1..n : Tells(wire'[m], i) => NameIn(wire'[m], i) <= NameIn(wire'[n], i)
  <2>1. n \in DOMAIN wire /\ wire'[n] = wire[n] /\ \A m \in 1..n : wire'[m] = wire[m]
    BY <1>0, <1>2 DEF Extended, Tells, Fresh
  <2> QED
    BY <1>2, <2>1 DEF Ordered
<1>3. ASSUME NEW m \in DOMAIN wire', NEW i \in Ids, Knows(wire'[m], i)
      PROVE  /\ wire'[m].names[i] # 0 /\ wire'[m].names[i] <= source[i]
             /\ \A n \in DOMAIN wire' :
                  Tells(wire'[n], i) => wire'[m].names[i] <= NameIn(wire'[n], i)
  <2>1. m \in DOMAIN wire /\ wire'[m] = wire[m]
    BY <1>3 DEF Extended, Fresh
  <2>2. \A n \in DOMAIN wire' : Tells(wire'[n], i) => n \in DOMAIN wire /\ wire'[n] = wire[n]
    BY DEF Extended, Fresh, Tells
  <2> QED
    BY <1>3, <2>1, <2>2 DEF Ordered
<1> QED
  BY <1>1, <1>2, <1>3 DEF Ordered

-----------------------------------------------------------------------------
(* How a step keeps the parts of the invariant *)

\* The storage and the capacities stay what they are.
LEMMA TypedAfter ==
  ASSUME Typed, UNCHANGED <<storage, size>>,
         IsStore(store'), IsQueue(store'), Timed(store'),
         rows' \in [Users -> [Ids -> Row]], wire' \in Seq(Request),
         source' \in [Ids -> Nat \ {0}], history' \in History, used' \in Nat
  PROVE  Typed'
BY DEF Typed, IsStore, IsQueue, Timed, Holds

\* What a store is.
LEMMA StoreIs ==
  ASSUME Typed
  PROVE  /\ store \in Client /\ store.entry \in [Ids -> Entry] /\ store.user \in Users \cup {0}
         /\ store.session \in Nat /\ store.gateway \in Nat /\ store.pending \in Seq(Ids) /\ store.held \in Seq(Ids)
         /\ store.forced \subseteq ToSet(store.pending) /\ store.forced \subseteq Ids
         /\ \A i \in Ids : store.entry[i].name \in Nat /\ source[i] \in Nat \ {0}
         /\ \A i \in Ids : ~Holds(store, i) => store.entry[i] = Absent
         /\ history.owed \subseteq Ids /\ history.lost \subseteq Ids /\ history.ahead \subseteq Ids
         /\ \A u \in Users : \A i \in Ids : rows[u][i] \in Row /\ rows[u][i].name \in Nat
         /\ 0 \notin Users
BY DisplayCacheAssumption DEF Typed, IsStore, IsQueue, Client, Entry, Row, History

\* An answer's name is a number.
LEMMA ToldIs ==
  ASSUME NEW q \in Request, NEW i \in Ids
  PROVE  /\ Tells(q, i) => NameIn(q, i) \in Nat
         /\ Knows(q, i) => q.names[i] \in Nat
<1>1. Tells(q, i) => NameIn(q, i) \in Nat
  BY RequestIs DEF Tells, NameIn
<1>2. Knows(q, i) => q.names[i] \in Nat
  BY RequestIs DEF Knows, Waited
<1> QED
  BY <1>1, <1>2

\* Requests are sent, or none.
LEMMA SentNone ==
  ASSUME Typed, wire' = wire
  PROVE  Extended
BY DEF Extended, Typed

\* An answer that is on the wire was there before.
LEMMA ToldBefore ==
  ASSUME Typed, Extended, NEW n \in DOMAIN wire', NEW i, Tells(wire'[n], i)
  PROVE  n \in DOMAIN wire /\ wire'[n] = wire[n]
BY DEF Extended, Tells, Fresh

\* Forward, when requests are sent.
LEMMA ForwardExtends ==
  ASSUME Typed, Forward, Extended, UNCHANGED <<source, rows, storage>>,
         store'.user = store.user,
         \A i \in Ids : store'.entry[i].name = store.entry[i].name,
         \/ store'.gateway = 0
         \/ store'.gateway = store.gateway /\ history'.ahead = history.ahead
         \/ store.user \in Users /\ \A i \in Ids : store.entry[i].name = 0
  PROVE  Forward'
<1>1. \A n \in DOMAIN wire' : \A i : Tells(wire'[n], i) => n \in DOMAIN wire /\ wire'[n] = wire[n]
  BY ToldBefore
<1>2. (\A i \in Ids : store.entry[i].name <= source[i])'
  BY DEF Forward
<1>3. (\A n \in DOMAIN wire : \A i \in Ids : Tells(wire[n], i) =>
         /\ store.entry[i].name <= NameIn(wire[n], i)
         /\ \A u \in Users : rows[u][i].name <= NameIn(wire[n], i))'
  BY <1>1 DEF Forward
<1>4. (\A u \in Users : \A i \in Ids : rows[u][i].name <= source[i])'
  BY DEF Forward
<1>5. (storage = "persistent" /\ store.gateway # 0 =>
         \A i \in Ids :
           store.entry[i].name <= rows[store.user][i].name \/ i \in history.ahead)'
  <2>1. CASE store'.gateway = 0
    BY <2>1
  <2>2. CASE store'.gateway = store.gateway /\ history'.ahead = history.ahead
    BY <2>2 DEF Forward
  <2>3. CASE store.user \in Users /\ \A i \in Ids : store.entry[i].name = 0
    <3>1. \A i \in Ids : 0 <= rows[store.user][i].name
      BY <2>3, StoreIs
    <3> QED
      BY <2>3, <3>1
  <2> QED
    BY <2>1, <2>2, <2>3
<1> QED
  BY <1>2, <1>3, <1>4, <1>5 DEF Forward

\* Apart, when requests are sent that are no logins.
LEMMA ApartExtends ==
  ASSUME Typed, Apart, Extended, storage' = storage, SessionsApart',
         store'.user = store.user, store'.session = store.session,
         store'.gateway = store.gateway,
         store.gateway = 0 => store'.held = store.held /\ history'.owed \subseteq history.owed,
         \A n \in DOMAIN wire' : n \in DOMAIN wire \/
           /\ store.gateway # 0 /\ wire'[n].op # "login"
           /\ wire'[n].op = "change" => Logins = {} /\ wire'[n].value \in {0, store.user}
  PROVE  Apart'
<1>0. /\ \A n \in DOMAIN wire : n \in DOMAIN wire' /\ wire'[n] = wire[n]
      /\ \A n \in DOMAIN wire' : n \in Nat
      /\ \A n \in DOMAIN wire', m \in DOMAIN wire : n < m => n \in DOMAIN wire
  BY ExtendedIs DEF Typed, Extended
<1>1. Logins' = Logins
  BY <1>0 DEF Logins
<1>2. ASSUME NEW n \in DOMAIN wire', wire'[n].op = "change"
      PROVE  OwnChange(n)'
  <2>0. \A m \in 1..(n - 1) : m \in DOMAIN wire' /\ m < n
    BY <1>0 DEF Extended
  <2>1. CASE n \in DOMAIN wire
    <3>1. \A m \in 1..(n - 1) : m \in DOMAIN wire
      BY <1>0, <2>0, <2>1
    <3>2. OwnChange(n)
      BY <1>0, <1>2, <2>1 DEF Apart
    <3> QED
      BY <1>0, <2>1, <3>1, <3>2 DEF OwnChange
  <2>2. CASE n \notin DOMAIN wire
    BY <1>0, <1>2, <2>0, <2>2 DEF Logins, OwnChange
  <2> QED
    BY <2>1, <2>2
<1>3. (/\ store.user = 0 =>
            store.session = 0 /\ store.held = <<>> /\ \A n \in DOMAIN wire : wire[n].op = "login"
       /\ store.gateway = 0 => history.owed = {}
       /\ store.session # 0 /\ store.gateway = 0 =>
            store.held = <<>> /\ \A n \in DOMAIN wire : wire[n].op # "change")'
  BY <1>0 DEF Apart
<1>4. (/\ store.session = 0 => store.gateway = 0
       /\ storage = "instant" =>
            store.gateway = store.session /\ (store.gateway = 0 => store.user = 0)
       /\ storage = "persistent" /\ Logins # {} => store.session = 0
       /\ \A m, n \in Logins : m = n)'
  BY <1>1 DEF Apart
<1> QED
  BY <1>2, <1>3, <1>4 DEF Apart

\* Named, when requests are sent.
LEMMA NamedExtends ==
  ASSUME Typed, Named, Extended, store'.gateway = store.gateway,
         store'.held = store.held, store'.entry = store.entry,
         ToSet(store.pending) \subseteq ToSet(store'.pending), history'.lost = history.lost
  PROVE  Named'
BY DEF Named, Holds, Asks, FromOwn, Extended, Typed

\* An owed id stays so, when requests are sent.
LEMMA OwedExtends ==
  ASSUME Typed, Extended, UNCHANGED <<storage, source, rows>>,
         store'.gateway = store.gateway, store'.user = store.user,
         store'.held = store.held, store'.entry = store.entry,
         ToSet(store.pending) \subseteq ToSet(store'.pending),
         store.forced \subseteq store'.forced, store.timer => store'.timer,
         NEW i \in Ids, Due(i) \/ Coming(i) \/ Arrived(i)
  PROVE  (Due(i) \/ Coming(i) \/ Arrived(i))'
<1>0. /\ \A n \in DOMAIN wire : n \in DOMAIN wire' /\ wire'[n] = wire[n]
      /\ \A n \in DOMAIN wire' : Tells(wire'[n], i) => n \in DOMAIN wire /\ wire'[n] = wire[n]
  BY ToldBefore, ExtendedIs DEF Extended, Typed
<1>1. ASSUME NEW n, TrueFrom(n, i)
      PROVE  TrueFrom(n, i)'
  BY <1>0, <1>1 DEF TrueFrom
<1>2. CASE Due(i)
  BY <1>2 DEF Due
<1>3. CASE Coming(i)
  <2>1. PICK n \in DOMAIN wire : /\ Asks(n, i) /\ TrueFrom(n, i)
                                 /\ Knows(wire[n], i) => wire[n].names[i] = source[i]
    BY <1>3 DEF Coming
  <2>2. Asks(n, i)' /\ n \in DOMAIN wire' /\ wire'[n] = wire[n]
    BY <1>0, <2>1 DEF Asks, FromOwn
  <2>3. TrueFrom(n, i)'
    BY <1>1, <2>1
  <2> QED
    BY <2>1, <2>2, <2>3 DEF Coming
<1>4. CASE Arrived(i)
  <2>1. TrueFrom(1, i)'
    BY <1>1, <1>4 DEF Arrived
  <2> QED
    BY <1>4, <2>1 DEF Arrived, Holds
<1> QED
  BY <1>2, <1>3, <1>4

-----------------------------------------------------------------------------
(* Steps of the client *)

\* Only an empty sequence has no items.
LEMMA ToSetEmpty ==
  ASSUME NEW s \in Seq(Ids)
  PROVE  ToSet(s) = {} <=> s = <<>>
<1>1. CASE s = <<>>
  BY <1>1 DEF ToSet
<1>2. CASE s # <<>>
  <2>1. 1 \in DOMAIN s
    BY <1>2
  <2> QED
    BY <1>2, <2>1 DEF ToSet
<1> QED
  BY <1>1, <1>2

\* A read queues.
LEMMA GetInfosKeeps ==
  ASSUME CacheOK, NEW ids \in Reads, NEW force \in BOOLEAN, GetInfos(ids, force)
  PROVE  CacheOK'
<1> DEFINE r == Read(store, ids, force)
<1> USE DEF CacheOK
<1>0. /\ ids \in Seq(Ids) /\ store' = r.st /\ UNCHANGED <<storage, size, wire, source, rows, used>>
      /\ history' = IF force /\ ~r.threw /\ store.gateway # 0
                    THEN [history EXCEPT !.owed = @ \cup ToSet(ids)] ELSE history
      /\ ToSet(ids) \subseteq Ids
  <2>1. ids \in Seq(Ids)
    BY DisplayCacheAssumption
  <2>2. ToSet(ids) \subseteq Ids
    BY <2>1 DEF ToSet
  <2> QED
    BY <2>1, <2>2 DEF GetInfos
<1>1. /\ IsStore(r.st) /\ IsQueue(r.st) /\ OnlyQueued(store, r.st)
      /\ r.threw => r.st.timer = store.timer
      /\ ~r.threw =>
           /\ r.st.timer = (store.timer \/ (r.st.pending # <<>> /\ store.gateway # 0))
           /\ \A i \in ToSet(ids) : Lacks(store, i, force) =>
                i \in ToSet(r.st.pending) /\ (force => i \in r.st.forced)
  BY <1>0, ReadDoes DEF Typed
<1> HIDE DEF r
<1>2. /\ store'.held = store.held /\ store'.entry = store.entry /\ store'.user = store.user
      /\ store'.session = store.session /\ store'.gateway = store.gateway
      /\ ToSet(store.pending) \subseteq ToSet(store'.pending)
      /\ store.forced \subseteq store'.forced /\ (store.timer => store'.timer)
  <2>1. store.timer => store'.timer
    BY <1>0, <1>1
  <2> QED
    BY <1>0, <1>1, <2>1 DEF OnlyQueued
<1>3. Extended
  BY <1>0, SentNone
<1>4. /\ history' \in History /\ history'.lost = history.lost /\ history'.ahead = history.ahead
      /\ history'.owed = IF force /\ ~r.threw /\ store.gateway # 0
                         THEN history.owed \cup ToSet(ids) ELSE history.owed
  BY <1>0 DEF Typed, History
<1>5. ASSUME NEW i \in ToSet(ids), force, ~r.threw, store.gateway # 0
      PROVE  Due(i)'
  <2>1. i \in ToSet(r.st.pending) /\ i \in r.st.forced
    BY <1>1, <1>5 DEF Lacks
  <2>2. r.st.pending # <<>>
    BY <2>1 DEF ToSet
  <2> QED
    BY <1>0, <1>1, <1>5, <2>1, <2>2 DEF Due
<1>6. Typed'
  <2>1. store.pending \in Seq(Ids) /\ store'.pending \in Seq(Ids)
    BY <1>0, <1>1, StoreIs DEF IsStore, Client
  <2>2. store.pending # <<>> => store'.pending # <<>>
    BY <1>2, <2>1, ToSetEmpty
  <2>3. Timed(store')
    BY <1>0, <1>1, <1>2, <2>2 DEF Typed, Timed
  <2> QED
    BY <1>0, <1>1, <1>4, <2>3, TypedAfter DEF Typed
<1>7. Apart'
  <2>1. SessionsApart'
    BY <1>2 DEF Apart, SessionsApart
  <2>2. store.gateway = 0 => store'.held = store.held /\ history'.owed \subseteq history.owed
    BY <1>2, <1>4
  <2> QED
    BY <1>0, <1>2, <1>3, <2>1, <2>2, ApartExtends
<1>8. Ordered'
  BY <1>0, <1>3, OrderedExtends DEF Typed
<1>9. Forward'
  BY <1>0, <1>2, <1>3, <1>4, ForwardExtends
<1>10. Named'
  BY <1>2, <1>3, <1>4, NamedExtends
<1>11. Owed'
  <2> SUFFICES ASSUME NEW i \in history'.owed
               PROVE  (Due(i) \/ Coming(i) \/ Arrived(i))'
    BY DEF Owed
  <2>1. CASE i \in history.owed
    <3>1. i \in Ids /\ (Due(i) \/ Coming(i) \/ Arrived(i))
      BY <2>1, StoreIs DEF Owed
    <3> QED
      BY <1>0, <1>2, <1>3, <3>1, OwedExtends
  <2>2. CASE i \notin history.owed
    BY <1>4, <1>5, <2>2
  <2> QED
    BY <2>1, <2>2
<1> QED
  BY <1>6, <1>7, <1>8, <1>9, <1>10, <1>11

\* A request is sent by the user.
LEMMA SentKeeps ==
  ASSUME CacheOK, NEW q \in Request, Fresh(q), wire' = Append(wire, q), used' \in Nat,
         UNCHANGED <<storage, size, store, source, rows, history>>, Apart'
  PROVE  CacheOK'
<1> USE DEF CacheOK
<1>1. Extended
  BY AppendExtends DEF Typed
<1>2. Typed'
  BY <1>1, TypedAfter DEF Typed, Extended
<1>3. Ordered' /\ Forward' /\ Named'
  BY <1>1, OrderedExtends, ForwardExtends, NamedExtends DEF Typed
<1>4. Owed'
  <2> SUFFICES ASSUME NEW i \in history.owed
               PROVE  (Due(i) \/ Coming(i) \/ Arrived(i))'
    BY DEF Owed
  <2>1. i \in Ids /\ (Due(i) \/ Coming(i) \/ Arrived(i))
    BY StoreIs DEF Owed
  <2> QED
    BY <1>1, <2>1, OwedExtends
<1> QED
  BY <1>2, <1>3, <1>4

\* A change.
LEMMA ChangeInfoKeeps ==
  ASSUME CacheOK, NEW i \in Subjects, NEW field \in Fields, ChangeInfo(i, field)
  PROVE  CacheOK'
<1>1. PICK value \in IF field = "name" THEN {0} ELSE {0, store.user} :
        wire' = Append(wire, Change(i, field, value))
  BY DEF ChangeInfo
<1> DEFINE q == Change(i, field, value)
<1>2. store.gateway # 0 /\ Logins = {} /\ UNCHANGED <<storage, size, store, source, rows, history>>
      /\ used' \in Nat
  BY DEF ChangeInfo, Happens, CacheOK, Typed
<1>3. value \in {0, store.user} /\ value \in Nat /\ i \in Ids
  BY <1>1, StoreIs, DisplayCacheAssumption DEF CacheOK
<1>4. q.op = "change" /\ q.value = value /\ Fresh(q) /\ q \in Request
  BY <1>3 DEF Change, ChangeRequest, Request, Fresh, Knows
<1> HIDE DEF q
<1>5. /\ Extended
      /\ \A n \in DOMAIN wire' : n \in DOMAIN wire \/ (n = Len(wire) + 1 /\ wire'[n] = q)
  BY <1>1, <1>4, AppendExtends DEF q, CacheOK, Typed
<1>6. Apart'
  <2>1. SessionsApart'
    BY <1>2 DEF SessionsApart, CacheOK, Apart
  <2>2. \A n \in DOMAIN wire' : n \in DOMAIN wire \/
           /\ store.gateway # 0 /\ wire'[n].op # "login"
           /\ wire'[n].op = "change" => Logins = {} /\ wire'[n].value \in {0, store.user}
    BY <1>2, <1>3, <1>4, <1>5
  <2> QED
    BY <1>2, <1>5, <2>1, <2>2, ApartExtends DEF CacheOK
<1> QED
  BY <1>1, <1>2, <1>4, <1>6, SentKeeps DEF q

\* A login: the only one, and in a persistent client without a session.
LEMMA LoginKeeps ==
  ASSUME CacheOK, NEW u \in Users, Login(u)
  PROVE  CacheOK'
<1> DEFINE q == SignIn(u, used')
<1>1. /\ wire' = Append(wire, q) /\ Logins = {} /\ (store.session = 0 \/ storage = "instant")
      /\ UNCHANGED <<storage, size, store, source, rows, history>> /\ used' \in Nat \ {0}
  BY DEF Login, Happens, CacheOK, Typed
<1>2. q \in Request /\ Fresh(q) /\ q.op = "login"
  BY <1>1 DEF SignIn, LoginRequest, Request, Fresh, Knows
<1> HIDE DEF q
<1>3. /\ Extended
      /\ \A n \in DOMAIN wire' : n \in DOMAIN wire \/ (n = Len(wire) + 1 /\ wire'[n] = q)
  BY <1>1, <1>2, AppendExtends DEF CacheOK, Typed
<1>4. Apart'
  <2>0. /\ \A n \in DOMAIN wire : wire'[n] = wire[n]
        /\ \A n \in DOMAIN wire', m \in DOMAIN wire : n < m => n \in DOMAIN wire
        /\ \A n \in DOMAIN wire' : n \in Nat /\ \A m \in 1..(n - 1) : m \in DOMAIN wire' /\ m < n
    BY <1>3, ExtendedIs DEF Extended, CacheOK, Typed
  <2>1. \A n \in Logins' : n = Len(wire) + 1
    BY <1>1, <1>3, <2>0 DEF Logins
  <2>2. ASSUME NEW n \in DOMAIN wire', wire'[n].op = "change"
        PROVE  OwnChange(n)'
    <3>1. n \in DOMAIN wire /\ wire'[n] = wire[n]
      BY <1>2, <1>3, <2>0, <2>2
    <3>2. \A m \in 1..(n - 1) : m \in DOMAIN wire /\ wire'[m] = wire[m]
      BY <2>0, <3>1
    <3> QED
      BY <1>1, <2>2, <3>1, <3>2 DEF CacheOK, Apart, OwnChange
  <2>3. /\ store.user = 0 =>
             /\ store.session = 0 /\ store.held = <<>>
             /\ \A n \in DOMAIN wire' : wire'[n].op = "login"
        /\ store.session # 0 /\ store.gateway = 0 =>
             store.held = <<>> /\ \A n \in DOMAIN wire' : wire'[n].op # "change"
    BY <1>2, <1>3, <2>0 DEF CacheOK, Apart
  <2>4. storage = "persistent" /\ Logins' # {} => store.session = 0
    BY <1>1
  <2>5. \A m, n \in Logins' : m = n
    BY <2>1
  <2>6. /\ SessionsApart' /\ (store.session = 0 => store.gateway = 0)
        /\ storage = "instant" =>
             store.gateway = store.session /\ (store.gateway = 0 => store.user = 0)
        /\ store.gateway = 0 => history.owed = {}
    BY <1>1 DEF CacheOK, Apart, SessionsApart
  <2> QED
    BY <1>1, <2>2, <2>3, <2>4, <2>5, <2>6 DEF Apart
<1> QED
  BY <1>1, <1>2, <1>4, SentKeeps DEF q

\* A persistent client gets its gateway: nothing is held or owed.
LEMMA InstallGatewayKeeps ==
  ASSUME CacheOK, InstallGateway
  PROVE  CacheOK'
<1> USE DEF CacheOK
<1>0. /\ storage = "persistent" /\ store.session # 0 /\ store.gateway = 0
      /\ store' = [store EXCEPT !.gateway = store.session]
      /\ UNCHANGED <<storage, size, wire, source, rows, history, used>>
  BY DEF InstallGateway
<1>1. /\ store'.held = store.held /\ store'.entry = store.entry /\ store'.user = store.user
      /\ store'.session = store.session /\ store'.gateway = store.session
      /\ store'.pending = store.pending /\ store'.forced = store.forced
      /\ store'.timer = store.timer /\ store' \in Client
  BY <1>0, StoreIs DEF Client
<1>2. /\ history.owed = {} /\ store.held = <<>> /\ store.user \in Users
      /\ \A i \in Ids : store.entry[i].name = 0
  <2>1. history.owed = {} /\ store.held = <<>> /\ store.user # 0
    BY <1>0 DEF Apart
  <2>2. \A i \in Ids : ~Holds(store, i)
    BY <2>1 DEF Holds, ToSet
  <2>3. \A i \in Ids : store.entry[i] = Absent
    BY <2>2, StoreIs
  <2> QED
    BY <2>1, <2>3, StoreIs DEF Absent
<1>3. Typed'
  <2>1. IsStore(store') /\ IsQueue(store') /\ Timed(store')
    BY <1>0, <1>1 DEF Typed, IsStore, IsQueue, Timed, Holds
  <2> QED
    BY <1>0, <2>1, TypedAfter DEF Typed
<1>4. Apart'
  <2>1. SessionsApart' /\ Logins' = Logins
    BY <1>0, <1>1 DEF Apart, SessionsApart, Logins
  <2>2. \A n \in DOMAIN wire : OwnChange(n)' <=> OwnChange(n)
    BY <1>0, <1>1 DEF OwnChange
  <2> QED
    BY <1>0, <1>1, <1>2, <2>1, <2>2 DEF Apart
<1>5. Extended
  BY <1>0, SentNone
<1>6. Ordered' /\ Forward'
  BY <1>0, <1>1, <1>2, <1>5, OrderedExtends, ForwardExtends DEF Typed
<1>7. Named'
  BY <1>1, <1>2 DEF Named, Holds, ToSet
<1>8. Owed'
  BY <1>0, <1>2 DEF Owed
<1> QED
  BY <1>3, <1>4, <1>6, <1>7, <1>8

\* It fails: there is no session, and nothing is owed.
LEMMA StartFailsKeeps ==
  ASSUME CacheOK, StartFails
  PROVE  CacheOK'
<1> USE DEF CacheOK
<1>0. /\ storage = "persistent" /\ store.session # 0 /\ history' = NoHistory
      /\ store' = [store EXCEPT !.session = 0, !.gateway = 0] /\ used' \in Nat
      /\ UNCHANGED <<storage, size, wire, source, rows>>
  BY DEF StartFails, Happens, Typed
<1>1. /\ store'.held = store.held /\ store'.entry = store.entry /\ store'.user = store.user
      /\ store'.session = 0 /\ store'.gateway = 0
      /\ store'.pending = store.pending /\ store'.forced = store.forced
      /\ store'.timer = store.timer /\ store' \in Client
  BY <1>0, StoreIs DEF Client
<1>2. history'.owed = {} /\ history' \in History
  BY <1>0 DEF NoHistory, History
<1>3. Typed'
  <2>1. IsStore(store') /\ IsQueue(store') /\ Timed(store')
    BY <1>0, <1>1 DEF Typed, IsStore, IsQueue, Timed, Holds
  <2> QED
    BY <1>0, <1>2, <2>1, TypedAfter DEF Typed
<1>4. Apart'
  <2>1. SessionsApart' /\ Logins' = Logins
    BY <1>0, <1>1 DEF Apart, SessionsApart, Logins
  <2>2. \A n \in DOMAIN wire : OwnChange(n)' <=> OwnChange(n)
    BY <1>0, <1>1 DEF OwnChange
  <2> QED
    BY <1>0, <1>1, <1>2, <2>1, <2>2 DEF Apart
<1>5. Extended
  BY <1>0, SentNone
<1>6. Ordered' /\ Forward'
  BY <1>0, <1>1, <1>5, OrderedExtends, ForwardExtends DEF Typed
<1>7. Named'
  BY <1>1 DEF Named
<1>8. Owed'
  BY <1>2 DEF Owed
<1> QED
  BY <1>3, <1>4, <1>6, <1>7, <1>8

\* Its database is open.
LEMMA OpenDatabaseKeeps ==
  ASSUME CacheOK, OpenDatabase
  PROVE  CacheOK'
<1> USE DEF CacheOK
<1>0. /\ store' = [store EXCEPT !.opened = TRUE]
      /\ UNCHANGED <<storage, size, wire, source, rows, history, used>>
  BY DEF OpenDatabase
<1>1. /\ store'.held = store.held /\ store'.entry = store.entry /\ store'.user = store.user
      /\ store'.session = store.session /\ store'.gateway = store.gateway
      /\ store'.pending = store.pending
      /\ store'.forced = store.forced /\ store'.timer = store.timer /\ store' \in Client
  BY <1>0, StoreIs DEF Client
<1>2. Typed'
  <2>1. IsStore(store') /\ IsQueue(store') /\ Timed(store')
    BY <1>0, <1>1 DEF Typed, IsStore, IsQueue, Timed, Holds
  <2> QED
    BY <1>0, <2>1, TypedAfter DEF Typed
<1>3. Extended
  BY <1>0, SentNone
<1>4. Apart'
  <2>1. SessionsApart'
    BY <1>1 DEF Apart, SessionsApart
  <2> QED
    BY <1>0, <1>1, <1>3, <2>1, ApartExtends
<1>5. Ordered' /\ Forward' /\ Named'
  BY <1>0, <1>1, <1>3, OrderedExtends, ForwardExtends, NamedExtends DEF Typed
<1>6. Owed'
  <2> SUFFICES ASSUME NEW i \in history.owed
               PROVE  (Due(i) \/ Coming(i) \/ Arrived(i))'
    BY <1>0 DEF Owed
  <2>1. i \in Ids /\ (Due(i) \/ Coming(i) \/ Arrived(i))
    BY StoreIs DEF Owed
  <2> QED
    BY <1>0, <1>1, <1>3, <2>1, OwedExtends
<1> QED
  BY <1>2, <1>4, <1>5, <1>6

\* A session that begins: nothing is held, queued or owed, and what is left on the wire
\* are loads.
LEMMA ClearedKeeps ==
  ASSUME CacheOK, NEW u \in Users \cup {0}, NEW session \in Nat, NEW gateway \in Nat,
         store' = Cleared(u, session, gateway),
         UNCHANGED <<storage, size, source, rows>>, used' \in Nat, history' = NoHistory,
         wire' \in Seq(Request), Ordered',
         \A n \in DOMAIN wire' :
           wire'[n].op = "fetch" /\ \E m \in DOMAIN wire : wire'[n] = wire[m],
         u = 0 => session = 0 /\ wire' = <<>>, session = 0 => gateway = 0,
         storage = "instant" => gateway = session /\ (gateway = 0 => u = 0)
  PROVE  CacheOK'
<1> USE DEF CacheOK
<1>1. /\ store'.held = <<>> /\ store'.entry = [i \in Ids |-> Absent] /\ store'.pending = <<>>
      /\ store'.forced = {} /\ store'.timer = FALSE /\ store'.user = u
      /\ store'.session = session /\ store'.gateway = gateway /\ store'.opened = FALSE
  BY DEF Cleared
<1>2. history'.owed = {} /\ history'.lost = {} /\ history'.ahead = {} /\ history' \in History
  BY DEF NoHistory, History
<1>3. Absent \in Entry /\ Absent.name = 0 /\ Absent.remark = 0
  BY DEF Absent, Entry
<1>4. store' \in Client
  BY <1>3 DEF Cleared, Client
<1>5. Typed'
  <2>1. ToSet(<<>>) = {} /\ Len(<<>>) = 0 /\ IsInjective(<<>>)
    BY DEF ToSet, IsInjective
  <2>2. IsStore(store') /\ IsQueue(store') /\ Timed(store')
    BY <1>1, <1>4, <2>1, SizesAre DEF IsStore, IsQueue, Timed, Typed
  <2> QED
    BY <1>2, <2>2, TypedAfter DEF Typed
<1>6. Apart'
  <2>1. SessionsApart'
    BY <1>1, <1>3 DEF SessionsApart
  <2>2. Logins' = {} /\ (u = 0 => DOMAIN wire' = {})
    BY DEF Logins
  <2> QED
    BY <1>1, <1>2, <2>1, <2>2 DEF Apart
<1>7. Forward'
  <2>1. ASSUME NEW n \in DOMAIN wire', NEW i \in Ids, Tells(wire'[n], i)
        PROVE  /\ 0 <= NameIn(wire'[n], i)
               /\ \A v \in Users : rows[v][i].name <= NameIn(wire'[n], i)
    <3>1. PICK m \in DOMAIN wire : wire'[n] = wire[m]
      OBVIOUS
    <3>2. 0 <= NameIn(wire'[n], i)
      BY <2>1, ToldIs
    <3> QED
      BY <2>1, <3>1, <3>2 DEF Forward
  <2>2. \A i \in Ids : store'.entry[i].name = 0 /\ 0 <= source[i]
    BY <1>1, <1>3, StoreIs
  <2>3. \A v \in Users : \A i \in Ids : 0 <= rows[v][i].name /\ rows[v][i].name <= source[i]
    BY StoreIs DEF Forward
  <2>4. storage = "persistent" /\ gateway # 0 => u \in Users
    OBVIOUS
  <2> QED
    BY <1>1, <2>1, <2>2, <2>3, <2>4 DEF Forward
<1>8. Named'
  BY <1>1 DEF Named, Holds, ToSet
<1>9. Owed'
  BY <1>2 DEF Owed
<1> QED
  BY <1>5, <1>6, <1>7, <1>8, <1>9

\* Nobody is signed in.
LEMMA LogoutKeeps ==
  ASSUME CacheOK, Logout
  PROVE  CacheOK'
<1>1. store' = Cleared(0, 0, 0) /\ wire' = <<>> /\ history' = NoHistory
      /\ UNCHANGED <<storage, size, source, rows, used>>
  BY DEF Logout, NoSession
<1>2. wire' \in Seq(Request) /\ DOMAIN wire' = {} /\ used' \in Nat
  BY <1>1 DEF CacheOK, Typed
<1>3. Ordered'
  BY <1>2 DEF Ordered
<1> QED
  BY <1>1, <1>2, <1>3, ClearedKeeps

\* The infos expire.
LEMMA TimePassesKeeps ==
  ASSUME CacheOK, TimePasses
  PROVE  CacheOK'
<1> USE DEF CacheOK
<1>0. /\ wire = <<>> /\ UNCHANGED <<storage, size, wire, source, history>> /\ used' \in Nat
      /\ store' = [store EXCEPT !.entry = [i \in Ids |-> [@[i] EXCEPT !.expired = TRUE]]]
      /\ rows' = [u \in Users |-> [i \in Ids |-> [rows[u][i] EXCEPT !.expired = TRUE]]]
  BY DEF TimePasses, Happens, Typed
<1> DEFINE entry == [i \in Ids |-> [store.entry[i] EXCEPT !.expired = TRUE]]
<1>1. /\ entry \in [Ids -> Entry] /\ store.entry \in [Ids -> Entry] /\ store \in Client
      /\ \A i \in Ids : entry[i].name = store.entry[i].name /\ entry[i].remark = store.entry[i].remark
      /\ \A i \in Ids : ~Holds(store, i) => entry[i] = Absent
  <2>1. store.entry \in [Ids -> Entry] /\ store \in Client
        /\ \A i \in Ids : ~Holds(store, i) => store.entry[i] = Absent
    BY StoreIs
  <2>2. \A e \in Entry : e.expired = TRUE => [e EXCEPT !.expired = TRUE] = e
    BY DEF Entry
  <2>3. Absent.expired = TRUE
    BY DEF Absent
  <2>4. \A i \in Ids : ~Holds(store, i) => entry[i] = Absent
    BY <2>1, <2>2, <2>3
  <2> QED
    BY <2>1, <2>4 DEF Entry
<1>2. store' = [store EXCEPT !.entry = entry]
  BY <1>0
<1> HIDE DEF entry
<1>3. /\ store'.held = store.held /\ store'.entry = entry /\ store'.user = store.user
      /\ store'.session = store.session /\ store'.gateway = store.gateway
      /\ store'.pending = store.pending
      /\ store'.forced = store.forced /\ store'.timer = store.timer /\ store' \in Client
  BY <1>1, <1>2 DEF Client
<1>4. rows' \in [Users -> [Ids -> Row]]
      /\ \A u \in Users : \A i \in Ids : rows'[u][i].name = rows[u][i].name
  <2>1. ASSUME NEW u \in Users, NEW i \in Ids
        PROVE  LET e == [rows[u][i] EXCEPT !.expired = TRUE] IN
               e \in Row /\ e.name = rows[u][i].name
    BY StoreIs DEF Row
  <2> QED
    BY <1>0, <2>1
<1>5. Typed'
  <2>1. IsStore(store') /\ IsQueue(store') /\ Timed(store')
    BY <1>1, <1>3 DEF Typed, IsStore, IsQueue, Timed, Holds
  <2> QED
    BY <1>0, <1>4, <2>1, TypedAfter DEF Typed
<1>6. Apart'
  <2>1. SessionsApart'
    BY <1>1, <1>3 DEF Apart, SessionsApart
  <2>2. Extended
    BY <1>0, SentNone
  <2> QED
    BY <1>0, <1>3, <2>1, <2>2, ApartExtends
<1>7. Ordered'
  BY <1>0 DEF Ordered
<1>8. Forward'
  <2>1. store.user # 0 => store.user \in Users
    BY StoreIs
  <2>2. DOMAIN wire = {}
    BY <1>0
  <2>3. \A i \in Ids : store'.entry[i].name = store.entry[i].name
    BY <1>1, <1>3
  <2>4. (\A i \in Ids : store.entry[i].name <= source[i])'
    BY <1>0, <2>3 DEF Forward
  <2>5. (\A u \in Users : \A i \in Ids : rows[u][i].name <= source[i])'
    BY <1>0, <1>4 DEF Forward
  <2>6. storage = "persistent" /\ store.gateway # 0 =>
          store.user \in Users /\
          \A i \in Ids : rows'[store.user][i].name = rows[store.user][i].name
    <3>1. store.gateway # 0 => store.user # 0
      BY DEF Apart
    <3> QED
      BY <1>4, <2>1, <3>1
  <2>7. (storage = "persistent" /\ store.gateway # 0 =>
           \A i \in Ids :
             store.entry[i].name <= rows[store.user][i].name \/ i \in history.ahead)'
    BY <1>0, <1>3, <2>3, <2>6 DEF Forward
  <2> QED
    BY <1>0, <2>2, <2>4, <2>5, <2>7 DEF Forward
<1>9. Named'
  <2>1. DOMAIN wire = {}
    BY <1>0
  <2>2. store.gateway # 0 => \A i \in Ids : Holds(store, i) =>
           store.entry[i].name # 0 \/ i \in history.lost \/ i \in ToSet(store.pending)
    BY <2>1 DEF Named
  <2> QED
    BY <1>0, <1>1, <1>3, <2>2 DEF Named, Holds
<1>10. Owed'
  <2> SUFFICES ASSUME NEW i \in history.owed
               PROVE  (Due(i) \/ Coming(i) \/ Arrived(i))'
    BY <1>0 DEF Owed
  <2>1. i \in Ids /\ (Due(i) \/ Coming(i) \/ Arrived(i))
    BY StoreIs DEF Owed
  <2>2. Due(i) => Due(i)'
    BY <1>3 DEF Due
  <2>3. ~Coming(i)
    BY <1>0 DEF Coming
  <2>4. Arrived(i) => Arrived(i)'
    <3>1. TrueFrom(1, i)'
      BY <1>0 DEF TrueFrom
    <3>2. store.gateway # 0 /\ store.user # 0
      BY DEF Apart
    <3>3. store.user \in Users
      BY <3>2, StoreIs
    <3>4. rows'[store.user][i].name = rows[store.user][i].name /\ store'.entry[i].name = store.entry[i].name
      BY <1>1, <1>3, <1>4, <2>1, <3>3
    <3> QED
      BY <1>0, <1>3, <3>1, <3>4 DEF Arrived, Holds
  <2> QED
    BY <2>1, <2>2, <2>3, <2>4
<1> QED
  BY <1>5, <1>6, <1>7, <1>8, <1>9, <1>10

-----------------------------------------------------------------------------
(* Steps of the server *)

\* The server takes a request or a change from elsewhere: what the client has is
\* unchanged, an answer that is new says what the server has, and is the last one.
LEMMA NewsKeeps ==
  ASSUME CacheOK, UNCHANGED <<storage, size, store, rows>>, used' \in Nat,
         wire' \in Seq(Request), DOMAIN wire' = DOMAIN wire,
         source' \in [Ids -> Nat \ {0}], history' \in History,
         history'.lost = history.lost, history'.ahead = history.ahead,
         history'.owed \subseteq history.owed,
         \A i \in Ids : source[i] <= source'[i] /\ (i \in history'.owed => source'[i] = source[i]),
         \A k \in DOMAIN wire :
           /\ wire'[k].op = wire[k].op
           /\ wire[k].op = "fetch" =>
                wire'[k].gateway = wire[k].gateway /\ wire'[k].need = wire[k].need
           /\ wire[k].op = "change" => wire'[k].field = wire[k].field
           /\ wire[k].op = "change" /\ wire[k].field = "remark" => wire'[k].value = wire[k].value,
         \A k \in DOMAIN wire : \A i \in Ids : Tells(wire'[k], i) =>
           \/ Tells(wire[k], i) /\ NameIn(wire'[k], i) = NameIn(wire[k], i)
           \/ /\ NameIn(wire'[k], i) = source'[i]
              /\ \A m \in DOMAIN wire : m > k => ~wire'[m].served,
         \A k \in DOMAIN wire : \A i \in Ids : Knows(wire'[k], i) =>
           Knows(wire[k], i) /\ wire'[k].names[i] = wire[k].names[i],
         \A m, n \in DOMAIN wire : m < n /\ wire'[n].served => wire'[m].served
  PROVE  CacheOK'
<1> USE DEF CacheOK
<1>0. /\ \A k \in DOMAIN wire : k \in Nat /\ wire[k] \in Request /\ \A m \in 1..k : m \in DOMAIN wire
      /\ \A i \in Ids : source[i] \in Nat \ {0} /\ source'[i] \in Nat \ {0} /\ store.entry[i].name \in Nat
      /\ \A u \in Users : \A i \in Ids : rows[u][i].name \in Nat
      /\ store.user # 0 => store.user \in Users
      /\ \A k \in DOMAIN wire : \A i \in Ids :
           /\ Tells(wire[k], i) => NameIn(wire[k], i) \in Nat
           /\ Tells(wire'[k], i) => NameIn(wire'[k], i) \in Nat
           /\ Knows(wire[k], i) => wire[k].names[i] \in Nat
  <2>1. /\ \A k \in DOMAIN wire : k \in Nat /\ wire[k] \in Request /\ \A m \in 1..k : m \in DOMAIN wire
        /\ \A k \in DOMAIN wire : wire'[k] \in Request
    BY DEF Typed
  <2> QED
    BY <2>1, StoreIs, ToldIs
<1>1. Typed'
  BY TypedAfter DEF Typed
<1>2. Apart'
  <2>1. Logins' = Logins
    BY DEF Logins
  <2>2. ASSUME NEW n \in DOMAIN wire', wire'[n].op = "change"
        PROVE  OwnChange(n)'
    <3>1. \A m \in 1..(n - 1) : m \in DOMAIN wire
      BY <1>0
    <3>2. OwnChange(n) /\ wire[n].op = "change"
      BY <2>2 DEF Apart
    <3>3. \A m \in 1..(n - 1) : wire'[m].op # "login"
      BY <3>1, <3>2 DEF OwnChange
    <3>4. wire'[n].field = "remark" => wire'[n].value \in {0, store.user}
      BY <2>2, <3>2 DEF OwnChange
    <3> QED
      BY <3>3, <3>4 DEF OwnChange
  <2>3. (/\ SessionsApart
         /\ store.session = 0 => store.gateway = 0
         /\ storage = "instant" =>
              store.gateway = store.session /\ (store.gateway = 0 => store.user = 0)
         /\ storage = "persistent" /\ Logins # {} => store.session = 0
         /\ \A m, n \in Logins : m = n)'
    BY <2>1 DEF Apart, SessionsApart
  <2>4. /\ store.user = 0 =>
             /\ store.session = 0 /\ store.held = <<>>
             /\ \A n \in DOMAIN wire' : wire'[n].op = "login"
        /\ store.gateway = 0 => history'.owed = {}
        /\ store.session # 0 /\ store.gateway = 0 =>
             store.held = <<>> /\ \A n \in DOMAIN wire' : wire'[n].op # "change"
    BY DEF Apart
  <2> QED
    BY <2>2, <2>3, <2>4 DEF Apart
<1>3. Ordered'
  <2>1. ASSUME NEW n \in DOMAIN wire, NEW i \in Ids, Tells(wire'[n], i)
        PROVE  /\ NameIn(wire'[n], i) # 0 /\ NameIn(wire'[n], i) <= source'[i]
               /\ \A m \in 1..n : Tells(wire'[m], i) => NameIn(wire'[m], i) <= NameIn(wire'[n], i)
    <3>1. NameIn(wire'[n], i) # 0 /\ NameIn(wire'[n], i) <= source'[i]
      BY <1>0, <2>1 DEF Ordered
    <3>2. ASSUME NEW m \in 1..n, Tells(wire'[m], i)
          PROVE  NameIn(wire'[m], i) <= NameIn(wire'[n], i)
      <4>1. m \in DOMAIN wire /\ (m = n \/ n > m) /\ wire'[n].served
        BY <1>0, <2>1 DEF Tells
      <4>2. CASE m = n
        BY <1>0, <2>1, <4>2
      <4>3. CASE n > m
        <5>1. Tells(wire[m], i) /\ NameIn(wire'[m], i) = NameIn(wire[m], i)
          BY <3>2, <4>1, <4>3
        <5>2. CASE Tells(wire[n], i) /\ NameIn(wire'[n], i) = NameIn(wire[n], i)
          BY <5>1, <5>2 DEF Ordered
        <5>3. CASE NameIn(wire'[n], i) = source'[i]
          <6>1. NameIn(wire[m], i) <= source[i] /\ source[i] <= source'[i]
            BY <4>1, <5>1 DEF Ordered
          <6> QED
            BY <1>0, <4>1, <5>1, <5>3, <6>1
        <5> QED
          BY <2>1, <5>2, <5>3
      <4> QED
        BY <4>1, <4>2, <4>3
    <3> QED
      BY <3>1, <3>2
  <2>2. ASSUME NEW m \in DOMAIN wire, NEW i \in Ids, Knows(wire'[m], i)
        PROVE  /\ wire'[m].names[i] # 0 /\ wire'[m].names[i] <= source'[i]
               /\ \A n \in DOMAIN wire :
                    Tells(wire'[n], i) => wire'[m].names[i] <= NameIn(wire'[n], i)
    <3>1. /\ Knows(wire[m], i) /\ wire'[m].names[i] = wire[m].names[i]
          /\ wire[m].names[i] # 0 /\ wire[m].names[i] <= source[i]
      BY <2>2 DEF Ordered
    <3>2. wire[m].names[i] <= source'[i]
      BY <1>0, <3>1
    <3>3. ASSUME NEW n \in DOMAIN wire, Tells(wire'[n], i)
          PROVE  wire[m].names[i] <= NameIn(wire'[n], i)
      BY <3>1, <3>2, <3>3 DEF Ordered
    <3> QED
      BY <3>1, <3>2, <3>3
  <2> QED
    BY <2>1, <2>2 DEF Ordered
<1>4. Forward'
  <2>1. \A i \in Ids : store.entry[i].name <= source'[i]
    BY <1>0 DEF Forward
  <2>2. \A u \in Users : \A i \in Ids : rows[u][i].name <= source'[i]
    BY <1>0 DEF Forward
  <2>3. \A n \in DOMAIN wire' : \A i \in Ids : Tells(wire'[n], i) =>
          /\ store.entry[i].name <= NameIn(wire'[n], i)
          /\ \A u \in Users : rows[u][i].name <= NameIn(wire'[n], i)
    BY <2>1, <2>2 DEF Forward
  <2>4. storage = "persistent" /\ store.gateway # 0 =>
          \A i \in Ids :
            store.entry[i].name <= rows[store.user][i].name \/ i \in history'.ahead
    BY DEF Forward
  <2> QED
    BY <2>1, <2>2, <2>3, <2>4 DEF Forward
<1>5. \A n \in DOMAIN wire : \A i \in Ids : Asks(n, i) => Asks(n, i)'
  BY DEF Asks, FromOwn
<1>6. Named'
  BY <1>5 DEF Named, Holds
<1>7. Owed'
  <2> SUFFICES ASSUME NEW i \in history'.owed
               PROVE  (Due(i) \/ Coming(i) \/ Arrived(i))'
    BY DEF Owed
  <2>1. i \in Ids /\ source'[i] = source[i] /\ (Due(i) \/ Coming(i) \/ Arrived(i))
    BY StoreIs DEF Owed
  <2>2. ASSUME NEW n, TrueFrom(n, i)
        PROVE  TrueFrom(n, i)'
    BY <2>1, <2>2 DEF TrueFrom
  <2>3. Due(i) => Due(i)'
    BY DEF Due
  <2>4. Coming(i) => Coming(i)'
    BY <1>5, <2>1, <2>2 DEF Coming
  <2>5. Arrived(i) => Arrived(i)'
    BY <2>1, <2>2 DEF Arrived, Holds
  <2> QED
    BY <2>1, <2>3, <2>4, <2>5
<1> QED
  BY <1>1, <1>2, <1>3, <1>4, <1>6, <1>7

\* What a new name changes.
LEMMA RenameIs ==
  ASSUME Typed, NEW i \in Ids, Rename(i)
  PROVE  /\ source' \in [Ids -> Nat \ {0}] /\ history' \in History
         /\ history'.lost = history.lost /\ history'.ahead = history.ahead
         /\ history'.owed = history.owed \ {i}
         /\ source'[i] = source[i] + 1
         /\ \A j \in Ids : source[j] <= source'[j] /\ (j # i => source'[j] = source[j])
<1>1. source' = [source EXCEPT ![i] = @ + 1] /\ source \in [Ids -> Nat \ {0}]
  BY DEF Rename, Typed
<1>2. /\ history' \in History /\ history'.lost = history.lost /\ history'.ahead = history.ahead
      /\ history'.owed = history.owed \ {i}
  BY DEF Rename, Typed, History
<1>3. source' \in [Ids -> Nat \ {0}] /\ source'[i] = source[i] + 1
      /\ \A j \in Ids : j # i => source'[j] = source[j]
  BY <1>1
<1>4. \A j \in Ids : source[j] <= source'[j]
  BY <1>1, <1>3
<1> QED
  BY <1>2, <1>3, <1>4

\* A name changes elsewhere.
LEMMA ChangedElsewhereKeeps ==
  ASSUME CacheOK, NEW i \in Subjects, ChangedElsewhere(i)
  PROVE  CacheOK'
<1>1. /\ i \in Ids /\ Rename(i) /\ UNCHANGED <<storage, size, store, wire, rows>> /\ used' \in Nat
  BY DisplayCacheAssumption DEF ChangedElsewhere, Happens, CacheOK, Typed
<1>2. /\ source' \in [Ids -> Nat \ {0}] /\ history' \in History
      /\ history'.lost = history.lost /\ history'.ahead = history.ahead
      /\ history'.owed \subseteq history.owed
      /\ \A j \in Ids : source[j] <= source'[j] /\ (j \in history'.owed => source'[j] = source[j])
  BY <1>1, RenameIs DEF CacheOK
<1>3. \A m, n \in DOMAIN wire : m < n /\ wire'[n].served => wire'[m].served
  BY <1>1 DEF CacheOK, Ordered
<1>4. wire' \in Seq(Request)
  BY <1>1 DEF CacheOK, Typed
<1>5. \A k \in DOMAIN wire : \A j \in Ids : Knows(wire'[k], j) =>
        Knows(wire[k], j) /\ wire'[k].names[j] = wire[k].names[j]
  BY <1>1
<1> QED
  BY <1>1, <1>2, <1>3, <1>4, <1>5, NewsKeeps

\* A request is served: s takes the place of the first that was not.
LEMMA ServedKeeps ==
  ASSUME CacheOK, NEW n \in DOMAIN wire, \A m \in 1..(n - 1) : wire[m].served, ~wire[n].served,
         NEW s \in Request, wire' = [wire EXCEPT ![n] = s], s.served, s.op = wire[n].op,
         s.op = "fetch" => s.gateway = wire[n].gateway /\ s.need = wire[n].need,
         \A i \in Ids : Knows(s, i) => Knows(wire[n], i) /\ s.names[i] = wire[n].names[i],
         s.op = "change" => s.field = wire[n].field,
         s.op = "change" /\ s.field = "remark" => s.value = wire[n].value,
         \A i \in Ids : Tells(s, i) => NameIn(s, i) = source'[i],
         UNCHANGED <<storage, size, store, rows, used>>,
         source' \in [Ids -> Nat \ {0}], history' \in History,
         history'.lost = history.lost, history'.ahead = history.ahead,
         history'.owed \subseteq history.owed,
         \A i \in Ids : source[i] <= source'[i] /\ (i \in history'.owed => source'[i] = source[i])
  PROVE  CacheOK'
<1>1. /\ DOMAIN wire' = DOMAIN wire /\ wire' \in Seq(Request) /\ wire'[n] = s
      /\ \A k \in DOMAIN wire : k # n => wire'[k] = wire[k]
      /\ \A k \in DOMAIN wire : k \in Nat /\ k >= 1
  BY DEF CacheOK, Typed
<1>2. \A m \in DOMAIN wire : m > n => ~wire[m].served
  BY <1>1 DEF CacheOK, Ordered
<1>3. \A m, k \in DOMAIN wire : m < k /\ wire'[k].served => wire'[m].served
  <2> SUFFICES ASSUME NEW m \in DOMAIN wire, NEW k \in DOMAIN wire, m < k, wire'[k].served
               PROVE  wire'[m].served
    OBVIOUS
  <2>1. CASE m = n
    BY <1>1, <2>1
  <2>2. CASE k = n
    <3>1. m \in 1..(n - 1)
      BY <1>1, <2>2
    <3> QED
      BY <1>1, <2>2, <3>1
  <2>3. CASE m # n /\ k # n
    BY <1>1, <2>3 DEF CacheOK, Ordered
  <2> QED
    BY <2>1, <2>2, <2>3
<1>4. \A k \in DOMAIN wire : \A i \in Ids : Tells(wire'[k], i) =>
        \/ Tells(wire[k], i) /\ NameIn(wire'[k], i) = NameIn(wire[k], i)
        \/ NameIn(wire'[k], i) = source'[i] /\ \A m \in DOMAIN wire : m > k => ~wire'[m].served
  <2> SUFFICES ASSUME NEW k \in DOMAIN wire, NEW i \in Ids, Tells(wire'[k], i), k = n
               PROVE  /\ NameIn(wire'[k], i) = source'[i]
                      /\ \A m \in DOMAIN wire : m > k => ~wire'[m].served
    BY <1>1
  <2>1. \A m \in DOMAIN wire : m > n => wire'[m] = wire[m]
    BY <1>1
  <2> QED
    BY <1>1, <1>2, <2>1
<1>5. \A k \in DOMAIN wire :
        /\ wire'[k].op = wire[k].op
        /\ wire[k].op = "fetch" =>
             wire'[k].gateway = wire[k].gateway /\ wire'[k].need = wire[k].need
        /\ wire[k].op = "change" => wire'[k].field = wire[k].field
        /\ wire[k].op = "change" /\ wire[k].field = "remark" => wire'[k].value = wire[k].value
  BY <1>1
<1>6. used' \in Nat
  BY DEF CacheOK, Typed
<1>7. \A k \in DOMAIN wire : \A i \in Ids : Knows(wire'[k], i) =>
        Knows(wire[k], i) /\ wire'[k].names[i] = wire[k].names[i]
  BY <1>1
<1> QED
  BY <1>1, <1>3, <1>4, <1>5, <1>6, <1>7, NewsKeeps

\* The server answers.
LEMMA ServeKeeps ==
  ASSUME CacheOK, NEW n \in DOMAIN wire, Serve(n)
  PROVE  CacheOK'
<1> DEFINE q == wire[n]
<1>0. /\ ~wire[n].served /\ \A m \in 1..(n - 1) : wire[m].served
      /\ UNCHANGED <<storage, size, store, rows, used>> /\ q \in Request
      /\ wire \in Seq(Request) /\ source \in [Ids -> Nat \ {0}] /\ history \in History
  BY DEF Serve, CacheOK, Typed
<1>1. CASE /\ q.op = "fetch" /\ UNCHANGED <<source, history>>
           /\ wire' = [wire EXCEPT ![n].served = TRUE,
                                   ![n].names = [i \in q.asked \cup DOMAIN @ |->
                                                   IF i \in q.asked THEN source[i] ELSE @[i]]]
  <2> DEFINE names == [i \in q.asked \cup DOMAIN q.names |->
                         IF i \in q.asked THEN source[i] ELSE q.names[i]]
             s == [q EXCEPT !.served = TRUE, !.names = names]
  <2>1. wire' = [wire EXCEPT ![n] = s]
    BY <1>0, <1>1
  <2>2. /\ q \in FetchRequest /\ q.asked \subseteq q.need /\ q.need \in SUBSET Ids
        /\ DOMAIN q.names \subseteq q.need /\ q.names \in [DOMAIN q.names -> Nat]
    BY <1>0, <1>1, RequestIs
  <2>3. /\ names \in [q.asked \cup DOMAIN q.names -> Nat]
        /\ DOMAIN names = q.asked \cup DOMAIN q.names
        /\ \A i \in q.asked : names[i] = source[i]
        /\ \A i \in DOMAIN q.names : i \notin q.asked => names[i] = q.names[i]
    BY <1>0, <2>2
  <2>4. names \in UNION {[S -> Nat] : S \in SUBSET Ids}
    BY <2>2, <2>3
  <2> HIDE DEF names
  <2>5. /\ s.served = TRUE /\ s.op = "fetch" /\ s.gateway = q.gateway /\ s.need = q.need
        /\ s.asked = q.asked /\ s.ids = q.ids /\ s.names = names /\ s \in FetchRequest
    BY <1>1, <2>2, <2>3, <2>4 DEF FetchRequest
  <2> HIDE DEF s
  <2>6. s \in Request
    BY <2>5 DEF Request
  <2>7. /\ \A i \in Ids : Tells(s, i) => NameIn(s, i) = source'[i]
        /\ \A i \in Ids : Knows(s, i) => Knows(wire[n], i) /\ s.names[i] = wire[n].names[i]
    BY <1>1, <2>3, <2>5 DEF Tells, NameIn, Knows, Waited
  <2>8. \A i \in Ids : source[i] <= source'[i] /\ source'[i] = source[i]
    <3>1. source' = source /\ \A i \in Ids : source[i] \in Nat
      BY <1>0, <1>1
    <3>2. \A i \in Ids : source[i] <= source[i]
      BY <3>1
    <3> QED
      BY <3>1, <3>2
  <2>9. s.op = wire[n].op /\ s.gateway = wire[n].gateway /\ s.need = wire[n].need
    BY <1>1, <2>5
  <2>10. /\ source' \in [Ids -> Nat \ {0}] /\ history' \in History
         /\ history'.lost = history.lost /\ history'.ahead = history.ahead
         /\ history'.owed \subseteq history.owed
    BY <1>0, <1>1
  <2>11. s.served /\ s.op # "change"
    BY <2>5
  <2> QED
    BY <1>0, <2>1, <2>6, <2>7, <2>8, <2>9, <2>10, <2>11, ServedKeeps
<1>2. CASE /\ q.op = "change" /\ q.field = "name" /\ Rename(q.id)
           /\ wire' = [wire EXCEPT ![n].served = TRUE, ![n].value = source'[q.id]]
  <2> DEFINE s == [q EXCEPT !.served = TRUE, !.value = source'[q.id]]
  <2>1. wire' = [wire EXCEPT ![n] = s]
    BY <1>0, <1>2
  <2>2. q \in ChangeRequest /\ q.id \in Ids
    BY <1>0, <1>2, RequestIs
  <2>3. /\ source' \in [Ids -> Nat \ {0}] /\ history' \in History
        /\ history'.lost = history.lost /\ history'.ahead = history.ahead
        /\ history'.owed \subseteq history.owed
        /\ \A j \in Ids : source[j] <= source'[j] /\ (j \in history'.owed => source'[j] = source[j])
    BY <1>2, <2>2, RenameIs DEF CacheOK
  <2>4. /\ s.served = TRUE /\ s.op = "change" /\ s.field = "name" /\ s.id = q.id
        /\ s.value = source'[q.id] /\ s \in ChangeRequest
    BY <1>2, <2>2, <2>3 DEF ChangeRequest
  <2> HIDE DEF s
  <2>5. s \in Request /\ \A i \in Ids : ~Knows(s, i) /\ (Tells(s, i) => NameIn(s, i) = source'[i])
    BY <2>4 DEF Request, Tells, NameIn, Knows
  <2>6. s.served /\ s.op # "fetch" /\ s.op = wire[n].op /\ s.field = wire[n].field
        /\ s.field # "remark"
    BY <1>2, <2>4
  <2> QED
    BY <1>0, <2>1, <2>3, <2>5, <2>6, ServedKeeps
<1>3. CASE /\ q.op = "login" \/ (q.op = "change" /\ q.field = "remark")
           /\ UNCHANGED <<source, history>> /\ wire' = [wire EXCEPT ![n].served = TRUE]
  <2> DEFINE s == [q EXCEPT !.served = TRUE]
  <2>1. wire' = [wire EXCEPT ![n] = s]
    BY <1>0, <1>3
  <2>2. /\ s \in Request /\ s.served = TRUE /\ s.op = q.op
        /\ q.op = "change" => s.field = q.field /\ s.value = q.value
    <3>1. CASE q.op = "login"
      <4>1. q \in LoginRequest
        BY <1>0, <3>1, RequestIs
      <4> QED
        BY <3>1, <4>1 DEF LoginRequest, Request
    <3>2. CASE q.op = "change"
      <4>1. q \in ChangeRequest
        BY <1>0, <3>2, RequestIs
      <4> QED
        BY <3>2, <4>1 DEF ChangeRequest, Request
    <3> QED
      BY <1>3, <3>1, <3>2
  <2> HIDE DEF s
  <2>3. \A i \in Ids : ~Knows(s, i) /\ (Tells(s, i) => NameIn(s, i) = source[i])
    BY <1>3, <2>2 DEF Tells, Knows
  <2>4. \A i \in Ids : source[i] <= source'[i] /\ source'[i] = source[i]
    BY <1>0, <1>3
  <2>5. /\ s.op # "fetch" /\ s.op = wire[n].op
        /\ s.op = "change" => s.field = wire[n].field /\ s.value = wire[n].value
    BY <1>3, <2>2
  <2>6. \A i \in Ids : /\ Tells(s, i) => NameIn(s, i) = source'[i]
                       /\ Knows(s, i) => Knows(wire[n], i) /\ s.names[i] = wire[n].names[i]
    BY <1>3, <2>3
  <2>7. /\ source' \in [Ids -> Nat \ {0}] /\ history' \in History
        /\ history'.lost = history.lost /\ history'.ahead = history.ahead
        /\ history'.owed \subseteq history.owed
    BY <1>0, <1>3
  <2>8. s.op = "fetch" => s.gateway = wire[n].gateway /\ s.need = wire[n].need
    BY <2>5
  <2>9. s.op = "change" => s.field = wire[n].field
    BY <2>5
  <2>10. s.op = "change" /\ s.field = "remark" => s.value = wire[n].value
    BY <2>5
  <2>11. \A i \in Ids : Knows(s, i) => Knows(wire[n], i) /\ s.names[i] = wire[n].names[i]
    BY <2>6
  <2>12. \A i \in Ids : Tells(s, i) => NameIn(s, i) = source'[i]
    BY <2>6
  <2>13. \A i \in Ids : source[i] <= source'[i] /\ (i \in history'.owed => source'[i] = source[i])
    BY <2>4
  <2>14. s \in Request /\ s.served /\ s.op = wire[n].op
    BY <2>2, <2>5
  <2> QED
    BY <1>0, <2>1, <2>7, <2>8, <2>9, <2>10, <2>11, <2>12, <2>13, <2>14, ServedKeeps
<1> QED
  BY <1>1, <1>2, <1>3 DEF Serve

-----------------------------------------------------------------------------
(* How a request that leaves keeps the parts of the invariant *)

\* An answer that stays was there before, and of what is before and behind.
LEMMA ThinnedTells ==
  ASSUME Typed, NEW p \in DOMAIN wire, Thinned(p)
  PROVE  /\ \A j \in DOMAIN wire' : Back(j, p) \in DOMAIN wire /\ Back(j, p) # p
              /\ wire'[j] = wire[Back(j, p)] /\ wire'[j] \in Request
         /\ \A n \in DOMAIN wire : n # p => \E j \in DOMAIN wire' : Back(j, p) = n
         /\ \A j \in DOMAIN wire' : \A m \in 1..(j - 1) :
              m \in DOMAIN wire' /\ Back(m, p) \in 1..(Back(j, p) - 1)
         /\ \A j, k \in DOMAIN wire' : j >= k => Back(j, p) >= Back(k, p)
         /\ \A k \in DOMAIN wire : k >= 1
<1>1. /\ DOMAIN wire = 1..Len(wire) /\ Len(wire) \in Nat /\ wire \in Seq(Request)
      /\ DOMAIN wire' = 1..(Len(wire) - 1) /\ p \in Nat
  BY ThinnedIs DEF Typed
<1>2. \A j \in DOMAIN wire' : \A m \in 1..(j - 1) :
        m \in DOMAIN wire' /\ Back(m, p) \in 1..(Back(j, p) - 1)
  BY <1>1 DEF Back
<1>3. \A j, k \in DOMAIN wire' : j >= k => Back(j, p) >= Back(k, p)
  BY <1>1 DEF Back
<1>4. \A j \in DOMAIN wire' : Back(j, p) \in DOMAIN wire /\ Back(j, p) # p
         /\ wire'[j] = wire[Back(j, p)] /\ wire'[j] \in Request
  BY <1>1, ThinnedIs
<1>5. \A n \in DOMAIN wire : n # p => \E j \in DOMAIN wire' : Back(j, p) = n
  BY <1>1, ThinnedIs
<1> QED
  BY <1>1, <1>2, <1>3, <1>4, <1>5

\* Apart, when a request leaves.
LEMMA ApartThins ==
  ASSUME Typed, Apart, NEW p \in DOMAIN wire, Thinned(p), storage' = storage, SessionsApart',
         store'.user = store.user, store'.session = store.session,
         store'.gateway = store.gateway,
         store.user = 0 \/ (store.session # 0 /\ store.gateway = 0) => store'.held = store.held,
         store.gateway = 0 => history'.owed \subseteq history.owed
  PROVE  Apart'
<1>0. \A n \in DOMAIN wire' : Back(n, p) \in DOMAIN wire /\ wire'[n] = wire[Back(n, p)]
  BY ThinnedTells
<1>1. \A n \in Logins' : Back(n, p) \in Logins
  BY <1>0 DEF Logins
<1>2. \A m, n \in Logins' : m = n
  <2> SUFFICES ASSUME NEW m \in Logins', NEW n \in Logins' PROVE m = n
    OBVIOUS
  <2>1. Back(m, p) = Back(n, p) /\ Back(m, p) # p /\ Back(n, p) # p
    BY <1>1, ThinnedTells DEF Apart, Logins
  <2>2. m \in DOMAIN wire' /\ n \in DOMAIN wire' /\ DOMAIN wire' = 1..(Len(wire) - 1)
    BY ThinnedIs DEF Logins, Typed
  <2>3. m \in Int /\ n \in Int /\ p \in Int /\ Len(wire) \in Int
    BY <2>2 DEF Typed
  <2> QED
    BY <2>1, <2>3 DEF Back
<1>3. ASSUME NEW n \in DOMAIN wire', wire'[n].op = "change"
      PROVE  OwnChange(n)'
  <2>1. OwnChange(Back(n, p))
    BY <1>0, <1>3 DEF Apart
  <2>2. \A m \in 1..(n - 1) : Back(m, p) \in 1..(Back(n, p) - 1) /\ wire'[m] = wire[Back(m, p)]
    BY ThinnedTells
  <2> QED
    BY <1>0, <2>1, <2>2 DEF OwnChange
<1>4. (/\ store.user = 0 =>
            store.session = 0 /\ store.held = <<>> /\ \A n \in DOMAIN wire : wire[n].op = "login"
       /\ store.gateway = 0 => history.owed = {}
       /\ store.session # 0 /\ store.gateway = 0 =>
            store.held = <<>> /\ \A n \in DOMAIN wire : wire[n].op # "change")'
  BY <1>0 DEF Apart
<1>5. (/\ store.session = 0 => store.gateway = 0
       /\ storage = "instant" =>
            store.gateway = store.session /\ (store.gateway = 0 => store.user = 0)
       /\ storage = "persistent" /\ Logins # {} => store.session = 0)'
  BY <1>1 DEF Apart
<1> QED
  BY <1>2, <1>3, <1>4, <1>5 DEF Apart

\* The answer of q names i so, or an earlier one of its load does.
Says(q, i, v) == (Tells(q, i) /\ v = NameIn(q, i)) \/ (Knows(q, i) /\ v = q.names[i])

\* What the first request says is a name, and not newer than any other answer's.
LEMMA SaysIs ==
  ASSUME Typed, Ordered, 1 \in DOMAIN wire, NEW i \in Ids, NEW v, Says(wire[1], i, v)
  PROVE  /\ v \in Nat \ {0} /\ v <= source[i]
         /\ \A n \in DOMAIN wire : Tells(wire[n], i) => v <= NameIn(wire[n], i)
<1>1. wire[1] \in Request /\ \A n \in DOMAIN wire : 1 \in 1..n
  BY DEF Typed
<1>2. CASE Tells(wire[1], i) /\ v = NameIn(wire[1], i)
  <2>1. v \in Nat
    BY <1>1, <1>2, ToldIs
  <2> QED
    BY <1>1, <1>2, <2>1 DEF Ordered
<1>3. CASE Knows(wire[1], i) /\ v = wire[1].names[i]
  <2>1. v \in Nat
    BY <1>1, <1>3, ToldIs
  <2> QED
    BY <1>3, <2>1 DEF Ordered
<1> QED
  BY <1>2, <1>3 DEF Says

\* Forward, when a request leaves whose names may be shown and stored if it is the first.
LEMMA ForwardThins ==
  ASSUME Typed, Ordered, Forward, NEW p \in DOMAIN wire, Thinned(p),
         UNCHANGED <<source, storage>>,
         store'.user = store.user, store'.gateway = store.gateway,
         \A i \in Ids :
           \/ store'.entry[i].name \in {0, store.entry[i].name}
           \/ p = 1 /\ Says(wire[1], i, store'.entry[i].name),
         \A u \in Users : \A i \in Ids :
           \/ rows'[u][i].name = rows[u][i].name
           \/ p = 1 /\ Says(wire[1], i, rows'[u][i].name),
         storage = "persistent" /\ store.gateway # 0 =>
           \A i \in Ids : store'.entry[i].name <= rows'[store.user][i].name \/ i \in history'.ahead
  PROVE  Forward'
<1>1. /\ \A i \in Ids : store.entry[i].name \in Nat /\ source[i] \in Nat
      /\ \A n \in DOMAIN wire : \A i \in Ids : Tells(wire[n], i) => NameIn(wire[n], i) \in Nat
  <2>1. \A n \in DOMAIN wire : wire[n] \in Request
    BY DEF Typed
  <2> QED
    BY <2>1, StoreIs, ToldIs
<1>2. \A j \in DOMAIN wire' : Back(j, p) \in DOMAIN wire /\ wire'[j] = wire[Back(j, p)]
  BY ThinnedTells
<1>3. ASSUME NEW i \in Ids
      PROVE  /\ store'.entry[i].name <= source[i]
             /\ \A n \in DOMAIN wire' :
                  Tells(wire'[n], i) => store'.entry[i].name <= NameIn(wire'[n], i)
  <2>1. CASE store'.entry[i].name \in {0, store.entry[i].name}
    BY <1>1, <1>2, <2>1 DEF Forward
  <2>2. CASE p = 1 /\ Says(wire[1], i, store'.entry[i].name)
    BY <1>2, <2>2, SaysIs
  <2> QED
    BY <2>1, <2>2
<1>4. ASSUME NEW u \in Users, NEW i \in Ids
      PROVE  /\ rows'[u][i].name <= source[i]
             /\ \A n \in DOMAIN wire' :
                  Tells(wire'[n], i) => rows'[u][i].name <= NameIn(wire'[n], i)
  <2>1. CASE rows'[u][i].name = rows[u][i].name
    BY <1>1, <1>2, <2>1 DEF Forward
  <2>2. CASE p = 1 /\ Says(wire[1], i, rows'[u][i].name)
    BY <1>2, <2>2, SaysIs
  <2> QED
    BY <2>1, <2>2
<1> QED
  BY <1>3, <1>4 DEF Forward

\* Named, when a request leaves: an id that is held and for whose name it asked has it
\* now, or has failed to load.
LEMMA NamedThins ==
  ASSUME Typed, Named, NEW p \in DOMAIN wire, Thinned(p), store'.gateway = store.gateway,
         \A i \in Ids : store.gateway # 0 /\ i \in ToSet(store'.held) =>
           \/ store'.entry[i].name # 0 \/ i \in history'.lost \/ i \in ToSet(store'.pending)
           \/ /\ Holds(store, i) /\ store'.entry[i].name = store.entry[i].name
              /\ i \in history.lost => i \in history'.lost
              /\ i \in ToSet(store.pending) => i \in ToSet(store'.pending)
              /\ ~Asks(p, i)
  PROVE  Named'
<1>1. ASSUME NEW n \in DOMAIN wire, NEW i, n # p, Asks(n, i)
      PROVE  \E j \in DOMAIN wire' : Asks(j, i)'
  <2>1. PICK j \in DOMAIN wire' : Back(j, p) = n
    BY <1>1, ThinnedTells
  <2>2. wire'[j] = wire[n]
    BY <2>1, ThinnedTells
  <2> QED
    BY <1>1, <2>1, <2>2 DEF Asks, FromOwn
<1> SUFFICES ASSUME NEW i \in Ids, i \in ToSet(store'.held), store.gateway # 0,
                    ~(store'.entry[i].name # 0 \/ i \in history'.lost \/ i \in ToSet(store'.pending))
             PROVE  \E j \in DOMAIN wire' : Asks(j, i)'
  BY DEF Named, Holds
<1>2. PICK n \in DOMAIN wire : Asks(n, i) /\ n # p
  BY DEF Named
<1> QED
  BY <1>1, <1>2

\* An owed id stays so when a request leaves that does not ask for it, or when it is
\* told and its name is shown and stored.
LEMMA OwedThins ==
  ASSUME Typed, Ordered, NEW p \in DOMAIN wire, Thinned(p), UNCHANGED <<storage, source>>,
         store'.gateway = store.gateway, store'.user = store.user,
         store.forced \subseteq store'.forced, store.timer => store'.timer,
         ToSet(store.pending) \subseteq ToSet(store'.pending),
         NEW i \in Ids, Due(i) \/ Coming(i) \/ Arrived(i),
         \/ /\ ~Asks(p, i)
            /\ i \in ToSet(store'.held) =>
                 \/ Holds(store, i) /\ store'.entry[i].name = store.entry[i].name
                 \/ i \in ToSet(store'.pending) /\ store'.timer
                 \/ p = 1 /\ Tells(wire[1], i) /\ store'.entry[i].name = NameIn(wire[1], i)
            /\ storage = "persistent" => rows'[store.user][i].name = rows[store.user][i].name
         \/ /\ p = 1
            /\ \E v : /\ Says(wire[1], i, v) /\ (Knows(wire[1], i) => v = source[i])
                     /\ (i \in ToSet(store'.held) => store'.entry[i].name = v)
                     /\ (storage = "persistent" => rows'[store.user][i].name = v)
  PROVE  (Due(i) \/ Coming(i) \/ Arrived(i))'
<1>0. /\ \A j \in DOMAIN wire' : Back(j, p) \in DOMAIN wire /\ wire'[j] = wire[Back(j, p)]
      /\ \A n \in DOMAIN wire : n >= 1
  BY ThinnedTells
<1>1. TrueFrom(1, i) => TrueFrom(1, i)'
  BY <1>0 DEF TrueFrom
<1>2. CASE Due(i)
  BY <1>2 DEF Due
<1>3. ASSUME p = 1, TrueFrom(1, i)
      PROVE  /\ Tells(wire[1], i) => NameIn(wire[1], i) = source[i]
             /\ \A v : Says(wire[1], i, v) /\ (Knows(wire[1], i) => v = source[i]) => v = source[i]
  <2>1. 1 \in DOMAIN wire /\ 1 >= 1
    BY <1>3
  <2> QED
    BY <1>3, <2>1 DEF TrueFrom, Says
<1>4. CASE Arrived(i)
  <2>1. TrueFrom(1, i)' /\ TrueFrom(1, i)
    BY <1>1, <1>4 DEF Arrived
  <2>2. i \in ToSet(store'.held) =>
          store'.entry[i].name = source[i] \/ (i \in ToSet(store'.pending) /\ store'.timer)
    BY <1>3, <1>4, <2>1 DEF Arrived
  <2>3. storage = "persistent" => rows'[store.user][i].name = source[i]
    BY <1>3, <1>4, <2>1 DEF Arrived
  <2> QED
    BY <2>1, <2>2, <2>3 DEF Arrived, Holds
<1>5. CASE Coming(i)
  <2>1. PICK n \in DOMAIN wire : /\ Asks(n, i) /\ TrueFrom(n, i)
                                 /\ Knows(wire[n], i) => wire[n].names[i] = source[i]
    BY <1>5 DEF Coming
  <2>2. CASE n # p
    <3>1. PICK j \in DOMAIN wire' : Back(j, p) = n /\ wire'[j] = wire[n]
      BY <2>2, ThinnedTells
    <3>2. \A k \in DOMAIN wire' : k >= j => Back(k, p) >= n
      BY <3>1, ThinnedTells
    <3>3. TrueFrom(j, i)'
      BY <1>0, <2>1, <3>2 DEF TrueFrom
    <3>4. Asks(j, i)'
      BY <2>1, <3>1 DEF Asks, FromOwn
    <3> QED
      BY <2>1, <3>1, <3>3, <3>4 DEF Coming
  <2>3. CASE n = p
    <3>1. p = 1 /\ TrueFrom(1, i)
      BY <2>1, <2>3
    <3>2. PICK v : /\ Says(wire[1], i, v) /\ (Knows(wire[1], i) => v = source[i])
                   /\ (i \in ToSet(store'.held) => store'.entry[i].name = v)
                   /\ (storage = "persistent" => rows'[store.user][i].name = v)
      BY <2>1, <2>3
    <3>3. v = source[i] /\ TrueFrom(1, i)'
      BY <1>1, <1>3, <3>1, <3>2
    <3> QED
      BY <3>2, <3>3 DEF Arrived, Holds
  <2> QED
    BY <2>2, <2>3
<1> QED
  BY <1>2, <1>4, <1>5

-----------------------------------------------------------------------------
(* Answers and failures *)

\* A request leaves without effect: what it asked for has failed to load.
LEMMA GoneKeeps ==
  ASSUME CacheOK, NEW p \in DOMAIN wire, Thinned(p), used' \in Nat,
         UNCHANGED <<storage, size, store, source, rows>>, history' \in History,
         history'.ahead = history.ahead, history.lost \subseteq history'.lost,
         history'.owed \subseteq history.owed,
         \A i \in Ids : Asks(p, i) => i \in history'.lost /\ i \notin history'.owed
  PROVE  CacheOK'
<1> USE DEF CacheOK
<1>1. Typed'
  BY TypedAfter DEF Typed, Thinned
<1>2. Apart'
  <2>1. SessionsApart'
    BY DEF Apart, SessionsApart
  <2> QED
    BY <2>1, ApartThins
<1>3. Ordered'
  BY OrderedThins DEF Typed
<1>4. Forward'
  <2>1. storage = "persistent" /\ store.gateway # 0 =>
          \A i \in Ids : store'.entry[i].name <= rows'[store.user][i].name \/ i \in history'.ahead
    BY DEF Forward
  <2> QED
    BY <2>1, ForwardThins
<1>5. Named'
  BY NamedThins DEF Holds
<1>6. Owed'
  <2> SUFFICES ASSUME NEW i \in history'.owed
               PROVE  (Due(i) \/ Coming(i) \/ Arrived(i))'
    BY DEF Owed
  <2>1. i \in Ids /\ (Due(i) \/ Coming(i) \/ Arrived(i)) /\ ~Asks(p, i)
    BY StoreIs DEF Owed
  <2> QED
    BY <2>1, OwedThins DEF Holds
<1> QED
  BY <1>1, <1>2, <1>3, <1>4, <1>5, <1>6

\* What is lost is not owed.
LEMMA LoseIs ==
  ASSUME Typed, NEW S \in SUBSET Ids, history' = Lose(history, S)
  PROVE  /\ history' \in History /\ history'.ahead = history.ahead
         /\ history'.lost = history.lost \cup S /\ history'.owed = history.owed \ S
BY DEF Lose, Typed, History

\* A request fails.
LEMMA RequestFailsKeeps ==
  ASSUME CacheOK, NEW n \in DOMAIN wire, RequestFails(n)
  PROVE  CacheOK'
<1>1. /\ UNCHANGED <<storage, size, store, source, rows>> /\ used' \in Nat
      /\ history' = IF wire[n].op = "fetch" /\ FromOwn(wire[n])
                    THEN Lose(history, wire[n].need) ELSE history
  BY DEF RequestFails, Happens, FromOwn, CacheOK, Typed
<1>2. Thinned(n)
  BY RemoveThins DEF RequestFails, CacheOK, Typed
<1>3. CASE wire[n].op = "fetch" /\ FromOwn(wire[n])
  <2>1. wire[n].need \in SUBSET Ids
    BY <1>3, RequestIs DEF CacheOK, Typed
  <2>2. /\ history' \in History /\ history'.ahead = history.ahead
        /\ history'.lost = history.lost \cup wire[n].need
        /\ history'.owed = history.owed \ wire[n].need
    BY <1>1, <1>3, <2>1, LoseIs DEF CacheOK
  <2> QED
    BY <1>1, <1>2, <2>2, GoneKeeps DEF Asks
<1>4. CASE ~(wire[n].op = "fetch" /\ FromOwn(wire[n]))
  <2>1. history' = history /\ history' \in History
    BY <1>1, <1>4 DEF CacheOK, Typed
  <2> QED
    BY <1>1, <1>2, <1>4, <2>1, GoneKeeps DEF Asks
<1> QED
  BY <1>3, <1>4

\* The answer that is read.
LEMMA HeadIs ==
  ASSUME CacheOK, Answered
  PROVE  /\ 1 \in DOMAIN wire /\ Head(wire) = wire[1] /\ wire[1] \in Request
         /\ wire[1].served /\ UNCHANGED <<storage, size, source>>
         /\ wire' = Tail(wire) => Thinned(1)
<1>1. wire \in Seq(Request) /\ wire # <<>> /\ Head(wire).served
      /\ UNCHANGED <<storage, size, source>>
  BY DEF Answered, CacheOK, Typed
<1>2. 1 \in DOMAIN wire /\ Head(wire) = wire[1] /\ wire[1] \in Request
  BY <1>1
<1> QED
  BY <1>1, <1>2, TailThins

\* What the last answer of a load tells is what its requests were told.
LEMMA FetchTells ==
  ASSUME NEW q \in Request, q.op = "fetch", q.served, Left(q) = {}
  PROVE  /\ q.need \in SUBSET Ids /\ Told(q) \in [q.need -> Row] /\ q.ids \in Seq(Ids)
         /\ ToSet(q.ids) \cap q.need = q.need
         /\ \A i \in q.need : Says(q, i, Told(q)[i].name) /\ Told(q)[i].expired = FALSE
<1>1. /\ q.need \in SUBSET Ids /\ q.need \subseteq ToSet(q.ids) /\ q.ids \in Seq(Ids)
      /\ q.names \in [DOMAIN q.names -> Nat] /\ q.asked \subseteq DOMAIN q.names
  BY RequestIs
<1>2. q.need \subseteq DOMAIN q.names
  BY <1>1 DEF Left
<1>3. Told(q) \in [q.need -> Row]
  BY <1>1, <1>2 DEF Told, Row
<1>4. \A i \in q.need : Told(q)[i].name = q.names[i] /\ Told(q)[i].expired = FALSE
  BY DEF Told
<1>5. \A i \in q.need : i \in q.asked \/ i \in Waited(q)
  BY <1>2 DEF Waited
<1> QED
  BY <1>1, <1>3, <1>4, <1>5 DEF Says, Tells, Knows, NameIn

\* The answer is shown, and stored in a persistent client.
LEMMA ShownKeeps ==
  ASSUME CacheOK, Answered, wire' = Tail(wire), wire[1].op = "fetch", Left(wire[1]) = {},
         FromOwn(wire[1]),
         store' = ShowAll(store, wire[1].ids, Told(wire[1])),
         rows' = IF storage = "instant" THEN rows ELSE Stored(wire[1]),
         history' = [history EXCEPT !.owed = @ \ Overtaken(wire[1]),
                                    !.lost = @ \ wire[1].need, !.ahead = @ \ wire[1].need],
         UNCHANGED used
  PROVE  CacheOK'
<1> USE DEF CacheOK
<1> DEFINE q == wire[1]
           A == q.need
           infos == Told(q)
<1>0. /\ 1 \in DOMAIN wire /\ Thinned(1) /\ q \in Request /\ q.served
      /\ UNCHANGED <<storage, size, source>>
  BY HeadIs
<1>1. /\ A \in SUBSET Ids /\ infos \in [A -> Row] /\ ToSet(q.ids) \cap A = A /\ q.ids \in Seq(Ids)
      /\ \A i \in A : Says(q, i, infos[i].name)
  BY <1>0, FetchTells
<1>2. \A i \in A : Says(wire[1], i, infos[i].name)
  BY <1>1
<1>3. IsStore(store') /\ ShowsOf(store, store', A, infos)
  <2> HIDE DEF q, infos, A
  <2>1. store' = ShowAll(store, q.ids, infos) /\ size \in Sizes /\ IsStore(store)
    BY DEF q, infos, Typed
  <2> QED
    BY <1>1, <2>1, ShowAllDoes
<1>4. /\ store'.pending = store.pending /\ store'.forced = store.forced
      /\ store'.timer = store.timer /\ store'.user = store.user
      /\ store'.session = store.session /\ store'.gateway = store.gateway
  BY <1>3 DEF ShowsOf, OnlyShown
<1>5. \A i \in Ids : i \in ToSet(store'.held) =>
        IF i \in A
        THEN store'.entry[i].name = infos[i].name /\ store'.entry[i].remark \in {0, store.entry[i].remark}
        ELSE Holds(store, i) /\ store'.entry[i] = store.entry[i]
  BY <1>1, <1>3 DEF ShowsOf, Holds
<1>6. \A i \in Ids : i \notin ToSet(store'.held) => store'.entry[i] = Absent
  BY <1>3 DEF IsStore, Holds
<1>7. /\ history' \in History /\ history'.owed = history.owed \ Overtaken(q)
      /\ history'.lost = history.lost \ A
      /\ history'.ahead = history.ahead \ A
  BY DEF Typed, History
<1>8. q.gateway = store.gateway
  BY DEF FromOwn
<1>9. store.gateway # 0 /\ store.user \in Users
  <2>1. store.gateway # 0
    BY <1>0, <1>8, RequestIs
  <2> QED
    BY <2>1, StoreIs DEF Apart
<1>10. /\ rows' \in [Users -> [Ids -> Row]]
       /\ storage = "instant" => rows' = rows
       /\ storage = "persistent" => \A i \in Ids :
            rows'[store.user][i].name =
              IF i \in A THEN infos[i].name ELSE rows[store.user][i].name
       /\ \A u \in Users : \A i \in Ids :
            rows'[u][i].name = rows[u][i].name \/ (i \in A /\ rows'[u][i].name = infos[i].name)
  <2>1. CASE storage = "instant"
    BY <2>1 DEF Typed
  <2>2. CASE storage # "instant"
    <3> DEFINE row == [i \in Ids |-> IF i \in A THEN infos[i] ELSE rows[store.user][i]]
    <3>1. storage = "persistent" /\ store.user \in Users
      BY <1>9, <2>2, DisplayCacheAssumption DEF Typed
    <3>2. rows' = [rows EXCEPT ![store.user] = row] /\ rows \in [Users -> [Ids -> Row]]
      BY <2>2 DEF Stored, Typed
    <3>3. row \in [Ids -> Row] /\ \A i \in Ids : row[i] = IF i \in A THEN infos[i] ELSE rows[store.user][i]
      BY <1>1, <3>1, <3>2
    <3> HIDE DEF row, A, infos, q
    <3>4. rows' \in [Users -> [Ids -> Row]] /\ rows'[store.user] = row
          /\ \A u \in Users : u # store.user => rows'[u] = rows[u]
      BY <3>1, <3>2, <3>3
    <3> QED
      BY <1>1, <2>2, <3>1, <3>3, <3>4
  <2> QED
    BY <2>1, <2>2
<1>11. \A i \in A : infos[i].name # 0 /\ infos[i].name \in Nat
  BY <1>0, <1>1, <1>2, SaysIs
<1>12. Absent.name = 0 /\ Absent.remark = 0
  BY DEF Absent
<1> HIDE DEF A, infos
<1>13. Typed'
  <2>1. IsQueue(store') /\ Timed(store')
    BY <1>4 DEF Typed, IsQueue, Timed
  <2> QED
    BY <1>0, <1>3, <1>7, <1>10, <2>1, TypedAfter DEF Typed, Thinned
<1>14. Apart'
  <2>1. SessionsApart'
    <3> SUFFICES ASSUME NEW i \in Ids PROVE store'.entry[i].remark \in {0, store.user}
      BY <1>4 DEF SessionsApart
    <3>1. store.entry[i].remark \in {0, store.user}
      BY DEF Apart, SessionsApart
    <3>2. CASE i \in ToSet(store'.held)
      BY <1>5, <3>1, <3>2
    <3>3. CASE i \notin ToSet(store'.held)
      BY <1>6, <1>12, <3>3
    <3> QED
      BY <3>2, <3>3
  <2>2. ~(store.user = 0 \/ (store.session # 0 /\ store.gateway = 0))
    BY <1>9, StoreIs
  <2> QED
    BY <1>0, <1>4, <1>9, <2>1, <2>2, ApartThins
<1>15. Ordered'
  BY <1>0, OrderedThins DEF Typed
<1>16. Forward'
  <2>1. ASSUME NEW i \in Ids
        PROVE  \/ store'.entry[i].name \in {0, store.entry[i].name} /\ (i \in ToSet(store'.held) => i \notin A)
               \/ i \in A /\ store'.entry[i].name = infos[i].name
    <3>1. CASE i \in ToSet(store'.held)
      BY <1>5, <3>1
    <3>2. CASE i \notin ToSet(store'.held)
      BY <1>6, <1>12, <3>2
    <3> QED
      BY <3>1, <3>2
  <2>2. ASSUME storage = "persistent", store.gateway # 0, NEW i \in Ids
        PROVE  store'.entry[i].name <= rows'[store.user][i].name \/ i \in history'.ahead
    <3>0. store.user \in Users /\ rows'[store.user][i].name \in Nat
      BY <1>9, <1>10, <2>2 DEF Row
    <3>1. CASE i \in ToSet(store'.held) /\ i \in A
      BY <1>5, <1>10, <1>11, <2>2, <3>1
    <3>2. CASE i \in ToSet(store'.held) /\ i \notin A
      BY <1>5, <1>7, <1>10, <2>2, <3>2 DEF Forward
    <3>3. CASE i \notin ToSet(store'.held)
      BY <1>6, <1>12, <3>0, <3>3
    <3> QED
      BY <3>1, <3>2, <3>3
  <2>3. \A i \in Ids :
           \/ store'.entry[i].name \in {0, store.entry[i].name}
           \/ 1 = 1 /\ Says(wire[1], i, store'.entry[i].name)
    BY <1>2, <2>1
  <2>4. \A u \in Users : \A i \in Ids :
           \/ rows'[u][i].name = rows[u][i].name
           \/ 1 = 1 /\ Says(wire[1], i, rows'[u][i].name)
    BY <1>2, <1>10
  <2> QED
    BY <1>0, <1>4, <2>2, <2>3, <2>4, ForwardThins
<1>17. Named'
  <2>1. \A i \in Ids : i \in ToSet(store'.held) =>
           \/ store'.entry[i].name # 0
           \/ /\ Holds(store, i) /\ store'.entry[i].name = store.entry[i].name
              /\ i \in history.lost => i \in history'.lost
              /\ ~Asks(1, i)
    BY <1>5, <1>7, <1>11 DEF Asks, A
  <2> QED
    BY <1>0, <1>4, <2>1, NamedThins
<1>18. Owed'
  <2> SUFFICES ASSUME NEW i \in history.owed, i \notin Overtaken(q)
               PROVE  (Due(i) \/ Coming(i) \/ Arrived(i))'
    BY <1>7 DEF Owed
  <2>1. i \in Ids /\ (Due(i) \/ Coming(i) \/ Arrived(i))
    BY StoreIs DEF Owed
  <2>2. CASE i \in A
    <3> DEFINE v == infos[i].name
    <3>1. Says(wire[1], i, v)
      BY <1>2, <2>2
    <3>2. Knows(wire[1], i) => v = source[i]
      BY <3>1 DEF Overtaken, Knows, Says, Tells, Waited
    <3>3. i \in ToSet(store'.held) => store'.entry[i].name = v
      BY <1>5, <2>1, <2>2
    <3>4. storage = "persistent" => rows'[store.user][i].name = v
      BY <1>10, <2>1, <2>2
    <3> HIDE DEF v
    <3>5. \E w : /\ Says(wire[1], i, w) /\ (Knows(wire[1], i) => w = source[i])
                /\ (i \in ToSet(store'.held) => store'.entry[i].name = w)
                /\ (storage = "persistent" => rows'[store.user][i].name = w)
      BY <3>1, <3>2, <3>3, <3>4
    <3> QED
      BY <1>0, <1>4, <2>1, <3>5, OwedThins
  <2>3. CASE i \notin A
    <3>1. /\ ~Asks(1, i)
          /\ i \in ToSet(store'.held) => Holds(store, i) /\ store'.entry[i].name = store.entry[i].name
          /\ storage = "persistent" => rows'[store.user][i].name = rows[store.user][i].name
      BY <1>5, <1>10, <2>1, <2>3 DEF Asks, A
    <3> QED
      BY <1>0, <1>4, <2>1, <3>1, OwedThins
  <2> QED
    BY <2>2, <2>3
<1> QED
  BY <1>13, <1>14, <1>15, <1>16, <1>17, <1>18

\* What the client's own change does to its store.
LEMMA WriteDoes ==
  ASSUME Typed, NEW i \in Ids, NEW field \in Fields, NEW value,
         IF field = "name" THEN value \in Nat ELSE value \in Users \cup {0}
  PROVE  LET threw == Read(store, <<i>>, FALSE).threw
             t == WriteThrough(store, i, field, value)
         IN
         /\ IsStore(t) /\ IsQueue(t) /\ Timed(t)
         /\ t.user = store.user /\ t.session = store.session /\ t.gateway = store.gateway
         /\ ToSet(store.pending) \subseteq ToSet(t.pending) /\ store.forced \subseteq t.forced
         /\ store.timer => t.timer
         /\ \A j \in Ids : j \in ToSet(t.held) =>
              IF threw \/ j # i THEN Holds(store, j) /\ t.entry[j] = store.entry[j]
              ELSE IF field = "name"
              THEN t.entry[j].name = value /\ t.entry[j].remark = store.entry[j].remark
              ELSE t.entry[j].name = store.entry[j].name /\ t.entry[j].remark = value
         /\ ~threw /\ ~Holds(store, i) =>
              i \in ToSet(t.pending) /\ (store.gateway # 0 => t.timer)
<1> DEFINE r == Read(store, <<i>>, FALSE)
           s == r.st
           e == [s.entry[i] EXCEPT !.expired = FALSE]
           d == [e EXCEPT ![field] = value]
           t == WriteThrough(store, i, field, value)
<1>0. t = IF r.threw THEN s ELSE Put(s, i, d)
  BY DEF WriteThrough
<1>1. <<i>> \in Seq(Ids) /\ ToSet(<<i>>) = {i}
  BY DEF ToSet
<1>2. /\ r.threw \in BOOLEAN /\ IsStore(s) /\ IsQueue(s) /\ OnlyQueued(store, s)
      /\ r.threw => s.timer = store.timer
      /\ ~r.threw =>
           /\ s.timer = (store.timer \/ (s.pending # <<>> /\ store.gateway # 0))
           /\ \A j \in ToSet(<<i>>) : Lacks(store, j, FALSE) =>
                j \in ToSet(s.pending) /\ (FALSE => j \in s.forced)
  <2>1. FALSE \in BOOLEAN
    OBVIOUS
  <2> HIDE DEF r
  <2> QED
    BY <1>1, <2>1, ReadDoes DEF Typed, r
<1> HIDE DEF r
<1>3. /\ s.held = store.held /\ s.entry = store.entry /\ s.user = store.user
      /\ s.session = store.session /\ s.gateway = store.gateway /\ ToSet(store.pending) \subseteq ToSet(s.pending)
      /\ store.forced \subseteq s.forced
  BY <1>2 DEF OnlyQueued
<1>4. s.pending \in Seq(Ids) /\ store.pending \in Seq(Ids) /\ s.timer \in BOOLEAN
      /\ store.timer \in BOOLEAN
  BY <1>2 DEF Typed, IsStore, Client
<1>5. store.timer => s.timer
  BY <1>2
<1>6. Timed(s)
  <2>1. store.pending # <<>> => s.pending # <<>>
    BY <1>3, <1>4, ToSetEmpty
  <2> QED
    BY <1>2, <1>3, <2>1 DEF Typed, Timed
<1>7. CASE r.threw
  <2>1. t = s
    BY <1>0, <1>7
  <2>2. \A j \in Ids : j \in ToSet(s.held) => Holds(store, j) /\ s.entry[j] = store.entry[j]
    BY <1>3 DEF Holds
  <2> HIDE DEF s, t
  <2> QED
    BY <1>2, <1>3, <1>5, <1>6, <1>7, <2>1, <2>2 DEF r, t
<1>8. CASE ~r.threw
  <2>1. s.entry[i] \in Entry /\ store.entry[i] \in Entry
    BY <1>3, StoreIs
  <2>2. e \in Entry /\ e.name = store.entry[i].name /\ e.remark = store.entry[i].remark
    BY <1>3, <2>1 DEF Entry
  <2> HIDE DEF e
  <2>3. /\ d \in Entry
        /\ IF field = "name" THEN d.name = value /\ d.remark = store.entry[i].remark
           ELSE d.name = store.entry[i].name /\ d.remark = value
    <3>1. CASE field = "name"
      <4>1. d = [e EXCEPT !.name = value]
        BY <3>1
      <4> QED
        BY <2>2, <3>1, <4>1 DEF Entry
    <3>2. CASE field # "name"
      <4>1. field = "remark" /\ value \in Users \cup {0}
        BY <3>2 DEF Fields
      <4>2. d = [e EXCEPT !.remark = value]
        BY <4>1
      <4> QED
        BY <2>2, <3>2, <4>1, <4>2 DEF Entry
    <3> QED
      BY <3>1, <3>2
  <2> HIDE DEF d, s
  <2>4. t = Put(s, i, d)
    BY <1>0, <1>8
  <2>5. /\ IsStore(t) /\ OnlyShown(s, t)
        /\ \A j \in Ids : j \in ToSet(t.held) =>
             IF j = i THEN t.entry[j] = d ELSE Holds(s, j) /\ t.entry[j] = s.entry[j]
    BY <1>2, <2>3, <2>4, PutDoes DEF Typed, Holds
  <2> HIDE DEF t
  <2>6. IsQueue(t) /\ Timed(t)
    BY <1>2, <1>6, <2>5 DEF IsQueue, Timed, OnlyShown
  <2>7. /\ t.user = store.user /\ t.session = store.session /\ t.gateway = store.gateway
        /\ ToSet(store.pending) \subseteq ToSet(t.pending) /\ store.forced \subseteq t.forced
        /\ store.timer => t.timer
    BY <1>3, <1>5, <2>5 DEF OnlyShown
  <2>8. \A j \in Ids : j \in ToSet(t.held) =>
          IF j # i THEN Holds(store, j) /\ t.entry[j] = store.entry[j]
          ELSE IF field = "name"
          THEN t.entry[j].name = value /\ t.entry[j].remark = store.entry[j].remark
          ELSE t.entry[j].name = store.entry[j].name /\ t.entry[j].remark = value
    BY <1>3, <2>3, <2>5 DEF Holds
  <2>9. ASSUME ~Holds(store, i)
        PROVE  i \in ToSet(t.pending) /\ (store.gateway # 0 => t.timer)
    <3>1. i \in ToSet(s.pending)
      BY <1>1, <1>2, <1>8, <2>9 DEF Lacks
    <3>2. s.pending # <<>>
      BY <1>4, <3>1, ToSetEmpty
    <3>3. store.gateway # 0 => s.timer
      BY <1>2, <1>8, <3>2
    <3> QED
      BY <2>5, <3>1, <3>3 DEF OnlyShown
  <2> QED
    BY <1>8, <2>5, <2>6, <2>7, <2>8, <2>9 DEF r, t
<1> QED
  BY <1>2, <1>7, <1>8

\* What is on the wire when a change is confirmed.
LEMMA ChangeIs ==
  ASSUME CacheOK, 1 \in DOMAIN wire, wire[1].op = "change", wire[1].served
  PROVE  /\ store.user # 0 /\ ~(store.session # 0 /\ store.gateway = 0)
         /\ storage = "instant" => store.gateway # 0
         /\ wire[1].id \in Ids /\ wire[1].field \in Fields
         /\ IF wire[1].field = "name"
            THEN /\ wire[1].value \in Nat \ {0} /\ Tells(wire[1], wire[1].id)
                 /\ NameIn(wire[1], wire[1].id) = wire[1].value
            ELSE wire[1].value \in {0, store.user} /\ wire[1].field = "remark"
         /\ \A i : Tells(wire[1], i) => wire[1].field = "name" /\ i = wire[1].id
<1> DEFINE q == wire[1]
<1>1. q \in Request
  BY DEF CacheOK, Typed
<1>2. q.id \in Ids /\ q.field \in Fields /\ q.value \in Nat
  BY <1>1, RequestIs
<1>3. /\ store.user # 0 /\ ~(store.session # 0 /\ store.gateway = 0)
      /\ storage = "instant" => store.gateway # 0
  BY DEF CacheOK, Apart
<1>4. CASE q.field = "name"
  <2>1. Tells(q, q.id) /\ NameIn(q, q.id) = q.value
    BY <1>4 DEF Tells, NameIn
  <2>2. q.value # 0
    BY <1>2, <2>1 DEF CacheOK, Ordered
  <2> QED
    BY <1>2, <1>3, <1>4, <2>1, <2>2 DEF Tells
<1>5. CASE q.field = "remark"
  BY <1>2, <1>3, <1>5 DEF CacheOK, Apart, OwnChange, Tells
<1> QED
  BY <1>2, <1>4, <1>5 DEF Fields

\* An own change is confirmed.
LEMMA ConfirmedKeeps ==
  ASSUME CacheOK, Answered, wire' = Tail(wire), wire[1].op = "change", Confirmed(wire[1])
  PROVE  CacheOK'
<1> USE DEF CacheOK
<1> DEFINE q == wire[1]
           i == q.id
           threw == Read(store, <<i>>, FALSE).threw
<1>0. /\ 1 \in DOMAIN wire /\ Thinned(1) /\ q \in Request /\ q.served
      /\ UNCHANGED <<storage, size, source>>
  BY HeadIs
<1>1. /\ store.user # 0 /\ ~(store.session # 0 /\ store.gateway = 0)
      /\ storage = "instant" => store.gateway # 0
      /\ i \in Ids /\ q.field \in Fields
      /\ IF q.field = "name"
         THEN q.value \in Nat \ {0} /\ Tells(q, i) /\ NameIn(q, i) = q.value
         ELSE q.value \in {0, store.user} /\ q.field = "remark"
      /\ \A j : Tells(q, j) => q.field = "name" /\ j = i
  BY <1>0, ChangeIs
<1>2. /\ store' = WriteThrough(store, i, q.field, q.value) /\ UNCHANGED <<rows, used>>
      /\ history' =
           IF q.field = "remark" \/ threw THEN history
           ELSE IF storage = "persistent" THEN [history EXCEPT !.ahead = @ \cup {i}]
           ELSE [history EXCEPT !.owed =
                   IF q.value = source[i] /\ (\A n \in 2..Len(wire) :
                        wire[n].op # "change" \/ wire[n].id # i \/ wire[n].field # "name")
                   THEN @ \cup {i} ELSE @]
  BY DEF Confirmed
<1>3. /\ IsStore(store') /\ IsQueue(store') /\ Timed(store')
      /\ store'.user = store.user /\ store'.session = store.session
      /\ store'.gateway = store.gateway
      /\ ToSet(store.pending) \subseteq ToSet(store'.pending) /\ store.forced \subseteq store'.forced
      /\ store.timer => store'.timer
      /\ \A j \in Ids : j \in ToSet(store'.held) =>
           IF threw \/ j # i THEN Holds(store, j) /\ store'.entry[j] = store.entry[j]
           ELSE IF q.field = "name"
           THEN store'.entry[j].name = q.value /\ store'.entry[j].remark = store.entry[j].remark
           ELSE store'.entry[j].name = store.entry[j].name /\ store'.entry[j].remark = q.value
      /\ ~threw /\ ~Holds(store, i) =>
           i \in ToSet(store'.pending) /\ (store.gateway # 0 => store'.timer)
  <2>1. IF q.field = "name" THEN q.value \in Nat ELSE q.value \in Users \cup {0}
    BY <1>1, StoreIs
  <2> DEFINE t == WriteThrough(store, i, q.field, q.value)
  <2>2. /\ IsStore(t) /\ IsQueue(t) /\ Timed(t)
        /\ t.user = store.user /\ t.session = store.session /\ t.gateway = store.gateway
        /\ ToSet(store.pending) \subseteq ToSet(t.pending) /\ store.forced \subseteq t.forced
        /\ store.timer => t.timer
        /\ \A j \in Ids : j \in ToSet(t.held) =>
             IF threw \/ j # i THEN Holds(store, j) /\ t.entry[j] = store.entry[j]
             ELSE IF q.field = "name"
             THEN t.entry[j].name = q.value /\ t.entry[j].remark = store.entry[j].remark
             ELSE t.entry[j].name = store.entry[j].name /\ t.entry[j].remark = q.value
        /\ ~threw /\ ~Holds(store, i) =>
             i \in ToSet(t.pending) /\ (store.gateway # 0 => t.timer)
    <3> HIDE DEF q
    <3> QED
      BY <1>1, <2>1, WriteDoes
  <2> HIDE DEF t, threw, q
  <2>3. store' = t
    BY <1>2 DEF t
  <2> QED
    BY <2>2, <2>3
<1>4. /\ history' \in History /\ history'.lost = history.lost
      /\ history.ahead \subseteq history'.ahead
      /\ storage = "persistent" /\ q.field = "name" /\ ~threw => i \in history'.ahead
      /\ history'.owed = history.owed
           \/ /\ history'.owed = history.owed \cup {i} /\ storage # "persistent"
              /\ q.field = "name" /\ ~threw /\ q.value = source[i]
  <2> HIDE DEF q, threw
  <2>1. history \in History /\ i \in Ids /\ q.field \in Fields
    BY <1>1 DEF Typed
  <2>2. CASE q.field = "remark" \/ threw
    BY <1>2, <2>1, <2>2
  <2>3. CASE ~(q.field = "remark" \/ threw)
    <3>1. q.field = "name"
      BY <2>1, <2>3 DEF Fields
    <3> QED
      BY <1>2, <2>1, <2>3, <3>1 DEF History
  <2> QED
    BY <2>2, <2>3
<1>5. \A j \in Ids : j \notin ToSet(store'.held) => store'.entry[j].name = 0 /\ store'.entry[j].remark = 0
  BY <1>3 DEF IsStore, Holds, Absent
<1>6. \A j : ~Asks(1, j)
  BY DEF Asks
<1> HIDE DEF threw
<1>7. Typed'
  BY <1>0, <1>2, <1>3, <1>4, TypedAfter DEF Typed, Thinned
<1>8. Apart'
  <2>1. SessionsApart'
    <3> SUFFICES ASSUME NEW j \in Ids PROVE store'.entry[j].remark \in {0, store.user}
      BY <1>3 DEF SessionsApart
    <3>1. store.entry[j].remark \in {0, store.user}
      BY DEF Apart, SessionsApart
    <3>2. CASE j \in ToSet(store'.held)
      BY <1>1, <1>3, <3>1, <3>2
    <3>3. CASE j \notin ToSet(store'.held)
      BY <1>5, <3>3
    <3> QED
      BY <3>2, <3>3
  <2>2. store.gateway = 0 => history'.owed \subseteq history.owed
    <3>1. storage = "persistent" \/ store.gateway # 0
      BY <1>1, DisplayCacheAssumption DEF Typed
    <3> QED
      BY <1>4, <3>1
  <2> QED
    BY <1>0, <1>1, <1>3, <2>1, <2>2, ApartThins
<1>9. Ordered'
  BY <1>0, OrderedThins DEF Typed
<1>10. ASSUME NEW j \in Ids
       PROVE  \/ store'.entry[j].name \in {0, store.entry[j].name}
              \/ /\ j = i /\ q.field = "name" /\ ~threw
                 /\ Tells(wire[1], j) /\ store'.entry[j].name = NameIn(wire[1], j)
  <2>1. CASE j \in ToSet(store'.held)
    BY <1>1, <1>3, <2>1
  <2>2. CASE j \notin ToSet(store'.held)
    BY <1>5, <2>2
  <2> QED
    BY <2>1, <2>2
<1>11. Forward'
  <2>1. ASSUME storage = "persistent", store.gateway # 0, NEW j \in Ids
        PROVE  store'.entry[j].name <= rows'[store.user][j].name \/ j \in history'.ahead
    <3>1. rows[store.user][j].name \in Nat /\ rows' = rows
      <4>1. store.user \in Users
        BY <1>1, StoreIs
      <4> QED
        BY <1>2, <4>1, StoreIs
    <3>2. CASE store'.entry[j].name \in {0, store.entry[j].name}
      BY <1>4, <2>1, <3>1, <3>2 DEF Forward
    <3>3. CASE j = i /\ q.field = "name" /\ ~threw
      BY <1>4, <2>1, <3>3
    <3> QED
      BY <1>10, <3>2, <3>3
  <2>2. \A j \in Ids :
           \/ store'.entry[j].name \in {0, store.entry[j].name}
           \/ 1 = 1 /\ Says(wire[1], j, store'.entry[j].name)
    BY <1>10 DEF Says
  <2> QED
    BY <1>0, <1>2, <1>3, <2>1, <2>2, ForwardThins
<1>12. Named'
  <2> SUFFICES ASSUME NEW j \in Ids, j \in ToSet(store'.held)
               PROVE  \/ store'.entry[j].name # 0 \/ j \in history'.lost \/ j \in ToSet(store'.pending)
                      \/ Holds(store, j) /\ store'.entry[j].name = store.entry[j].name
    BY <1>0, <1>3, <1>4, <1>6, NamedThins
  <2>1. CASE threw \/ j # i
    BY <1>3, <2>1
  <2>2. CASE ~(threw \/ j # i)
    BY <1>1, <1>3, <2>2
  <2> QED
    BY <2>1, <2>2
<1>13. Owed'
  <2> SUFFICES ASSUME NEW j \in history'.owed
               PROVE  (Due(j) \/ Coming(j) \/ Arrived(j))'
    BY DEF Owed
  <2>1. CASE j \in history.owed
    <3>1. j \in Ids /\ (Due(j) \/ Coming(j) \/ Arrived(j)) /\ store.gateway # 0
      BY <2>1, StoreIs DEF Owed, Apart
    <3>2. j \in ToSet(store'.held) =>
            \/ Holds(store, j) /\ store'.entry[j].name = store.entry[j].name
            \/ j \in ToSet(store'.pending) /\ store'.timer
            \/ Tells(wire[1], j) /\ store'.entry[j].name = NameIn(wire[1], j)
      <4>1. CASE threw \/ j # i
        BY <1>3, <3>1, <4>1
      <4>2. CASE ~(threw \/ j # i)
        BY <1>1, <1>3, <3>1, <4>2
      <4> QED
        BY <4>1, <4>2
    <3> QED
      BY <1>0, <1>2, <1>3, <1>6, <3>1, <3>2, OwedThins
  <2>2. CASE j \notin history.owed
    <3>1. j = i /\ storage # "persistent" /\ q.field = "name" /\ ~threw /\ q.value = source[i]
      BY <1>4, <2>2
    <3>2. Tells(q, i) /\ NameIn(q, i) = source[i]
      BY <1>1, <3>1
    <3>3. ASSUME NEW m \in DOMAIN wire', Tells(wire'[m], i)
          PROVE  NameIn(wire'[m], i) = source[i]
      <4> DEFINE k == Back(m, 1)
      <4>1. k \in DOMAIN wire /\ wire'[m] = wire[k] /\ k >= 1 /\ k \in Nat
        BY <1>0, ThinnedTells DEF Typed
      <4> HIDE DEF k
      <4>2. 1 \in 1..k /\ wire[k] \in Request
        BY <4>1 DEF Typed
      <4>3. NameIn(wire[k], i) <= source[i] /\ NameIn(q, i) <= NameIn(wire[k], i)
        BY <1>1, <3>2, <3>3, <4>1, <4>2 DEF Ordered
      <4>4. NameIn(wire[k], i) \in Nat /\ source[i] \in Nat
        BY <1>1, <3>3, <4>1, <4>2, ToldIs, StoreIs
      <4> QED
        BY <3>2, <4>1, <4>3, <4>4
    <3>4. TrueFrom(1, j)'
      BY <1>0, <3>1, <3>3 DEF TrueFrom
    <3>5. j \in ToSet(store'.held) => store'.entry[j].name = source[j]
      BY <1>1, <1>3, <3>1
    <3> QED
      BY <1>0, <3>1, <3>4, <3>5 DEF Arrived, Holds
  <2> QED
    BY <2>1, <2>2
<1> QED
  BY <1>7, <1>8, <1>9, <1>11, <1>12, <1>13

\* A load is answered: by nobody's gateway any more, shown, or lost.
LEMMA RefreshKeeps ==
  ASSUME CacheOK, Answered, wire' = Tail(wire), wire[1].op = "fetch", Left(wire[1]) = {},
         Refresh(wire[1])
  PROVE  CacheOK'
<1> DEFINE q == wire[1]
<1>0. /\ 1 \in DOMAIN wire /\ Thinned(1) /\ q \in Request /\ q.served
      /\ UNCHANGED <<storage, size, source>> /\ q.need \in SUBSET Ids
  BY HeadIs, FetchTells
<1>1. CASE ~FromOwn(q) /\ UNCHANGED <<store, rows, history, used>>
  <2>1. history' \in History /\ used' \in Nat
    BY <1>1 DEF CacheOK, Typed
  <2> QED
    BY <1>0, <1>1, <2>1, GoneKeeps DEF Asks
<1>2. CASE /\ FromOwn(q) /\ (storage = "persistent" => store.opened)
           /\ store' = ShowAll(store, q.ids, Told(q))
           /\ rows' = IF storage = "instant" THEN rows ELSE Stored(q)
           /\ history' = [history EXCEPT !.owed = @ \ Overtaken(q),
                                         !.lost = @ \ q.need, !.ahead = @ \ q.need]
           /\ UNCHANGED used
  BY <1>2, ShownKeeps
<1>3. CASE /\ FromOwn(q) /\ storage = "persistent"
           /\ IF store.opened THEN Happens ELSE UNCHANGED used
           /\ history' = Lose(history, q.need)
           /\ UNCHANGED <<store, rows>>
  <2>1. /\ history' \in History /\ history'.ahead = history.ahead
        /\ history'.lost = history.lost \cup q.need /\ history'.owed = history.owed \ q.need
    BY <1>0, <1>3, LoseIs DEF CacheOK
  <2>2. used' \in Nat
    BY <1>3 DEF Happens, CacheOK, Typed
  <2> QED
    BY <1>0, <1>3, <2>1, <2>2, GoneKeeps DEF Asks
<1> QED
  BY <1>1, <1>2, <1>3 DEF Refresh

\* A login is answered: it was the only one, and no change is behind it.
LEMMA SessionStartsKeeps ==
  ASSUME CacheOK, Answered, wire' = Tail(wire), wire[1].op = "login", SessionStarts(wire[1])
  PROVE  CacheOK'
<1> USE DEF CacheOK
<1> DEFINE q == wire[1]
           gateway == IF storage = "instant" THEN q.session ELSE 0
<1>0. /\ 1 \in DOMAIN wire /\ Thinned(1) /\ q \in Request /\ UNCHANGED <<storage, size, source>>
  BY HeadIs
<1>1. q.user \in Users /\ q.session \in Nat \ {0} /\ 1 \in Logins
  BY <1>0, RequestIs DEF Logins
<1>2. /\ store' = Cleared(q.user, q.session, gateway) /\ history' = NoHistory
      /\ UNCHANGED <<rows, used>>
  BY DEF SessionStarts, StartSession
<1>3. ASSUME NEW j \in DOMAIN wire'
      PROVE  wire'[j].op = "fetch" /\ \E m \in DOMAIN wire : wire'[j] = wire[m]
  <2> DEFINE k == Back(j, 1)
  <2>1. k \in DOMAIN wire /\ k # 1 /\ wire'[j] = wire[k] /\ k \in Nat /\ k >= 1
    <3>1. \A n \in DOMAIN wire : n \in Nat
      BY DEF Typed
    <3> QED
      BY <1>0, <3>1, ThinnedTells
  <2> HIDE DEF k
  <2>2. wire[k].op # "login"
    BY <1>1, <2>1 DEF Logins, Apart
  <2>3. wire[k].op # "change"
    <3>1. 1 \in 1..(k - 1)
      BY <2>1
    <3> QED
      BY <2>1, <3>1 DEF Apart, OwnChange
  <2>4. wire[k] \in Request
    BY <2>1 DEF Typed
  <2> QED
    BY <2>1, <2>2, <2>3, <2>4, RequestIs
<1>4. Ordered' /\ wire' \in Seq(Request) /\ used' \in Nat
  BY <1>0, <1>2, OrderedThins DEF Typed, Thinned
<1>5. /\ gateway \in Nat /\ q.user # 0 /\ q.user \in Users \cup {0}
      /\ q.session \in Nat /\ q.session # 0
      /\ storage = "instant" => gateway = q.session
  BY <1>1, StoreIs
<1> HIDE DEF gateway, q
<1> QED
  BY <1>0, <1>2, <1>3, <1>4, <1>5, ClearedKeeps

\* The next request of a load is sent in place of the one that is answered.
LEMMA NextIs ==
  ASSUME CacheOK, Answered, wire[1].op = "fetch", wire' = Append(Tail(wire), NextFetch(wire[1]))
  PROVE  LET z == NextFetch(wire[1])
             L == Len(wire)
         IN
         /\ L \in Nat \ {0} /\ DOMAIN wire = 1..L /\ DOMAIN wire' = 1..L
         /\ wire' \in Seq(Request)
         /\ \A j \in 1..L : IF j = L THEN wire'[j] = z ELSE wire'[j] = wire[j + 1]
         /\ ~z.served /\ z.op = "fetch" /\ z.gateway = wire[1].gateway /\ z.need = wire[1].need
         /\ \A i : Knows(z, i) => Says(wire[1], i, z.names[i])
<1> DEFINE q == wire[1]
           z == NextFetch(q)
           L == Len(wire)
<1>1. /\ L \in Nat \ {0} /\ DOMAIN wire = 1..L /\ q \in Request /\ q.served
      /\ Tail(wire) \in Seq(Request) /\ Len(Tail(wire)) = L - 1
      /\ \A j \in 1..(L - 1) : Tail(wire)[j] = wire[j + 1]
  <2>1. wire \in Seq(Request) /\ wire # <<>>
    BY DEF Answered, CacheOK, Typed
  <2>2. q \in Request /\ q.served
    BY HeadIs
  <2> QED
    BY <2>1, <2>2
<1>2. /\ q \in FetchRequest /\ q.need \subseteq Ids /\ q.asked \subseteq q.need
      /\ DOMAIN q.names \subseteq q.need /\ q.asked \subseteq DOMAIN q.names /\ q.ids \in Seq(Ids)
  BY <1>1, RequestIs
<1>3. Slice(q.ids, Left(q)) \subseteq Left(q)
  BY <1>2, SliceIs
<1>4. /\ z.served = FALSE /\ z.op = "fetch" /\ z.gateway = q.gateway /\ z.need = q.need
      /\ z.asked = Slice(q.ids, Left(q)) /\ z.names = q.names /\ z.ids = q.ids
      /\ z \in [op : {"fetch"}, served : BOOLEAN, gateway : Nat \ {0}, ids : Seq(Ids),
                need : SUBSET Ids, asked : SUBSET Ids,
                names : UNION {[S -> Nat] : S \in SUBSET Ids}]
  <2>1. Slice(q.ids, Left(q)) \in SUBSET Ids
    BY <1>2, <1>3 DEF Left
  <2> QED
    BY <1>2, <2>1 DEF NextFetch, FetchRequest
<1>5. z \in Request
  <2>1. z.asked \subseteq z.need /\ z.asked \cap DOMAIN z.names = {}
    BY <1>3, <1>4 DEF Left
  <2>2. z.need \subseteq ToSet(z.ids) /\ DOMAIN z.names \subseteq z.need
    BY <1>2, <1>4 DEF FetchRequest
  <2> HIDE DEF z
  <2> QED
    BY <1>4, <2>1, <2>2 DEF Request, FetchRequest
<1>6. \A i : Knows(z, i) => Says(q, i, z.names[i])
  BY <1>1, <1>4 DEF Knows, Waited, Says, Tells, NameIn
<1> HIDE DEF z, L
<1>7. /\ wire' \in Seq(Request) /\ DOMAIN wire' = 1..L
      /\ \A j \in 1..L : IF j = L THEN wire'[j] = z ELSE wire'[j] = wire[j + 1]
  <2>1. wire' = Append(Tail(wire), z)
    BY DEF z
  <2>2. Len(Tail(wire)) + 1 = L /\ \A j \in 1..L : j # L => j \in 1..(L - 1)
    BY <1>1
  <2>3. /\ Append(Tail(wire), z) \in Seq(Request)
        /\ DOMAIN Append(Tail(wire), z) = 1..(Len(Tail(wire)) + 1)
        /\ \A k \in DOMAIN Append(Tail(wire), z) :
             IF k = Len(Tail(wire)) + 1 THEN Append(Tail(wire), z)[k] = z
             ELSE k \in DOMAIN Tail(wire) /\ Append(Tail(wire), z)[k] = Tail(wire)[k]
    BY <1>1, <1>5, AppendIs
  <2> QED
    BY <1>1, <2>1, <2>2, <2>3
<1> QED
  BY <1>1, <1>4, <1>6, <1>7 DEF z, L

\* So nothing that is shown or owed is lost.
LEMMA NextKeeps ==
  ASSUME CacheOK, Answered, wire[1].op = "fetch", wire' = Append(Tail(wire), NextFetch(wire[1])),
         UNCHANGED <<store, rows, history, used>>
  PROVE  CacheOK'
<1> USE DEF CacheOK
<1> DEFINE q == wire[1]
           z == NextFetch(q)
<1>1. UNCHANGED <<storage, size, source>> /\ 1 \in DOMAIN wire /\ q \in Request /\ q.served
  BY HeadIs
<1>2. PICK L \in Nat \ {0} :
      /\ DOMAIN wire = 1..L /\ DOMAIN wire' = 1..L
      /\ wire' \in Seq(Request)
      /\ \A j \in 1..L : IF j = L THEN wire'[j] = z ELSE wire'[j] = wire[j + 1]
      /\ ~z.served /\ z.op = "fetch" /\ z.gateway = q.gateway /\ z.need = q.need
      /\ \A i : Knows(z, i) => Says(q, i, z.names[i])
  BY NextIs
<1> HIDE DEF z
<1>3. /\ \A j \in 1..L : j = L \/ j + 1 \in 1..L
      /\ \A j, k \in 1..L : j < k /\ k # L => j # L /\ j + 1 < k + 1
      /\ \A n \in 1..L : n = 1 \/ (n - 1 \in 1..L /\ n - 1 # L /\ (n - 1) + 1 = n)
      /\ L \in 1..L
  BY <1>2
<1>4. ASSUME NEW j \in DOMAIN wire', NEW i, Tells(wire'[j], i)
      PROVE  j # L /\ j + 1 \in DOMAIN wire /\ wire'[j] = wire[j + 1]
  BY <1>2, <1>3, <1>4 DEF Tells
<1>5. Typed'
  BY <1>1, <1>2, TypedAfter DEF Typed
<1>6. Apart'
  <2>1. \A n \in Logins' : n # L /\ n + 1 \in Logins
    BY <1>2, <1>3 DEF Logins
  <2>2. \A m, n \in Logins' : m = n
    <3> SUFFICES ASSUME NEW m \in Logins', NEW n \in Logins' PROVE m = n
      OBVIOUS
    <3>1. m + 1 = n + 1 /\ m \in 1..L /\ n \in 1..L
      BY <1>2, <2>1 DEF Apart, Logins
    <3> QED
      BY <1>2, <3>1
  <2>3. ASSUME NEW n \in DOMAIN wire', wire'[n].op = "change"
        PROVE  OwnChange(n)'
    <3>1. n # L /\ n + 1 \in DOMAIN wire /\ wire'[n] = wire[n + 1]
      BY <1>2, <1>3, <2>3
    <3>2. OwnChange(n + 1)
      BY <2>3, <3>1 DEF Apart
    <3>3. \A m \in 1..(n - 1) : m + 1 \in 1..((n + 1) - 1) /\ wire'[m] = wire[m + 1]
      BY <1>2, <3>1
    <3> QED
      BY <3>1, <3>2, <3>3 DEF OwnChange
  <2>4. store.user # 0
    BY <1>1 DEF Apart
  <2>5. store.session # 0 /\ store.gateway = 0 =>
          store.held = <<>> /\ \A n \in DOMAIN wire' : wire'[n].op # "change"
    BY <1>2, <1>3 DEF Apart
  <2>6. storage = "persistent" /\ Logins' # {} => store.session = 0
    BY <2>1 DEF Apart
  <2>7. SessionsApart'
    BY DEF Apart, SessionsApart
  <2>8. /\ store.session = 0 => store.gateway = 0
        /\ storage = "instant" =>
             store.gateway = store.session /\ (store.gateway = 0 => store.user = 0)
        /\ store.gateway = 0 => history.owed = {}
    BY DEF Apart
  <2> QED
    BY <1>1, <2>2, <2>3, <2>4, <2>5, <2>6, <2>7, <2>8 DEF Apart
<1>7. Ordered'
  <2>1. ASSUME NEW m \in DOMAIN wire', NEW n \in DOMAIN wire', m < n, wire'[n].served
        PROVE  wire'[m].served
    <3>1. n # L /\ m # L /\ m + 1 < n + 1
      BY <1>2, <1>3, <2>1
    <3> QED
      BY <1>2, <1>3, <2>1, <3>1 DEF Ordered
  <2>2. ASSUME NEW n \in DOMAIN wire', NEW i \in Ids, Tells(wire'[n], i)
        PROVE  /\ NameIn(wire'[n], i) # 0 /\ NameIn(wire'[n], i) <= source[i]
               /\ \A m \in 1..n : Tells(wire'[m], i) => NameIn(wire'[m], i) <= NameIn(wire'[n], i)
    <3>1. n + 1 \in DOMAIN wire /\ wire'[n] = wire[n + 1] /\ n \in 1..L
      BY <1>2, <1>4, <2>2
    <3>2. \A m \in 1..n : m \in DOMAIN wire' /\ m + 1 \in 1..(n + 1)
      BY <1>2, <3>1
    <3>3. \A m \in 1..n : Tells(wire'[m], i) => wire'[m] = wire[m + 1]
      BY <1>4, <3>2
    <3> QED
      BY <2>2, <3>1, <3>2, <3>3 DEF Ordered
  <2>3. ASSUME NEW m \in DOMAIN wire', NEW i \in Ids, Knows(wire'[m], i)
        PROVE  /\ wire'[m].names[i] # 0 /\ wire'[m].names[i] <= source[i]
               /\ \A n \in DOMAIN wire' :
                    Tells(wire'[n], i) => wire'[m].names[i] <= NameIn(wire'[n], i)
    <3>1. CASE m # L
      <4>1. m + 1 \in DOMAIN wire /\ wire'[m] = wire[m + 1]
        BY <1>2, <1>3, <3>1
      <4> QED
        BY <1>4, <2>3, <4>1 DEF Ordered
    <3>2. CASE m = L
      <4>1. Says(wire[1], i, wire'[m].names[i])
        BY <1>2, <2>3, <3>2
      <4> QED
        BY <1>1, <1>4, <4>1, SaysIs
    <3> QED
      BY <3>1, <3>2
  <2> QED
    BY <1>1, <2>1, <2>2, <2>3 DEF Ordered
<1>8. Forward'
  BY <1>1, <1>4 DEF Forward
<1>9. ASSUME NEW n \in DOMAIN wire, NEW i, Asks(n, i)
      PROVE  IF n = 1 THEN Asks(L, i)' ELSE Asks(n - 1, i)'
  BY <1>2, <1>3, <1>9 DEF Asks, FromOwn
<1>10. Named'
  BY <1>2, <1>3, <1>9 DEF Named, Holds
<1>11. ASSUME NEW n \in DOMAIN wire, NEW i, TrueFrom(n, i)
       PROVE  IF n = 1 THEN TrueFrom(1, i)' ELSE TrueFrom(n - 1, i)'
  <2>1. \A m \in DOMAIN wire' : m >= 1 /\ (m >= n - 1 => m + 1 >= n) /\ (n = 1 => m + 1 >= n)
    BY <1>2
  <2>2. \A m \in DOMAIN wire' : m + 1 >= n /\ Tells(wire'[m], i) => NameIn(wire'[m], i) = source[i]
    BY <1>4, <1>11 DEF TrueFrom
  <2> QED
    BY <1>1, <2>1, <2>2 DEF TrueFrom
<1>12. Owed'
  <2> SUFFICES ASSUME NEW i \in history.owed
               PROVE  (Due(i) \/ Coming(i) \/ Arrived(i))'
    BY DEF Owed
  <2>1. i \in Ids /\ (Due(i) \/ Coming(i) \/ Arrived(i))
    BY StoreIs DEF Owed
  <2>2. CASE Due(i)
    BY <2>2 DEF Due
  <2>3. CASE Arrived(i)
    <3>1. TrueFrom(1, i)'
      BY <1>1, <1>11, <2>3 DEF Arrived
    <3> QED
      BY <1>1, <2>3, <3>1 DEF Arrived, Holds
  <2>4. CASE Coming(i)
    <3>1. PICK n \in DOMAIN wire : /\ Asks(n, i) /\ TrueFrom(n, i)
                                   /\ Knows(wire[n], i) => wire[n].names[i] = source[i]
      BY <2>4 DEF Coming
    <3>2. CASE n # 1
      <4>1. Asks(n - 1, i)' /\ TrueFrom(n - 1, i)' /\ n - 1 \in DOMAIN wire'
            /\ wire'[n - 1] = wire[n]
        BY <1>2, <1>3, <1>9, <1>11, <3>1, <3>2
      <4> QED
        BY <1>1, <3>1, <4>1 DEF Coming
    <3>3. CASE n = 1
      <4>1. Asks(L, i)' /\ L \in DOMAIN wire' /\ wire'[L] = z
        BY <1>2, <1>3, <1>9, <3>1, <3>3
      <4>2. TrueFrom(L, i)'
        <5>1. \A m \in DOMAIN wire' : m >= L => m = L
          BY <1>2
        <5> QED
          BY <1>4, <5>1 DEF TrueFrom
      <4>3. Knows(z, i) => z.names[i] = source[i]
        <5>1. Tells(q, i) => NameIn(q, i) = source[i]
          <6>1. 1 >= 1
            OBVIOUS
          <6> QED
            BY <1>1, <3>1, <3>3, <6>1 DEF TrueFrom
        <5> QED
          BY <1>2, <3>1, <3>3, <5>1 DEF Says
      <4> QED
        BY <1>1, <4>1, <4>2, <4>3 DEF Coming
    <3> QED
      BY <3>2, <3>3
  <2> QED
    BY <2>1, <2>2, <2>3, <2>4
<1> QED
  BY <1>5, <1>6, <1>7, <1>8, <1>10, <1>12

\* An answer is read.
LEMMA AnsweredKeeps ==
  ASSUME CacheOK, Answered
  PROVE  CacheOK'
<1>1. Head(wire) = wire[1]
  BY HeadIs
<1>2. CASE /\ wire[1].op = "fetch" /\ wire' = Append(Tail(wire), NextFetch(wire[1]))
           /\ UNCHANGED <<store, rows, history, used>>
  BY <1>2, NextKeeps
<1>3. CASE /\ wire[1].op = "fetch" /\ Left(wire[1]) = {}
           /\ wire' = Tail(wire) /\ Refresh(wire[1])
  BY <1>3, RefreshKeeps
<1>4. CASE wire[1].op = "change" /\ wire' = Tail(wire) /\ Confirmed(wire[1])
  BY <1>4, ConfirmedKeeps
<1>5. CASE wire[1].op = "login" /\ wire' = Tail(wire) /\ SessionStarts(wire[1])
  BY <1>5, SessionStartsKeeps
<1> QED
  BY <1>1, <1>2, <1>3, <1>4, <1>5 DEF Answered

-----------------------------------------------------------------------------
(* The flush *)

\* What a flush shows: rows that have a name, in a persistent client.
LEMMA LocalIs ==
  ASSUME Typed, store.user \in Users, NEW readable
  PROVE  LET infos == LoadLocal(readable)
             S == DOMAIN infos
         IN
         /\ S \in SUBSET Ids /\ infos \in [S -> Row]
         /\ \A i \in S : /\ storage = "persistent" /\ infos[i].name # 0
                         /\ infos[i].name = rows[store.user][i].name
<1> DEFINE found == IF storage = "instant" \/ ~readable THEN {}
                    ELSE {i \in Ids : rows[store.user][i].name # 0}
<1>1. LoadLocal(readable) = [i \in found |-> rows[store.user][i]]
  BY DEF LoadLocal
<1>2. found \in SUBSET Ids /\ \A i \in found :
        storage # "instant" /\ rows[store.user][i].name # 0
  OBVIOUS
<1>3. storage = "instant" \/ storage = "persistent"
  BY DisplayCacheAssumption DEF Typed
<1>4. \A i \in Ids : rows[store.user][i] \in Row
  BY StoreIs
<1> HIDE DEF found
<1> QED
  BY <1>1, <1>2, <1>3, <1>4

\* The step shows the infos of the ids in S that were queued, and asks for those in need.
Flushed(S, infos, need) ==
  /\ S \in SUBSET Ids /\ infos \in [S -> Row] /\ need \in SUBSET ToSet(store.pending)
  /\ \A i \in S : /\ storage = "persistent" /\ infos[i].name # 0
                  /\ infos[i].name = rows[store.user][i].name
  /\ \A i \in ToSet(store.pending) : i \in need \/ (store.forced = {} /\ i \in S)
  /\ IsStore(store') /\ ShowsOf(Drain(store), store', ToSet(store.pending) \cap S, infos)
  /\ Extended
  /\ \A n \in DOMAIN wire' : n \in DOMAIN wire \/ IsLoad(wire'[n], store.gateway, need)
  /\ \A i \in need : \E n \in DOMAIN wire' \ DOMAIN wire : i \in wire'[n].need

\* What a flush does: of the ids that were queued, those with a row are shown, and
\* what is forced or has none is asked for.
LEMMA FlushDoes ==
  ASSUME CacheOK, FlushTimer
  PROVE  \E S, infos, need : Flushed(S, infos, need)
<1> USE DEF CacheOK
<1>1. PICK readable : store' = Flush(readable).st /\ wire' = wire \o Flush(readable).sent
  BY DEF FlushTimer
<1>2. store.gateway \in Nat \ {0} /\ store.user \in Users
  <2>1. store.gateway # 0
    BY DEF FlushTimer
  <2> QED
    BY <2>1, StoreIs DEF Apart
<1> DEFINE infos == LoadLocal(readable)
           S == DOMAIN infos
           P == ToSet(store.pending)
           need == {i \in P : store.forced # {} \/ i \notin S \/ infos[i].expired}
           sent == LoadRemote(store.gateway, store.pending, need)
<1>3. store' = ShowAll(Drain(store), store.pending, infos) /\ wire' = wire \o sent
  BY <1>1 DEF Flush
<1>4. /\ S \in SUBSET Ids /\ infos \in [S -> Row]
      /\ \A i \in S : /\ storage = "persistent" /\ infos[i].name # 0
                      /\ infos[i].name = rows[store.user][i].name
  BY <1>2, LocalIs
<1>5. need \in SUBSET P /\ \A i \in P : i \in need \/ (store.forced = {} /\ i \in S)
  OBVIOUS
<1>6. store.pending \in Seq(Ids) /\ P \subseteq Ids /\ size \in Sizes
  BY StoreIs DEF ToSet, Typed
<1>7. IsStore(Drain(store))
  <2>1. /\ Drain(store) \in Client
        /\ Drain(store).held = store.held /\ Drain(store).entry = store.entry
    <3>1. store \in Client /\ <<>> \in Seq(Ids) /\ {} \in SUBSET Ids /\ FALSE \in BOOLEAN
      BY StoreIs
    <3>2. Drain(store) = [store EXCEPT !.pending = <<>>, !.forced = {}, !.timer = FALSE]
      BY DEF Drain
    <3> QED
      BY <3>1, <3>2 DEF Client
  <2> QED
    BY <2>1 DEF Typed, IsStore, Holds
<1> HIDE DEF infos, need
<1>8. IsStore(store') /\ ShowsOf(Drain(store), store', P \cap S, infos)
  <2> DEFINE T == S
  <2>1. T \in SUBSET Ids /\ infos \in [T -> Row]
    BY <1>4
  <2> HIDE DEF T
  <2>2. IsStore(store') /\ ShowsOf(Drain(store), store', P \cap T, infos)
    BY <1>3, <1>6, <1>7, <2>1, ShowAllDoes
  <2> QED
    BY <2>2 DEF T
<1>9. /\ sent \in Seq(FetchRequest)
      /\ \A k \in DOMAIN sent : IsLoad(sent[k], store.gateway, need)
      /\ \A i \in need : \E k \in DOMAIN sent : i \in sent[k].need
  <2>1. need \in SUBSET Ids /\ need \cap P = need
    BY <1>5, <1>6
  <2> QED
    BY <1>2, <1>6, <2>1, LoadRemoteDoes
<1> HIDE DEF sent
<1>10. /\ wire \in Seq(Request) /\ sent \in Seq(Request)
       /\ DOMAIN sent = 1..Len(sent) /\ Len(sent) \in Nat
       /\ DOMAIN wire = 1..Len(wire) /\ Len(wire) \in Nat
  BY <1>9 DEF Typed, Request
<1>11. /\ wire' \in Seq(Request) /\ DOMAIN wire' = 1..(Len(wire) + Len(sent))
       /\ Len(wire') = Len(wire) + Len(sent)
       /\ \A n \in 1..(Len(wire) + Len(sent)) :
            wire'[n] = IF n <= Len(wire) THEN wire[n] ELSE sent[n - Len(wire)]
  <2>1. /\ wire \o sent \in Seq(Request) /\ Len(wire \o sent) = Len(wire) + Len(sent)
        /\ \A n \in 1..(Len(wire) + Len(sent)) :
             (wire \o sent)[n] = IF n <= Len(wire) THEN wire[n] ELSE sent[n - Len(wire)]
    BY <1>10, ConcatProperties
  <2> QED
    BY <1>3, <2>1
<1>12. \A n \in DOMAIN wire : wire'[n] = wire[n]
  BY <1>10, <1>11
<1>13. \A n \in DOMAIN wire' : n \in DOMAIN wire \/
         (n - Len(wire) \in DOMAIN sent /\ wire'[n] = sent[n - Len(wire)])
  BY <1>10, <1>11
<1>14. \A n \in DOMAIN wire' : n \in DOMAIN wire \/ IsLoad(wire'[n], store.gateway, need)
  BY <1>9, <1>13
<1>15. \A k \in DOMAIN sent :
         Len(wire) + k \in DOMAIN wire' \ DOMAIN wire /\ wire'[Len(wire) + k] = sent[k]
  <2> SUFFICES ASSUME NEW k \in 1..Len(sent)
               PROVE  Len(wire) + k \in DOMAIN wire' \ DOMAIN wire /\ wire'[Len(wire) + k] = sent[k]
    BY <1>10
  <2>1. Len(wire) + k \in 1..(Len(wire) + Len(sent)) /\ ~(Len(wire) + k <= Len(wire))
        /\ (Len(wire) + k) - Len(wire) = k
    BY <1>10
  <2> QED
    BY <1>10, <1>11, <2>1
<1>16. Extended
  <2>1. \A n \in DOMAIN wire' : n \in DOMAIN wire \/ Fresh(wire'[n])
    BY <1>14 DEF IsLoad, Fresh, Knows, Waited
  <2>2. Len(wire) <= Len(wire')
    BY <1>10, <1>11
  <2> QED
    BY <1>11, <1>12, <2>1, <2>2 DEF Extended
<1>17. \A i \in need : \E n \in DOMAIN wire' \ DOMAIN wire : i \in wire'[n].need
  BY <1>9, <1>15
<1>18. Flushed(S, infos, need)
  BY <1>4, <1>5, <1>8, <1>14, <1>16, <1>17 DEF Flushed
<1> QED
  BY <1>18

\* A flush.
LEMMA FlushTimerKeeps ==
  ASSUME CacheOK, FlushTimer
  PROVE  CacheOK'
<1> USE DEF CacheOK
<1> DEFINE P == ToSet(store.pending)
<1>0. PICK S, infos, need : Flushed(S, infos, need)
  BY FlushDoes
<1>1. /\ S \in SUBSET Ids /\ infos \in [S -> Row] /\ need \in SUBSET P
      /\ \A i \in S : /\ storage = "persistent" /\ infos[i].name # 0
                      /\ infos[i].name = rows[store.user][i].name
      /\ \A i \in P : i \in need \/ (store.forced = {} /\ i \in S)
      /\ IsStore(store') /\ ShowsOf(Drain(store), store', P \cap S, infos)
      /\ Extended
      /\ \A n \in DOMAIN wire' : n \in DOMAIN wire \/ IsLoad(wire'[n], store.gateway, need)
      /\ \A i \in need : \E n \in DOMAIN wire' \ DOMAIN wire : i \in wire'[n].need
  BY <1>0 DEF Flushed
<1>2. /\ UNCHANGED <<storage, size, source, rows, history>> /\ used' \in Nat
      /\ store.gateway # 0 /\ store.timer
  <2>1. UNCHANGED used \/ used' = used + 1
    BY DEF FlushTimer, Happens
  <2> QED
    BY <2>1 DEF FlushTimer, Typed
<1>3. store.user \in Users
  BY <1>2, StoreIs DEF Apart
<1>4. /\ Drain(store).held = store.held /\ Drain(store).entry = store.entry
      /\ Drain(store).pending = <<>> /\ Drain(store).forced = {} /\ Drain(store).timer = FALSE
      /\ Drain(store).user = store.user /\ Drain(store).session = store.session
      /\ Drain(store).gateway = store.gateway
      /\ Drain(store).opened = store.opened
  BY StoreIs DEF Drain, Client
<1>5. /\ store'.pending = <<>> /\ store'.forced = {} /\ store'.timer = FALSE
      /\ store'.user = store.user /\ store'.session = store.session
      /\ store'.gateway = store.gateway
  BY <1>1, <1>4 DEF ShowsOf, OnlyShown
<1>6. \A i \in Ids : i \in ToSet(store'.held) =>
        IF i \in P \cap S
        THEN store'.entry[i].name = infos[i].name /\ store'.entry[i].remark \in {0, store.entry[i].remark}
        ELSE Holds(store, i) /\ store'.entry[i] = store.entry[i]
  BY <1>1, <1>4 DEF ShowsOf, Holds
<1>7. \A i \in Ids : i \notin ToSet(store'.held) => store'.entry[i].name = 0 /\ store'.entry[i].remark = 0
  BY <1>1 DEF IsStore, Holds, Absent
<1>8. \A n \in DOMAIN wire' : \A i : Tells(wire'[n], i) => n \in DOMAIN wire /\ wire'[n] = wire[n]
  BY <1>1, ToldBefore
<1>9. \A n \in DOMAIN wire : n \in DOMAIN wire' /\ wire'[n] = wire[n] /\ n \in Nat
  BY <1>1, ExtendedIs DEF Extended, Typed
<1>10. ASSUME NEW i \in need
       PROVE  Coming(i)'
  <2>1. PICK n \in DOMAIN wire' : n \notin DOMAIN wire /\ i \in wire'[n].need
    BY <1>1
  <2>2. IsLoad(wire'[n], store.gateway, need)
    BY <1>1, <2>1
  <2>3. Asks(n, i)'
    BY <1>5, <2>1, <2>2 DEF Asks, FromOwn, IsLoad
  <2>4. \A m \in DOMAIN wire' : m >= n => m \notin DOMAIN wire
    <3>1. \A a \in DOMAIN wire', b \in DOMAIN wire : a < b => a \in DOMAIN wire
      BY <1>1, ExtendedIs DEF Typed
    <3>2. \A m \in DOMAIN wire' : m \in Nat
      BY <1>1 DEF Extended
    <3> QED
      BY <2>1, <3>1, <3>2
  <2>5. TrueFrom(n, i)'
    BY <1>8, <2>4 DEF TrueFrom
  <2>6. ~Knows(wire'[n], i)
    BY <2>2 DEF IsLoad, Knows, Waited
  <2> QED
    BY <2>3, <2>5, <2>6 DEF Coming
<1>11. Typed'
  <2>1. IsQueue(store') /\ Timed(store')
    BY <1>5, SizesAre DEF IsQueue, Timed, Typed
  <2> QED
    BY <1>1, <1>2, <2>1, TypedAfter DEF Typed, Extended
<1>12. Apart'
  <2>1. SessionsApart'
    <3> SUFFICES ASSUME NEW i \in Ids PROVE store'.entry[i].remark \in {0, store.user}
      BY <1>5 DEF SessionsApart
    <3>1. store.entry[i].remark \in {0, store.user}
      BY DEF Apart, SessionsApart
    <3> QED
      BY <1>6, <1>7, <3>1
  <2>2. \A n \in DOMAIN wire' : n \in DOMAIN wire \/ wire'[n].op = "fetch"
    BY <1>1 DEF IsLoad
  <2> QED
    BY <1>1, <1>2, <1>5, <2>1, <2>2, ApartExtends
<1>13. Ordered'
  BY <1>1, <1>2, OrderedExtends DEF Typed
<1>14. \A i \in Ids :
         \/ store'.entry[i].name \in {0, store.entry[i].name}
         \/ storage = "persistent" /\ store'.entry[i].name = rows[store.user][i].name
  BY <1>1, <1>6, <1>7
<1>15. Forward'
  <2>0. \A i \in Ids : store.entry[i].name \in Nat /\ source[i] \in Nat /\ rows[store.user][i].name \in Nat
    BY <1>3, StoreIs
  <2>1. \A i \in Ids : store'.entry[i].name <= source[i]
    BY <1>3, <1>14, <2>0 DEF Forward
  <2>2. ASSUME NEW n \in DOMAIN wire', NEW i \in Ids, Tells(wire'[n], i)
        PROVE  /\ store'.entry[i].name <= NameIn(wire'[n], i)
               /\ \A u \in Users : rows[u][i].name <= NameIn(wire'[n], i)
    <3>1. n \in DOMAIN wire /\ wire'[n] = wire[n]
      BY <1>8, <2>2
    <3>2. NameIn(wire[n], i) \in Nat
      BY <2>2, <3>1, ToldIs DEF Typed
    <3> QED
      BY <1>3, <1>14, <2>0, <2>2, <3>1, <3>2, StoreIs DEF Forward
  <2>3. ASSUME storage = "persistent", store.gateway # 0, NEW i \in Ids
        PROVE  store'.entry[i].name <= rows[store.user][i].name \/ i \in history.ahead
    BY <1>14, <2>0, <2>3 DEF Forward
  <2>4. \A u \in Users : \A i \in Ids : rows[u][i].name <= source[i]
    BY DEF Forward
  <2> QED
    BY <1>2, <1>5, <2>1, <2>2, <2>3, <2>4 DEF Forward
<1>16. Named'
  <2> SUFFICES ASSUME NEW i \in Ids, i \in ToSet(store'.held)
               PROVE  \/ store'.entry[i].name # 0 \/ i \in history.lost
                      \/ \E n \in DOMAIN wire' : Asks(n, i)'
    BY <1>2 DEF Named, Holds
  <2>1. CASE i \in P \cap S
    BY <1>1, <1>6, <2>1
  <2>2. CASE i \in P /\ i \notin S
    BY <1>1, <1>10, <2>2 DEF Coming
  <2>3. CASE i \notin P
    <3>1. Holds(store, i) /\ store'.entry[i] = store.entry[i] /\ store.gateway # 0
      BY <1>2, <1>6, <2>3
    <3>2. \A n \in DOMAIN wire : Asks(n, i) => Asks(n, i)'
      BY <1>5, <1>9 DEF Asks, FromOwn
    <3> QED
      BY <1>9, <2>3, <3>1, <3>2 DEF Named
  <2> QED
    BY <2>1, <2>2, <2>3
<1>17. Owed'
  <2> SUFFICES ASSUME NEW i \in history.owed
               PROVE  (Due(i) \/ Coming(i) \/ Arrived(i))'
    BY <1>2 DEF Owed
  <2>1. i \in Ids /\ (Due(i) \/ Coming(i) \/ Arrived(i))
    BY StoreIs DEF Owed
  <2>2. ASSUME NEW n, TrueFrom(n, i)
        PROVE  TrueFrom(n, i)'
    BY <1>2, <1>8, <2>2 DEF TrueFrom
  <2>3. CASE Due(i)
    <3>1. i \in P /\ store.forced # {}
      BY <2>3, StoreIs DEF Due
    <3> QED
      BY <1>1, <1>10, <3>1
  <2>4. CASE Coming(i)
    <3>1. PICK n \in DOMAIN wire : /\ Asks(n, i) /\ TrueFrom(n, i)
                                   /\ Knows(wire[n], i) => wire[n].names[i] = source[i]
      BY <2>4 DEF Coming
    <3>2. Asks(n, i)' /\ TrueFrom(n, i)' /\ n \in DOMAIN wire'
      BY <1>5, <1>9, <2>2, <3>1 DEF Asks, FromOwn
    <3> QED
      BY <1>2, <1>9, <3>1, <3>2 DEF Coming
  <2>5. CASE Arrived(i)
    <3>1. TrueFrom(1, i)'
      BY <2>2, <2>5 DEF Arrived
    <3>2. CASE i \in need
      BY <1>10, <3>2
    <3>3. CASE i \notin need
      <4>1. i \in ToSet(store'.held) => store'.entry[i].name = source[i]
        <5>1. CASE i \in P
          BY <1>1, <1>6, <2>1, <2>5, <3>3, <5>1 DEF Arrived
        <5>2. CASE i \notin P
          BY <1>6, <2>1, <2>5, <5>2 DEF Arrived
        <5> QED
          BY <5>1, <5>2
      <4> QED
        BY <1>2, <1>5, <2>5, <3>1, <4>1 DEF Arrived, Holds
    <3> QED
      BY <3>2, <3>3
  <2> QED
    BY <2>1, <2>3, <2>4, <2>5
<1> QED
  BY <1>11, <1>12, <1>13, <1>15, <1>16, <1>17

\* A timer that a session left behind, which has failed: nothing is owed.
LEMMA FlushNothingKeeps ==
  ASSUME CacheOK, FlushNothing
  PROVE  CacheOK'
<1> USE DEF CacheOK
<1>0. /\ store.gateway = 0 /\ store' = [store EXCEPT !.timer = FALSE]
      /\ UNCHANGED <<storage, size, wire, source, rows, history, used>>
  BY DEF FlushNothing
<1>1. /\ store'.held = store.held /\ store'.entry = store.entry /\ store'.user = store.user
      /\ store'.session = store.session /\ store'.gateway = store.gateway
      /\ store'.pending = store.pending /\ store'.forced = store.forced
      /\ store'.timer = FALSE /\ store' \in Client
  BY <1>0, StoreIs DEF Client
<1>2. Typed'
  <2>1. IsStore(store') /\ IsQueue(store') /\ Timed(store')
    BY <1>1 DEF Typed, IsStore, IsQueue, Timed, Holds
  <2> QED
    BY <1>0, <2>1, TypedAfter DEF Typed
<1>3. Extended
  BY <1>0, SentNone
<1>4. Apart'
  <2>1. SessionsApart'
    BY <1>1 DEF Apart, SessionsApart
  <2> QED
    BY <1>0, <1>1, <1>3, <2>1, ApartExtends
<1>5. Ordered' /\ Forward' /\ Named'
  BY <1>0, <1>1, <1>3, OrderedExtends, ForwardExtends, NamedExtends DEF Typed
<1>6. Owed'
  BY <1>0 DEF Owed, Apart
<1> QED
  BY <1>2, <1>4, <1>5, <1>6

-----------------------------------------------------------------------------
(* The theorems *)

\* The invariant holds at first.
LEMMA CacheOKInit == CacheInit => CacheOK
<1> SUFFICES ASSUME CacheInit PROVE CacheOK
  OBVIOUS
<1>1. /\ storage \in Storages /\ size \in Sizes /\ wire = <<>> /\ used = 0
      /\ source = [i \in Ids |-> 1] /\ history = NoHistory /\ store = Cleared(0, 0, 0)
      /\ rows = [u \in Users |-> [i \in Ids |-> [name |-> 0, expired |-> TRUE]]]
  BY DEF CacheInit, NoSession
<1>2. /\ store.held = <<>> /\ store.entry = [i \in Ids |-> Absent] /\ store.pending = <<>>
      /\ store.forced = {} /\ store.timer = FALSE /\ store.user = 0 /\ store.session = 0
      /\ store.gateway = 0 /\ store.opened = FALSE
  BY <1>1 DEF Cleared
<1>3. Absent \in Entry /\ Absent.name = 0 /\ Absent.remark = 0
  BY DEF Absent, Entry
<1>4. store \in Client
  BY <1>1, <1>3 DEF Cleared, Client
<1>5. history.owed = {} /\ history \in History
  BY <1>1 DEF NoHistory, History
<1>6. ToSet(<<>>) = {} /\ Len(<<>>) = 0 /\ IsInjective(<<>>) /\ DOMAIN wire = {}
  BY <1>1 DEF ToSet, IsInjective
<1>7. Typed
  <2>1. IsStore(store) /\ IsQueue(store) /\ Timed(store)
    BY <1>1, <1>2, <1>4, <1>6, SizesAre DEF IsStore, IsQueue, Timed
  <2>2. wire \in Seq(Request) /\ source \in [Ids -> Nat \ {0}] /\ used \in Nat
    BY <1>1
  <2>3. rows \in [Users -> [Ids -> Row]]
    BY <1>1 DEF Row
  <2> QED
    BY <1>1, <1>5, <2>1, <2>2, <2>3 DEF Typed
<1>8. Apart
  BY <1>2, <1>3, <1>5, <1>6 DEF Apart, SessionsApart, Logins
<1>9. Ordered
  BY <1>6 DEF Ordered
<1>10. Forward
  <2>1. \A i \in Ids : store.entry[i].name <= source[i]
    BY <1>1, <1>2, <1>3
  <2>2. \A u \in Users : \A i \in Ids : rows[u][i].name <= source[i]
    BY <1>1
  <2> QED
    BY <1>2, <1>6, <2>1, <2>2 DEF Forward
<1>11. Named
  BY <1>2, <1>6 DEF Named, Holds
<1>12. Owed
  BY <1>5 DEF Owed
<1> QED
  BY <1>7, <1>8, <1>9, <1>10, <1>11, <1>12 DEF CacheOK

\* Every step keeps it.
LEMMA CacheOKNext ==
  ASSUME CacheOK, [CacheNext]_cacheVars
  PROVE  CacheOK'
<1>1. ASSUME NEW ids \in Reads, NEW force \in BOOLEAN, GetInfos(ids, force)
      PROVE  CacheOK'
  BY <1>1, GetInfosKeeps
<1>2. CASE FlushTimer
  BY <1>2, FlushTimerKeeps
<1>3. CASE Answered
  BY <1>3, AnsweredKeeps
<1>4. CASE InstallGateway
  BY <1>4, InstallGatewayKeeps
<1>5. CASE OpenDatabase
  BY <1>5, OpenDatabaseKeeps
<1>6. CASE Logout
  BY <1>6, LogoutKeeps
<1>7. CASE TimePasses
  BY <1>7, TimePassesKeeps
<1>8. ASSUME NEW i \in Subjects, ChangedElsewhere(i)
      PROVE  CacheOK'
  BY <1>8, ChangedElsewhereKeeps
<1>9. ASSUME NEW i \in Subjects, NEW field \in Fields, ChangeInfo(i, field)
      PROVE  CacheOK'
  BY <1>9, ChangeInfoKeeps
<1>10. ASSUME NEW u \in Users, Login(u)
       PROVE  CacheOK'
  BY <1>10, LoginKeeps
<1>11. ASSUME NEW n \in DOMAIN wire, Serve(n)
       PROVE  CacheOK'
  BY <1>11, ServeKeeps
<1>12. ASSUME NEW n \in DOMAIN wire, RequestFails(n)
       PROVE  CacheOK'
  BY <1>12, RequestFailsKeeps
<1>13. CASE FlushNothing
  BY <1>13, FlushNothingKeeps
<1>14. CASE StartFails
  BY <1>14, StartFailsKeeps
<1>15. CASE UNCHANGED cacheVars
  BY <1>15 DEF cacheVars, CacheOK, Typed, IsStore, IsQueue, Timed, Holds, Apart, SessionsApart,
     OwnChange, Logins, Ordered, Tells, NameIn, Knows, Waited, Forward, Named, Asks, FromOwn,
     TrueFrom, Due, Coming, Arrived, Owed
<1> QED
  BY <1>1, <1>2, <1>3, <1>4, <1>5, <1>6, <1>7, <1>8, <1>9, <1>10, <1>11, <1>12, <1>13, <1>14, <1>15
     DEF CacheNext

\* It always holds.
THEOREM AlwaysCacheOK == CacheSpec => []CacheOK
<1>1. CacheInit => CacheOK
  BY CacheOKInit
<1>2. CacheOK /\ [CacheNext]_cacheVars => CacheOK'
  BY CacheOKNext
<1> QED
  BY <1>1, <1>2, PTL DEF CacheSpec

\* Cache and queue keep within their bounds, a forced id is queued, and the flush timer
\* runs only for a gateway or behind one whose init has failed.
THEOREM CacheTyped == CacheSpec => []CacheTypeOK
<1>1. CacheOK => CacheTypeOK
  BY StoreIs DEF CacheOK, Typed, IsStore, IsQueue, Timed, CacheTypeOK
<1> QED
  BY <1>1, AlwaysCacheOK, PTL

\* The remarks shown are those of the user who is signed in.
THEOREM AlwaysApart == CacheSpec => []SessionsApart
<1>1. CacheOK => SessionsApart
  BY DEF CacheOK, Apart
<1> QED
  BY <1>1, AlwaysCacheOK, PTL

\* At rest a forced read shows the server's name, but for a load of several requests
\* whose early answer was overtaken by a change.
THEOREM AlwaysFresh == CacheSpec => []ForcedIsFresh
<1>1. CacheOK => ForcedIsFresh
  <2> SUFFICES ASSUME CacheOK, Idle, NEW i \in history.owed, Holds(store, i)
               PROVE  store.entry[i].name = source[i]
    BY DEF ForcedIsFresh
  <2>1. ~Due(i)
    BY DEF Idle, Due
  <2>2. ~Coming(i)
    BY DEF Idle, Coming
  <2> QED
    BY <2>1, <2>2 DEF CacheOK, Owed, Arrived, Idle
<1> QED
  BY <1>1, AlwaysCacheOK, PTL

\* At rest an id without its name has failed to load or is queued.
THEOREM NeverHollow == CacheSpec => []NoHollow
<1>1. CacheOK => NoHollow
  <2> SUFFICES ASSUME CacheOK, Idle, NEW i \in ToSet(store.held)
               PROVE  store.entry[i].name # 0 \/ i \in history.lost \/ i \in ToSet(store.pending)
    BY DEF NoHollow
  <2>1. i \in Ids /\ Holds(store, i)
    BY StoreIs DEF CacheOK, ToSet, Holds
  <2>2. DOMAIN wire = {} /\ store.gateway # 0
    BY DEF Idle
  <2> QED
    BY <2>1, <2>2 DEF CacheOK, Named
<1> QED
  BY <1>1, AlwaysCacheOK, PTL

\* What InfosMoveForward says of a step.
MovesForward ==
  store'.gateway = store.gateway =>
    \A i \in Ids : Holds(store, i) /\ i \in ToSet(store'.held) =>
      /\ \/ store'.entry[i].name >= store.entry[i].name
         \/ i \in history.ahead \/ ShowsLate(i)
      /\ store'.entry[i].remark = store.entry[i].remark \/ Remarked(i) \/ Displaces

\* A step that keeps names and remarks is one.
LEMMA SameMoves ==
  ASSUME CacheOK,
         \A i \in Ids : /\ store'.entry[i].name = store.entry[i].name
                        /\ store'.entry[i].remark = store.entry[i].remark
  PROVE  MovesForward
<1>1. \A i \in Ids : store.entry[i].name >= store.entry[i].name
  BY StoreIs DEF CacheOK
<1> QED
  BY <1>1 DEF MovesForward

\* A flush shows what is stored, which is not older but for an own change.
LEMMA FlushTimerMoves ==
  ASSUME CacheOK, FlushTimer
  PROVE  MovesForward
<1> DEFINE P == ToSet(store.pending)
<1>0. PICK S, infos, need : Flushed(S, infos, need)
  BY FlushDoes
<1>1. /\ S \in SUBSET Ids /\ ShowsOf(Drain(store), store', P \cap S, infos)
      /\ \A i \in S : storage = "persistent" /\ infos[i].name = rows[store.user][i].name
  BY <1>0 DEF Flushed
<1>2. Drain(store).held = store.held /\ Drain(store).entry = store.entry
  BY StoreIs DEF Drain, Client, CacheOK
<1>3. store.user \in Users
  BY StoreIs DEF CacheOK, Apart, FlushTimer
<1>4. SUFFICES ASSUME NEW i \in Ids, Holds(store, i), i \in ToSet(store'.held)
               PROVE  /\ store'.entry[i].name >= store.entry[i].name \/ i \in history.ahead
                      /\ store'.entry[i].remark = store.entry[i].remark \/ Displaces
  BY DEF MovesForward
<1>5. IF i \in P \cap S THEN store'.entry[i].name = infos[i].name
      ELSE store'.entry[i] = store.entry[i]
  BY <1>1, <1>2, <1>4 DEF ShowsOf, Holds
<1>6. store'.entry[i].name >= store.entry[i].name \/ i \in history.ahead
  <2>1. store.entry[i].name \in Nat /\ rows[store.user][i].name \in Nat /\ store.gateway # 0
    BY <1>3, StoreIs DEF CacheOK, FlushTimer
  <2>2. CASE i \in P \cap S
    <3>1. store.entry[i].name <= rows[store.user][i].name \/ i \in history.ahead
      BY <1>1, <2>1, <2>2 DEF CacheOK, Forward
    <3> QED
      BY <1>1, <1>5, <2>1, <2>2, <3>1
  <2>3. CASE i \notin P \cap S
    BY <1>5, <2>1, <2>3
  <2> QED
    BY <2>2, <2>3
<1>7. store'.entry[i].remark = store.entry[i].remark \/ Displaces
  <2>1. CASE ~Overflows(P)
    <3> DEFINE H == ToSet(store.held)
               Q == P \cap S
    <3>1. IsFiniteSet(H) /\ IsFiniteSet(P)
      BY StoreIs, ToSetFinite DEF CacheOK
    <3>2. H \cup Q \in SUBSET (H \cup P) /\ Q \in SUBSET P
      OBVIOUS
    <3>3. size.cache \in Nat /\ Cardinality(H \cup P) \in Nat /\ IsFiniteSet(H \cup P)
      BY <3>1, SizesAre, FS_Union, FS_CardinalityType DEF CacheOK, Typed
    <3>4. Cardinality(H \cup P) <= size.cache
      BY <2>1, <3>3 DEF Overflows
    <3> HIDE DEF H, Q, P
    <3>5. IsFiniteSet(Q) /\ Cardinality(H \cup Q) <= Cardinality(H \cup P)
          /\ Cardinality(H \cup Q) \in Nat
      BY <3>1, <3>2, <3>3, FS_Subset, FS_CardinalityType
    <3>6. Cardinality(H \cup Q) <= size.cache
      BY <3>3, <3>4, <3>5
    <3>7. \A j \in H : store'.entry[j].remark = store.entry[j].remark
      BY <1>1, <1>2, <3>5, <3>6 DEF ShowsOf, H, Q
    <3> QED
      BY <1>4, <3>7 DEF Holds, H
  <2>2. CASE Overflows(P)
    BY <2>2 DEF Displaces
  <2> QED
    BY <2>1, <2>2
<1> QED
  BY <1>6, <1>7

\* A load that was not overtaken is not older than what is shown.
LEMMA RefreshMoves ==
  ASSUME CacheOK, Answered, wire[1].op = "fetch", Left(wire[1]) = {}, Refresh(wire[1])
  PROVE  MovesForward
<1> DEFINE q == wire[1]
           A == q.need
           infos == Told(q)
<1>0. 1 \in DOMAIN wire /\ q \in Request /\ q.served /\ Head(wire) = q
  BY HeadIs
<1>1. /\ A \in SUBSET Ids /\ infos \in [A -> Row] /\ ToSet(q.ids) \cap A = A /\ q.ids \in Seq(Ids)
      /\ \A i \in A : Says(q, i, infos[i].name)
  BY <1>0, FetchTells
<1>2. CASE UNCHANGED store
  BY <1>2, SameMoves
<1>3. CASE store' = ShowAll(store, q.ids, infos)
  <2>1. ShowsOf(store, store', A, infos)
    <3>1. A \in SUBSET Ids /\ infos \in [A -> Row] /\ ToSet(q.ids) \cap A = A /\ q.ids \in Seq(Ids)
      BY <1>1
    <3>2. size \in Sizes /\ IsStore(store)
      BY DEF CacheOK, Typed
    <3> HIDE DEF q, infos, A
    <3> QED
      BY <1>3, <3>1, <3>2, ShowAllDoes
  <2>2. SUFFICES ASSUME NEW i \in Ids, Holds(store, i), i \in ToSet(store'.held)
                 PROVE  /\ store'.entry[i].name >= store.entry[i].name \/ ShowsLate(i)
                        /\ store'.entry[i].remark = store.entry[i].remark \/ Displaces
    BY DEF MovesForward
  <2>3. store.entry[i].name \in Nat /\ source[i] \in Nat
    BY StoreIs DEF CacheOK
  <2>4. store'.entry[i].name >= store.entry[i].name \/ ShowsLate(i)
    <3>1. CASE i \in A
      <4>1. Says(q, i, store'.entry[i].name)
        BY <1>1, <2>1, <2>2, <3>1 DEF ShowsOf, Holds
      <4>2. CASE Tells(q, i) /\ store'.entry[i].name = NameIn(q, i)
        <5>1. store.entry[i].name <= NameIn(q, i) /\ NameIn(q, i) \in Nat
          BY <1>0, <4>2, ToldIs DEF CacheOK, Forward
        <5> QED
          BY <2>3, <4>2, <5>1
      <4>3. CASE Knows(q, i) /\ store'.entry[i].name = q.names[i]
        <5>1. CASE q.names[i] # source[i]
          BY <1>0, <4>3, <5>1 DEF ShowsLate, Overtaken, Knows
        <5>2. CASE q.names[i] = source[i]
          <6>1. store.entry[i].name <= source[i]
            BY DEF CacheOK, Forward
          <6> QED
            BY <2>3, <4>3, <5>2, <6>1
        <5> QED
          BY <5>1, <5>2
      <4> QED
        BY <4>1, <4>2, <4>3 DEF Says
    <3>2. CASE i \notin A
      <4>1. store'.entry[i] = store.entry[i]
        BY <2>1, <2>2, <3>2 DEF ShowsOf, Holds
      <4> QED
        BY <2>3, <4>1
    <3> QED
      BY <3>1, <3>2
  <2>5. store'.entry[i].remark = store.entry[i].remark \/ Displaces
    <3>1. CASE ~Overflows(A)
      <4> DEFINE H == ToSet(store.held)
      <4>1. IsFiniteSet(H) /\ IsFiniteSet(ToSet(q.ids)) /\ A \in SUBSET ToSet(q.ids)
        BY <1>1, StoreIs, ToSetFinite DEF CacheOK
      <4> HIDE DEF q, A, H
      <4>2. IsFiniteSet(A)
        BY <4>1, FS_Subset
      <4>3. size.cache \in Nat /\ Cardinality(H \cup A) \in Nat
        BY <4>1, <4>2, SizesAre, FS_Union, FS_CardinalityType DEF CacheOK, Typed
      <4>4. Cardinality(H \cup A) <= size.cache
        BY <3>1, <4>3 DEF Overflows, H
      <4>5. \A j \in H : store'.entry[j].remark = store.entry[j].remark
        BY <2>1, <4>2, <4>4 DEF ShowsOf, H
      <4> QED
        BY <2>2, <4>5 DEF Holds, H
    <3>2. CASE Overflows(A)
      BY <1>0, <3>2 DEF Displaces
    <3> QED
      BY <3>1, <3>2
  <2> QED
    BY <2>4, <2>5
<1> QED
  BY <1>2, <1>3 DEF Refresh

\* So is an own change that is confirmed; its remark is its own.
LEMMA ConfirmedMoves ==
  ASSUME CacheOK, Answered, wire' = Tail(wire), wire[1].op = "change", Confirmed(wire[1])
  PROVE  MovesForward
<1> DEFINE q == wire[1]
           threw == Read(store, <<q.id>>, FALSE).threw
<1>0. 1 \in DOMAIN wire /\ q \in Request /\ q.served /\ Head(wire) = q /\ wire' = Tail(wire)
      /\ wire # <<>>
  BY HeadIs DEF Answered
<1>1. /\ store.user # 0 /\ q.id \in Ids /\ q.field \in Fields
      /\ IF q.field = "name"
         THEN q.value \in Nat \ {0} /\ Tells(q, q.id) /\ NameIn(q, q.id) = q.value
         ELSE q.value \in {0, store.user} /\ q.field = "remark"
  BY <1>0, ChangeIs
<1> DEFINE t == WriteThrough(store, q.id, q.field, q.value)
<1>2. /\ IsStore(t) /\ IsQueue(t) /\ Timed(t)
      /\ t.user = store.user /\ t.session = store.session /\ t.gateway = store.gateway
      /\ ToSet(store.pending) \subseteq ToSet(t.pending) /\ store.forced \subseteq t.forced
      /\ store.timer => t.timer
      /\ \A j \in Ids : j \in ToSet(t.held) =>
           IF threw \/ j # q.id THEN Holds(store, j) /\ t.entry[j] = store.entry[j]
           ELSE IF q.field = "name"
           THEN t.entry[j].name = q.value /\ t.entry[j].remark = store.entry[j].remark
           ELSE t.entry[j].name = store.entry[j].name /\ t.entry[j].remark = q.value
      /\ ~threw /\ ~Holds(store, q.id) =>
           q.id \in ToSet(t.pending) /\ (store.gateway # 0 => t.timer)
  <2>1. IF q.field = "name" THEN q.value \in Nat ELSE q.value \in Users \cup {0}
    BY <1>1, StoreIs DEF CacheOK
  <2>2. Typed
    BY DEF CacheOK
  <2> HIDE DEF q
  <2> QED
    BY <1>1, <2>1, <2>2, WriteDoes
<1>3. store' = t
  BY DEF Confirmed
<1> HIDE DEF t, threw
<1>4. SUFFICES ASSUME NEW i \in Ids, Holds(store, i), i \in ToSet(store'.held)
               PROVE  /\ store'.entry[i].name >= store.entry[i].name
                      /\ store'.entry[i].remark = store.entry[i].remark \/ Remarked(i)
  BY DEF MovesForward
<1>5. store.entry[i].name \in Nat
  BY StoreIs DEF CacheOK
<1>6. CASE threw \/ i # q.id
  <2>1. store'.entry[i] = store.entry[i]
    BY <1>2, <1>3, <1>4, <1>6
  <2> QED
    BY <1>5, <2>1
<1>7. CASE ~(threw \/ i # q.id) /\ q.field = "name"
  <2>1. store'.entry[i].name = q.value /\ store'.entry[i].remark = store.entry[i].remark
    BY <1>2, <1>3, <1>4, <1>7
  <2>2. store.entry[i].name <= q.value /\ q.value \in Nat
    BY <1>0, <1>1, <1>4, <1>7 DEF CacheOK, Forward
  <2> QED
    BY <1>5, <2>1, <2>2
<1>8. CASE ~(threw \/ i # q.id) /\ q.field # "name"
  <2>1. store'.entry[i].name = store.entry[i].name
    BY <1>2, <1>3, <1>4, <1>8
  <2>2. Remarked(i)
    BY <1>0, <1>1, <1>8 DEF Remarked
  <2> QED
    BY <1>5, <2>1, <2>2
<1> QED
  BY <1>6, <1>7, <1>8

\* A session begins or ends with nothing held.
LEMMA ClearedMoves ==
  ASSUME CacheOK, NEW u, NEW session, NEW gateway, store' = Cleared(u, session, gateway)
  PROVE  MovesForward
<1>1. store'.held = <<>>
  BY DEF Cleared
<1> QED
  BY <1>1 DEF MovesForward, ToSet

\* Every step does.
LEMMA AllMove ==
  ASSUME CacheOK, CacheNext
  PROVE  MovesForward
<1>1. ASSUME NEW ids \in Reads, NEW force \in BOOLEAN, GetInfos(ids, force)
      PROVE  MovesForward
  <2>1. ids \in Seq(Ids) /\ store' = Read(store, ids, force).st
    BY <1>1, DisplayCacheAssumption DEF GetInfos
  <2>2. OnlyQueued(store, Read(store, ids, force).st)
    BY <2>1, ReadDoes DEF CacheOK, Typed
  <2> QED
    BY <2>1, <2>2, SameMoves DEF OnlyQueued
<1>2. CASE FlushTimer
  BY <1>2, FlushTimerMoves
<1>3. CASE Answered
  <2>1. Head(wire) = wire[1]
    BY <1>3, HeadIs
  <2>2. CASE wire[1].op = "login" /\ SessionStarts(wire[1])
    BY <2>2, ClearedMoves DEF SessionStarts, StartSession
  <2>3. CASE UNCHANGED store
    BY <2>3, SameMoves
  <2> QED
    BY <1>3, <2>1, <2>2, <2>3, RefreshMoves, ConfirmedMoves DEF Answered
<1>4. CASE InstallGateway
  BY <1>4 DEF InstallGateway, MovesForward
<1>5. CASE OpenDatabase
  <2>1. store'.entry = store.entry
    BY <1>5, StoreIs DEF OpenDatabase, Client, CacheOK
  <2> QED
    BY <2>1, SameMoves
<1>6. CASE Logout
  BY <1>6, ClearedMoves DEF Logout, NoSession
<1>7. CASE TimePasses
  <2>1. store'.entry = [i \in Ids |-> [store.entry[i] EXCEPT !.expired = TRUE]]
    BY <1>7, StoreIs DEF TimePasses, Client, CacheOK
  <2>2. \A i \in Ids : store'.entry[i].name = store.entry[i].name
                       /\ store'.entry[i].remark = store.entry[i].remark
    <3>1. store.entry \in [Ids -> Entry]
      BY StoreIs DEF CacheOK
    <3>2. \A e \in Entry : LET x == [e EXCEPT !.expired = TRUE] IN
            x.name = e.name /\ x.remark = e.remark
      BY DEF Entry
    <3>3. \A i \in Ids : store.entry[i] \in Entry
                         /\ store'.entry[i] = [store.entry[i] EXCEPT !.expired = TRUE]
      BY <2>1, <3>1
    <3> QED
      BY <3>2, <3>3
  <2> QED
    BY <2>2, SameMoves
<1>8. CASE UNCHANGED store
  BY <1>8, SameMoves
<1>9. CASE FlushNothing \/ StartFails
  <2>1. store'.entry = store.entry
    BY <1>9, StoreIs DEF FlushNothing, StartFails, Client, CacheOK
  <2> QED
    BY <2>1, SameMoves
<1> QED
  BY <1>1, <1>2, <1>3, <1>4, <1>5, <1>6, <1>7, <1>8, <1>9
     DEF CacheNext, ChangedElsewhere, ChangeInfo, Login, Serve, RequestFails

\* Names shown never go back, but in such a load, and remarks stay, in one session.
THEOREM AlwaysMovesForward == CacheSpec => InfosMoveForward
<1>1. CacheOK /\ [CacheNext]_cacheVars =>
        [store'.gateway = store.gateway =>
           \A i \in Ids : Holds(store, i) /\ i \in ToSet(store'.held) =>
             /\ \/ store'.entry[i].name >= store.entry[i].name
                \/ i \in history.ahead \/ ShowsLate(i)
             /\ store'.entry[i].remark = store.entry[i].remark \/ Remarked(i) \/ Displaces]_cacheVars
  BY AllMove DEF MovesForward
<1> QED
  BY <1>1, AlwaysCacheOK, PTL DEF CacheSpec, InfosMoveForward
=============================================================================
