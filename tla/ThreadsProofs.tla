---------------------------- MODULE ThreadsProofs -----------------------------
(***************************************************************************)
(* Proofs about Threads.                                                   *)
(***************************************************************************)
EXTENDS Threads, LeastNumber, FiniteSetTheorems, SequenceTheorems, TLAPS

-----------------------------------------------------------------------------
(* Where a thread can be.                                                    *)

\* The calls that go through WAITQ_WAIT, the places in it, and those at which the
\* link is on a queue.
Waits == {"lock", "timedlock", "waitpid"} \cup Awaits
Loop == {"add", "prepare", "check", "sleep", "asleep", "out"}
Linking == {"prepare", "check", "sleep", "asleep", "out", "fail"}

PlacedAt(t) ==
    /\ at[t] \in Loop => Op(t) \in Waits
    /\ at[t] = "fail" => Op(t) = "timedlock"
    /\ at[t] \in {"cond", "relock"} => Op(t) \in Awaits
    /\ at[t] = "barrier" => Op(t) = "barrier"
    /\ at[t] = "rw" => Op(t) \in {"read", "write"}
    /\ at[t] = "join" => Op(t) = "join"

\* The queue that t waits on; its link is there.
Spot(t) ==
    IF at[t] \in {"cond", "barrier", "rw"} THEN Arg(t)
    ELSE IF Op(t) = "waitpid" THEN Children ELSE Wanted(t)
LinkedAt(t) ==
    at[t] \in Linking \cup {"cond", "barrier", "rw"} => t \in ToSet(queue[Spot(t)])

\* cond_wait() has given its mutex back.
GivenBack(t) == at[t] \in {"cond", "relock"} => holder[Guards[Arg(t)]] # t

\* Why t sleeps.
Reason(t) ==
    /\ at[t] \in {"sleep", "asleep"} =>
        IF Op(t) = "waitpid" THEN ~status ELSE holder[Wanted(t)] # None
    /\ at[t] = "rw" => ~MayEnter(t, Arg(t))
    /\ at[t] = "join" => /\ Arg(t) \notin exited /\ joining[Arg(t)] = t
                         /\ at[Arg(t)] # "none"

\* All this of one thread.
Fine(t) ==
    /\ PlacedAt(t) /\ LinkedAt(t) /\ GivenBack(t)
    /\ waiting[t] /\ t \notin finished => Reason(t)

\* A link is on a queue once.
Single ==
    \A q \in Queues : \A i, j \in 1..Len(queue[q]) : queue[q][i] = queue[q][j] => i = j

\* A mutex is counted while it is held.
Counted == \A m \in Mutexes : holder[m] # None => depth[m] >= 1

\* The threads inside a read-write lock.
Within(k) ==
    {t \in Threads : /\ ip[t] > 1 /\ prog[t][ip[t] - 1].op \in {"read", "write"}
                     /\ prog[t][ip[t] - 1].arg = k}
RwCounted == \A k \in RwLocks : rwCount[k] >= Cardinality(Within(k))

\* What is deleted has exited, and what is parked is not freed.
Ended ==
    /\ exited = finished /\ deleted \subseteq exited /\ zombies \subseteq deleted
    /\ \A z \in zombies : at[z] # "none"
    /\ status => Main \in exited

TInv ==
    /\ TypeOK /\ (\A t \in Threads : Fine(t))
    /\ Single /\ Counted /\ RwCounted /\ Ended

-----------------------------------------------------------------------------
(* Calls.                                                                    *)

\* What a call is applied to.
LEMMA CallIs ==
    ASSUME TypeOK, NEW t \in Threads, NEW i \in 1..Len(prog[t])
    PROVE  LET op == prog[t][i].op
               arg == prog[t][i].arg
           IN  /\ op # "end"
               /\ op \in Locks \cup {"unlock"} => arg \in Mutexes
               /\ op \in Awaits \cup {"happen", "signal"} => arg \in Conds
               /\ op = "barrier" => arg \in Barriers
               /\ op \in {"read", "write", "down"} => arg \in RwLocks
               /\ op \in {"new_task", "waitpid"} => t = Parent /\ arg = Main
               /\ op \in {"create", "launch", "join", "detach"} =>
                    arg \in Threads \ {Main, Parent, t} /\ t # Parent
               /\ arg \in Mutexes => op \notin {"read", "write"}
<1>1. prog[t] \in Seq(Call(t))
  BY ProgramAssumption DEF TypeOK, SleepTypeOK
<1>2. prog[t][i] \in Call(t)
  BY <1>1
<1>3. PICK c \in Call(t) : c = prog[t][i]
  BY <1>2
<1>4. c.op # "end"
  BY DEF Call, Locks, Awaits
<1>5. c.op \in Locks \cup {"unlock"} => c.arg \in Mutexes
  BY DEF Call, Locks, Awaits
<1>6. c.op \in Awaits \cup {"happen", "signal"} => c.arg \in Conds
  BY DEF Call, Locks, Awaits
<1>7. c.op = "barrier" => c.arg \in Barriers
  BY DEF Call, Locks, Awaits
<1>8. c.op \in {"read", "write", "down"} => c.arg \in RwLocks
  BY DEF Call, Locks, Awaits
<1>9. c.op \in {"new_task", "waitpid"} => t = Parent /\ c.arg = Main
  BY DEF Call, Locks, Awaits
<1>10. c.op \in {"create", "launch", "join", "detach"} =>
         c.arg \in Threads \ {Main, Parent, t} /\ t # Parent
  BY DEF Call, Locks, Awaits
<1>11. c.arg \in Mutexes => c.op \notin {"read", "write"}
  BY <1>8, SyncAssumption
<1> QED
  BY <1>3, <1>4, <1>5, <1>6, <1>7, <1>8, <1>9, <1>10, <1>11

\* The call a thread is at.
LEMMA AtCall ==
    ASSUME TypeOK, NEW t \in Threads
    PROVE  /\ ip[t] \in 1..(Len(prog[t]) + 1) /\ Len(prog[t]) \in Nat
           /\ Op(t) # "end" =>
                /\ ip[t] \in 1..Len(prog[t])
                /\ Op(t) = prog[t][ip[t]].op /\ Arg(t) = prog[t][ip[t]].arg
           /\ Op(t) \in Locks \cup {"unlock"} => Arg(t) \in Mutexes
           /\ Op(t) \in Awaits \cup {"happen", "signal"} => Arg(t) \in Conds
           /\ Op(t) = "barrier" => Arg(t) \in Barriers
           /\ Op(t) \in {"read", "write", "down"} => Arg(t) \in RwLocks
           /\ Op(t) \in {"new_task", "waitpid"} => t = Parent /\ Arg(t) = Main
           /\ Op(t) \in {"create", "launch", "join", "detach"} =>
                Arg(t) \in Threads \ {Main, Parent, t} /\ t # Parent
           /\ Op(t) \in {"lock", "timedlock"} \cup Awaits => Wanted(t) \in Mutexes
<1>1. prog[t] \in Seq(Call(t)) /\ ip[t] \in 1..(Len(prog[t]) + 1)
  BY ProgramAssumption DEF TypeOK, SleepTypeOK
<1>2. Len(prog[t]) \in Nat
  BY <1>1
<1>3. CASE AtEnd(t)
  <2>1. Op(t) = "end"
    BY <1>3 DEF Op
  <2> QED
    BY <1>1, <1>2, <2>1 DEF Locks, Awaits
<1>4. CASE ~AtEnd(t)
  <2>1. ip[t] \in 1..Len(prog[t]) /\ Op(t) = prog[t][ip[t]].op /\ Arg(t) = prog[t][ip[t]].arg
    BY <1>1, <1>2, <1>4 DEF AtEnd, Op, Arg
  <2>2. Op(t) \in Locks \cup {"unlock"} => Arg(t) \in Mutexes
    BY <2>1, CallIs
  <2>3. Op(t) \in Awaits \cup {"happen", "signal"} => Arg(t) \in Conds
    BY <2>1, CallIs
  <2>4. /\ Op(t) = "barrier" => Arg(t) \in Barriers
        /\ Op(t) \in {"read", "write", "down"} => Arg(t) \in RwLocks
        /\ Op(t) \in {"new_task", "waitpid"} => t = Parent /\ Arg(t) = Main
        /\ Op(t) \in {"create", "launch", "join", "detach"} =>
             Arg(t) \in Threads \ {Main, Parent, t} /\ t # Parent
    BY <2>1, CallIs
  <2>5. Op(t) \in {"lock", "timedlock"} \cup Awaits => Wanted(t) \in Mutexes
    <3>1. Op(t) \in {"lock", "timedlock"} => Op(t) \notin Awaits /\ Op(t) \in Locks
      BY DEF Awaits, Locks
    <3> QED
      BY <2>2, <2>3, <3>1, SyncAssumption DEF Wanted
  <2> QED
    BY <1>1, <1>2, <2>1, <2>2, <2>3, <2>4, <2>5
<1> QED
  BY <1>3, <1>4

\* A thread that stays at its call.
LEMMA SameCall ==
    ASSUME NEW t, prog' = prog, ip'[t] = ip[t]
    PROVE  /\ Op(t)' = Op(t) /\ Arg(t)' = Arg(t) /\ AtEnd(t)' = AtEnd(t)
           /\ Wanted(t)' = Wanted(t) /\ After(t)' = After(t)
BY DEF Op, Arg, AtEnd, Wanted, After

-----------------------------------------------------------------------------
(* Wait queues.                                                              *)

\* The first position of a queue at which a thread of S stands.
LEMMA FirstPlace ==
    ASSUME NEW q \in Seq(Threads), NEW S, \E i \in 1..Len(q) : q[i] \in S
    PROVE  \E i \in 1..Len(q) :
                /\ i = Min({k \in 1..Len(q) : q[k] \in S})
                /\ q[i] \in S
                /\ \A j \in 1..(i - 1) : q[j] \notin S
<1> DEFINE I == {k \in 1..Len(q) : q[k] \in S}
<1>1. I # {} /\ I \subseteq Nat
  OBVIOUS
<1>2. PICK x \in I : \A y \in I : x <= y
  <2> HIDE DEF I
  <2> QED
    BY <1>1, LeastNatural
<1>3. Min(I) \in I /\ \A y \in I : Min(I) <= y
  <2> HIDE DEF I
  <2> QED
    BY <1>2 DEF Min
<1>4. PICK i \in I : i = Min(I) /\ \A y \in I : i <= y
  BY <1>3
<1>5. \A j \in 1..(i - 1) : q[j] \notin S
  <2> TAKE j \in 1..(i - 1)
  <2>1. j \in 1..Len(q) /\ ~(i <= j)
    BY <1>4
  <2> QED
    BY <2>1, <1>4
<1> QED
  BY <1>4, <1>5

\* dlist_del_init() takes a link out of the queue it is on.
LEMMA RemovedFrom ==
    ASSUME NEW q \in Seq(Threads), NEW s, NEW i \in 1..Len(q), q[i] = s,
           \A j \in 1..Len(q) : q[j] = s => j = i
    PROVE  LET r == RemoveFirst(q, s)
           IN  /\ r \in Seq(Threads)
               /\ Len(r) = Len(q) - 1
               /\ \A j \in 1..(i - 1) : r[j] = q[j]
               /\ \A j \in i..Len(r) : r[j] = q[j + 1]
<1> DEFINE r == RemoveFirst(q, s)
           a == SubSeq(q, 1, i - 1)
           b == SubSeq(q, i + 1, Len(q))
<1>1. PICK k \in 1..Len(q) : k = Min({n \in 1..Len(q) : q[n] \in {s}}) /\ q[k] \in {s}
  BY FirstPlace
<1>2. k = i
  BY <1>1
<1>3. {n \in 1..Len(q) : q[n] \in {s}} = {n \in 1..Len(q) : q[n] = s}
  OBVIOUS
<1>4. {n \in 1..Len(q) : q[n] = s} # {}
  OBVIOUS
<1>5. r = RemoveAt(q, i)
  BY <1>1, <1>2, <1>3, <1>4 DEF RemoveFirst, SelectInSeq
<1>6. r = a \o b
  BY <1>5 DEF RemoveAt
<1>7. /\ a \in Seq(Threads) /\ Len(a) = i - 1
      /\ \A j \in 1..(i - 1) : a[j] = q[j]
  <2>1. \A j \in 1..(i - 1) : q[j] \in Threads
    BY ElementOfSeq
  <2>2. i - 1 \in Int
    OBVIOUS
  <2> QED
    BY <2>1, <2>2, SubSeqProperties
<1>8. /\ b \in Seq(Threads) /\ Len(b) = Len(q) - i
      /\ \A j \in 1..Len(b) : b[j] = q[i + j]
  <2>1. \A j \in (i + 1)..Len(q) : q[j] \in Threads
    BY ElementOfSeq
  <2>2. i + 1 \in Int /\ Len(q) \in Int
    OBVIOUS
  <2> QED
    BY <2>1, <2>2, SubSeqProperties
<1> HIDE DEF a, b, r
<1>9. /\ r \in Seq(Threads) /\ Len(r) = Len(a) + Len(b)
      /\ \A j \in 1..(Len(a) + Len(b)) : r[j] = IF j <= Len(a) THEN a[j] ELSE b[j - Len(a)]
  BY <1>6, <1>7, <1>8, ConcatProperties
<1>10. Len(r) = Len(q) - 1
  BY <1>7, <1>8, <1>9
<1>11. ASSUME NEW j \in 1..(i - 1) PROVE r[j] = q[j]
  <2>1. j \in 1..(Len(a) + Len(b)) /\ j <= Len(a)
    BY <1>7, <1>8
  <2> QED
    BY <2>1, <1>7, <1>9
<1>12. ASSUME NEW j \in i..Len(r) PROVE r[j] = q[j + 1]
  <2>1. /\ j \in 1..(Len(a) + Len(b)) /\ ~(j <= Len(a)) /\ j - Len(a) \in 1..Len(b)
        /\ i + (j - Len(a)) = j + 1
    BY <1>7, <1>8, <1>10
  <2> QED
    BY <2>1, <1>8, <1>9
<1> QED
  BY <1>9, <1>10, <1>11, <1>12 DEF r


\* waitq_add()
LEMMA AddedIs ==
    ASSUME queue \in [Queues -> Seq(Threads)], Single, NEW t \in Threads, NEW q \in Queues,
           queue' = Added(t, q)
    PROVE  /\ queue' \in [Queues -> Seq(Threads)] /\ Single'
           /\ \A u \in Threads, p \in Queues :
                u \in ToSet(queue'[p]) <=> u \in ToSet(queue[p]) \/ (u = t /\ p = q)
<1>1. CASE t \in ToSet(queue[q])
  <2>1. queue' = queue
    BY <1>1 DEF Added
  <2> QED
    BY <1>1, <2>1 DEF Single
<1>2. CASE t \notin ToSet(queue[q])
  <2>1. PICK s \in Seq(Threads) : s = queue[q]
    OBVIOUS
  <2>2. PICK r : r = Append(s, t)
    OBVIOUS
  <2>3. queue' = [queue EXCEPT ![q] = r]
    BY <1>2, <2>1, <2>2 DEF Added
  <2>4. /\ r \in Seq(Threads) /\ Len(s) \in Nat /\ Len(r) = Len(s) + 1
        /\ \A i \in 1..Len(s) : r[i] = s[i]
        /\ r[Len(s) + 1] = t
    BY <2>2, AppendProperties
  <2>5. queue' \in [Queues -> Seq(Threads)]
    BY <2>3, <2>4
  <2>6. \A i \in 1..Len(r) : i \in 1..Len(s) \/ i = Len(s) + 1
    BY <2>4
  <2>7. \A i \in 1..Len(s) : i \in 1..Len(r) /\ s[i] # t
    BY <1>2, <2>1, <2>4 DEF ToSet
  <2>8. \A i, j \in 1..Len(s) : s[i] = s[j] => i = j
    BY <2>1 DEF Single
  <2>9. \A i, j \in 1..Len(r) : r[i] = r[j] => i = j
    BY <2>4, <2>6, <2>7, <2>8
  <2>10. Single'
    BY <2>3, <2>9 DEF Single
  <2>11. \A u : u \in ToSet(r) <=> u \in ToSet(s) \/ u = t
    <3>1. \A u : u \in ToSet(r) <=> \E i \in 1..Len(r) : u = r[i]
      BY <2>4 DEF ToSet
    <3>2. \A u : u \in ToSet(s) <=> \E i \in 1..Len(s) : u = s[i]
      BY DEF ToSet
    <3>3. Len(s) + 1 \in 1..Len(r)
      BY <2>4
    <3> QED
      BY <3>1, <3>2, <3>3, <2>4, <2>6, <2>7
  <2> QED
    BY <2>1, <2>3, <2>5, <2>10, <2>11
<1> QED
  BY <1>1, <1>2

\* waitq_del()
LEMMA DeletedIs ==
    ASSUME queue \in [Queues -> Seq(Threads)], Single, NEW t \in Threads, NEW q \in Queues,
           queue' = Deleted(t, q)
    PROVE  /\ queue' \in [Queues -> Seq(Threads)] /\ Single'
           /\ \A u \in Threads, p \in Queues :
                u \in ToSet(queue'[p]) <=> u \in ToSet(queue[p]) /\ ~(u = t /\ p = q)
<1>1. PICK s \in Seq(Threads) : s = queue[q]
  OBVIOUS
<1>2. PICK r : r = RemoveFirst(s, t)
  OBVIOUS
<1>3. queue' = [queue EXCEPT ![q] = r]
  BY <1>1, <1>2 DEF Deleted
<1>4. \A u : u \in ToSet(s) <=> \E i \in 1..Len(s) : u = s[i]
  BY DEF ToSet
<1>5. CASE t \notin ToSet(s)
  <2>1. r = s
    BY <1>2, <1>4, <1>5 DEF RemoveFirst
  <2>2. queue' = queue
    BY <1>1, <1>3, <2>1
  <2> QED
    BY <1>1, <1>5, <2>2 DEF Single
<1>6. CASE t \in ToSet(s)
  <2>1. PICK i \in 1..Len(s) : s[i] = t
    BY <1>4, <1>6
  <2>2. \A j, k \in 1..Len(s) : s[j] = s[k] => j = k
    BY <1>1 DEF Single
  <2>3. \A j \in 1..Len(s) : s[j] = t => j = i
    BY <2>1, <2>2
  <2>4. /\ r \in Seq(Threads) /\ Len(r) = Len(s) - 1 /\ Len(s) \in Nat
        /\ \A j \in 1..(i - 1) : r[j] = s[j]
        /\ \A j \in i..Len(r) : r[j] = s[j + 1]
    BY <1>2, <2>1, <2>3, RemovedFrom
  <2>5. \A j \in 1..Len(r) : \/ j \in 1..(i - 1) /\ r[j] = s[j] /\ j \in 1..Len(s) /\ j < i
                             \/ j >= i /\ r[j] = s[j + 1] /\ j + 1 \in 1..Len(s)
    BY <2>4
  <2>6. \A j \in 1..Len(s) : \/ j = i
                             \/ j \in 1..Len(r) /\ r[j] = s[j]
                             \/ j - 1 \in 1..Len(r) /\ r[j - 1] = s[j]
    <3> TAKE j \in 1..Len(s)
    <3>1. CASE j < i
      BY <3>1, <2>4
    <3>2. CASE j > i
      <4>1. j - 1 \in i..Len(r) /\ j - 1 \in 1..Len(r) /\ (j - 1) + 1 = j
        BY <3>2, <2>4
      <4> QED
        BY <4>1, <2>4
    <3> QED
      BY <3>1, <3>2
  <2>7. queue' \in [Queues -> Seq(Threads)]
    BY <1>3, <2>4
  <2>8. \A j, k \in 1..Len(r) : r[j] = r[k] => j = k
    BY <2>2, <2>5
  <2>9. Single'
    BY <1>3, <2>8 DEF Single
  <2>10. \A u : u \in ToSet(r) <=> \E j \in 1..Len(r) : u = r[j]
    BY <2>4 DEF ToSet
  <2>11. \A u : u \in ToSet(r) => u \in ToSet(s) /\ u # t
    <3> TAKE u
    <3> HAVE u \in ToSet(r)
    <3>1. PICK j \in 1..Len(r) : u = r[j]
      BY <2>10
    <3>2. CASE j \in 1..Len(s) /\ r[j] = s[j] /\ j < i
      BY <3>1, <3>2, <1>4, <2>3
    <3>3. CASE j >= i /\ r[j] = s[j + 1] /\ j + 1 \in 1..Len(s)
      BY <3>1, <3>3, <1>4, <2>3
    <3> QED
      BY <3>2, <3>3, <2>5
  <2>12. \A u : u \in ToSet(s) /\ u # t => u \in ToSet(r)
    BY <1>4, <2>6, <2>10, <2>1
  <2> QED
    BY <1>1, <1>3, <2>7, <2>9, <2>11, <2>12
<1> QED
  BY <1>5, <1>6

-----------------------------------------------------------------------------
(* The threads that do not move.                                             *)

LEMMA SpotIs ==
    ASSUME TypeOK, NEW t \in Threads, PlacedAt(t),
           at[t] \in Loop \cup {"fail", "cond", "barrier", "rw"}
    PROVE  Spot(t) \in Queues
<1>1. Op(t) \in {"waitpid", "barrier", "read", "write"} => Op(t) \notin {"lock", "timedlock"} \cup Awaits
  BY DEF Awaits
<1>2. CASE at[t] \in {"cond", "barrier", "rw"}
  BY <1>2, AtCall, SyncAssumption DEF Spot, PlacedAt
<1>3. CASE at[t] \notin {"cond", "barrier", "rw"}
  BY <1>3, AtCall, SyncAssumption, ThreadAssumption DEF Spot, PlacedAt, Waits, Loop
<1> QED
  BY <1>2, <1>3

\* A thread that stays where it is, and keeps its links.
LEMMA StaysFine ==
    ASSUME TypeOK, NEW u \in Threads, Fine(u),
           prog' = prog, ip'[u] = ip[u], at'[u] = at[u],
           \A q \in Queues : u \in ToSet(queue[q]) => u \in ToSet(queue'[q]),
           \A m \in Mutexes : holder'[m] = u => holder[m] = u,
           waiting'[u] /\ u \notin finished' => Reason(u)'
    PROVE  Fine(u)'
<1>1. Op(u)' = Op(u) /\ Arg(u)' = Arg(u) /\ Wanted(u)' = Wanted(u)
  BY SameCall
<1>2. Spot(u)' = Spot(u)
  BY <1>1 DEF Spot
<1>3. PlacedAt(u)'
  BY <1>1 DEF Fine, PlacedAt
<1>4. LinkedAt(u)'
  <2>1. ASSUME at[u] \in Linking \cup {"cond", "barrier", "rw"}
        PROVE  u \in ToSet(queue'[Spot(u)])
    <3>1. Spot(u) \in Queues
      BY <2>1, SpotIs DEF Fine, Linking, Loop
    <3> QED
      BY <2>1, <3>1 DEF Fine, LinkedAt
  <2> QED
    BY <2>1, <1>2 DEF LinkedAt
<1>5. GivenBack(u)'
  <2>1. at[u] \in {"cond", "relock"} => Guards[Arg(u)] \in Mutexes
    BY AtCall, SyncAssumption DEF Fine, PlacedAt
  <2> QED
    BY <1>1, <2>1 DEF Fine, GivenBack
<1> QED
  BY <1>3, <1>4, <1>5 DEF Fine

\* Places of no interest.
LEMMA FreeFine ==
    ASSUME NEW u \in Threads, at'[u] \in {"none", "new", "go", "gone", "leaving"}
    PROVE  Fine(u)'
BY DEF Fine, PlacedAt, LinkedAt, GivenBack, Reason, Loop, Linking

\* What a step of t inside a synchronisation call leaves alone.
Moves(t) ==
    /\ prog' = prog /\ UNCHANGED <<finished, threadVars>>
    /\ at'[t] # "none"
    /\ \A u \in Threads \ {t} : ip'[u] = ip[u] /\ at'[u] = at[u]

\* Another thread that slept and still waits has the same reason.
LEMMA SyncReason ==
    ASSUME TypeOK, NEW t \in Threads, Moves(t), NEW u \in Threads \ {t}, Fine(u),
           waiting[u], u \notin finished,
           at[u] \in {"sleep", "asleep"} /\ Op(u) # "waitpid" /\ holder[Wanted(u)] # None =>
                holder'[Wanted(u)] # None,
           at[u] = "rw" /\ ~MayEnter(u, Arg(u)) => ~MayEnter(u, Arg(u))'
    PROVE  Reason(u)'
<1>1. Op(u)' = Op(u) /\ Arg(u)' = Arg(u) /\ Wanted(u)' = Wanted(u)
  BY SameCall DEF Moves
<1>2. Reason(u)
  BY DEF Fine
<1>3. at[u] \in {"sleep", "asleep"} =>
        IF Op(u) = "waitpid" THEN ~status' ELSE holder'[Wanted(u)] # None
  BY <1>2 DEF Reason, Moves, threadVars
<1>4. at[u] = "rw" => ~MayEnter(u, Arg(u))'
  BY <1>2 DEF Reason
<1>5. at[u] = "join" => /\ Arg(u) \notin exited' /\ joining'[Arg(u)] = u
                        /\ at'[Arg(u)] # "none"
  <2>1. at[u] = "join" => Arg(u) \in Threads
    BY AtCall DEF Fine, PlacedAt
  <2> QED
    BY <2>1, <1>2 DEF Reason, Moves, threadVars
<1> QED
  BY <1>1, <1>3, <1>4, <1>5 DEF Reason, Moves

-----------------------------------------------------------------------------
(* How far a call brings a thread.                                           *)

LEMMA WithinIs ==
    ASSUME NEW k
    PROVE  IsFiniteSet(Within(k)) /\ Cardinality(Within(k)) \in Nat
<1>1. Within(k) \subseteq Threads
  BY DEF Within
<1> QED
  BY <1>1, ProgramAssumption, FS_Subset, FS_CardinalityType

\* A call that may be refused is not the last.
LEMMA SkipIs ==
    ASSUME TypeOK, NEW t \in Threads, Op(t) # "end", MayFail(prog[t][ip[t]])
    PROVE  /\ ip[t] + 1 \in 1..Len(prog[t])
           /\ prog[t][ip[t] + 1].op \notin {"read", "write"}
<1>1. ip[t] \in 1..Len(prog[t]) /\ Len(prog[t]) \in Nat
  BY AtCall
<1>2. prog[t] \in Seq(Call(t)) /\ Pairs(prog[t])
  BY ProgramAssumption DEF TypeOK, SleepTypeOK
<1>3. DOMAIN prog[t] = 1..Len(prog[t])
  BY <1>2
<1>4. ip[t] + 1 \in 1..Len(prog[t]) /\ prog[t][ip[t] + 1].arg = prog[t][ip[t]].arg
  BY <1>1, <1>2, <1>3 DEF Pairs
<1>5. prog[t][ip[t]].op \in Locks
  BY DEF MayFail, Locks
<1>6. prog[t][ip[t]].arg \in Mutexes
  BY <1>1, <1>5, CallIs
<1> QED
  BY <1>1, <1>4, <1>6, CallIs

\* A program does not end inside a read-write lock.
LEMMA EndIs ==
    ASSUME TypeOK, NEW t \in Threads, Len(prog[t]) > 0
    PROVE  prog[t][Len(prog[t])].op \notin {"read", "write"}
<1>1. prog[t] \in Seq(Call(t)) /\ Pairs(prog[t])
  BY ProgramAssumption DEF TypeOK, SleepTypeOK
<1>2. DOMAIN prog[t] = 1..Len(prog[t]) /\ Len(prog[t]) \in Nat
  BY <1>1
<1>3. Len(prog[t]) \in DOMAIN prog[t] /\ Len(prog[t]) + 1 \notin DOMAIN prog[t]
  BY <1>2
<1> QED
  BY <1>1, <1>3 DEF Pairs

\* The ways in which a thread gets further, but for entering a read-write lock.
Advances(t) ==
    \/ ip'[t] = ip[t]
    \/ ip'[t] = 1
    \/ ip'[t] = ip[t] + 1 /\ Op(t) \notin {"read", "write", "end"}
    \/ ip'[t] = ip[t] + 2 /\ Op(t) # "end" /\ MayFail(prog[t][ip[t]])
    \/ ip'[t] = Len(prog[t]) + 1

LEMMA AdvanceIs ==
    ASSUME TypeOK, prog' = prog, NEW t \in Threads, Advances(t)
    PROVE  /\ ip'[t] \in 1..(Len(prog'[t]) + 1)
           /\ \A k : t \in Within(k)' => t \in Within(k)
<1>1. ip[t] \in 1..(Len(prog[t]) + 1) /\ Len(prog[t]) \in Nat
  BY AtCall
<1>2. \A k : t \in Within(k)' <=> /\ ip'[t] > 1 /\ prog[t][ip'[t] - 1].op \in {"read", "write"}
                                  /\ prog[t][ip'[t] - 1].arg = k
  BY DEF Within
<1>3. CASE ip'[t] = ip[t]
  BY <1>1, <1>2, <1>3 DEF Within
<1>4. CASE ip'[t] = 1
  BY <1>1, <1>2, <1>4
<1>5. CASE ip'[t] = ip[t] + 1 /\ Op(t) \notin {"read", "write", "end"}
  <2>1. ip[t] \in 1..Len(prog[t]) /\ Op(t) = prog[t][ip[t]].op
    BY <1>5, AtCall
  <2>2. ip'[t] - 1 = ip[t] /\ ip'[t] \in 1..(Len(prog[t]) + 1)
    BY <1>1, <1>5, <2>1
  <2>3. \A k : t \notin Within(k)'
    BY <1>2, <1>5, <2>1, <2>2
  <2> QED
    BY <2>2, <2>3
<1>6. CASE ip'[t] = ip[t] + 2 /\ Op(t) # "end" /\ MayFail(prog[t][ip[t]])
  <2>1. ip[t] + 1 \in 1..Len(prog[t]) /\ prog[t][ip[t] + 1].op \notin {"read", "write"}
    BY <1>6, SkipIs
  <2>2. ip'[t] - 1 = ip[t] + 1
    BY <1>1, <1>6
  <2> QED
    BY <1>1, <1>2, <1>6, <2>1, <2>2
<1>7. CASE ip'[t] = Len(prog[t]) + 1
  <2>1. ip'[t] - 1 = Len(prog[t])
    BY <1>1, <1>7
  <2> QED
    BY <1>1, <1>2, <1>7, <2>1, EndIs
<1> QED
  BY <1>3, <1>4, <1>5, <1>6, <1>7 DEF Advances

LEMMA RwStays ==
    ASSUME TypeOK, RwCounted, prog' = prog, rwCount' = rwCount,
           \A t \in Threads : Advances(t)
    PROVE  RwCounted'
<1> SUFFICES ASSUME NEW k \in RwLocks PROVE rwCount'[k] >= Cardinality(Within(k)')
  BY DEF RwCounted
<1>1. Within(k)' \subseteq Within(k)
  <2>1. Within(k)' \subseteq Threads
    BY DEF Within
  <2> QED
    BY <2>1, AdvanceIs
<1>2. PICK A, B : A = Within(k) /\ B = Within(k)'
  OBVIOUS
<1>3. IsFiniteSet(A) /\ Cardinality(A) \in Nat /\ B \subseteq A
  BY <1>1, <1>2, WithinIs
<1>4. Cardinality(B) \in Nat /\ Cardinality(B) <= Cardinality(A)
  BY <1>3, FS_Subset, FS_CardinalityType
<1>5. rwCount[k] \in Nat /\ rwCount[k] >= Cardinality(A)
  BY <1>2 DEF RwCounted, TypeOK
<1> QED
  BY <1>2, <1>3, <1>4, <1>5

-----------------------------------------------------------------------------
(* Steps of the synchronisation calls.                                       *)

\* A step does nothing to u but wake it.
Spares(u) ==
    /\ \A q \in Queues : u \in ToSet(queue[q]) => u \in ToSet(queue'[q])
    /\ \A m \in Mutexes : holder'[m] = u => holder[m] = u
    /\ waiting'[u] /\ u \notin finished =>
        /\ waiting[u]
        /\ at[u] \in {"sleep", "asleep"} /\ Op(u) # "waitpid" /\ holder[Wanted(u)] # None =>
             holder'[Wanted(u)] # None
        /\ at[u] = "rw" /\ ~MayEnter(u, Arg(u)) => ~MayEnter(u, Arg(u))'

LEMMA SyncKeeps ==
    ASSUME TInv, NEW t \in Threads, Moves(t), TypeOK', Fine(t)', Single', Counted', RwCounted',
           \A u \in Threads \ {t} : Spares(u)
    PROVE  TInv'
<1>1. ASSUME NEW u \in Threads \ {t} PROVE Fine(u)'
  <2>1. Spares(u) /\ Fine(u) /\ TypeOK
    BY DEF TInv
  <2>2. waiting'[u] /\ u \notin finished' => Reason(u)'
    <3>1. finished' = finished
      BY DEF Moves
    <3> QED
      BY <2>1, <3>1, SyncReason DEF Spares
  <2>3. prog' = prog /\ ip'[u] = ip[u] /\ at'[u] = at[u]
    BY DEF Moves
  <2>4. /\ \A q \in Queues : u \in ToSet(queue[q]) => u \in ToSet(queue'[q])
        /\ \A m \in Mutexes : holder'[m] = u => holder[m] = u
    BY <2>1 DEF Spares
  <2> QED
    BY <2>1, <2>2, <2>3, <2>4, StaysFine
<1>2. Ended'
  BY DEF TInv, TypeOK, Ended, Moves, threadVars
<1> QED
  BY <1>1, <1>2 DEF TInv

\* The queue after a step of t.
LEMMA QueueIs ==
    ASSUME TInv, NEW t \in Threads,
           queue' = queue \/ \E q \in Queues : queue' \in {Added(t, q), Deleted(t, q)}
    PROVE  /\ queue' \in [Queues -> Seq(Threads)] /\ Single'
           /\ \A u \in Threads \ {t}, p \in Queues :
                u \in ToSet(queue[p]) => u \in ToSet(queue'[p])
<1>1. queue \in [Queues -> Seq(Threads)] /\ Single
  BY DEF TInv, TypeOK, SleepTypeOK
<1>2. CASE queue' = queue
  BY <1>1, <1>2 DEF Single
<1>3. ASSUME NEW q \in Queues, queue' = Added(t, q)
      PROVE  /\ queue' \in [Queues -> Seq(Threads)] /\ Single'
             /\ \A u \in Threads \ {t}, p \in Queues :
                  u \in ToSet(queue[p]) => u \in ToSet(queue'[p])
  BY <1>1, <1>3, AddedIs
<1>4. ASSUME NEW q \in Queues, queue' = Deleted(t, q)
      PROVE  /\ queue' \in [Queues -> Seq(Threads)] /\ Single'
             /\ \A u \in Threads \ {t}, p \in Queues :
                  u \in ToSet(queue[p]) => u \in ToSet(queue'[p])
  BY <1>1, <1>4, DeletedIs
<1> QED
  BY <1>2, <1>3, <1>4

\* The usual case: no lock is given back.
LEMMA Spared ==
    ASSUME TInv, NEW t \in Threads, Moves(t), NEW u \in Threads \ {t},
           queue' = queue \/ \E q \in Queues : queue' \in {Added(t, q), Deleted(t, q)},
           waiting'[u] => waiting[u],
           \A m \in Mutexes : holder'[m] \in {holder[m], t},
           rwStatus' = rwStatus
    PROVE  Spares(u)
<1>1. \A q \in Queues : u \in ToSet(queue[q]) => u \in ToSet(queue'[q])
  BY QueueIs
<1>2. at[u] \in {"sleep", "asleep"} /\ Op(u) # "waitpid" /\ holder[Wanted(u)] # None =>
        holder'[Wanted(u)] # None
  <2>1. at[u] \in {"sleep", "asleep"} /\ Op(u) # "waitpid" => Wanted(u) \in Mutexes
    BY AtCall DEF TInv, Fine, PlacedAt, Loop, Waits
  <2> QED
    BY <2>1, SyncAssumption
<1>3. MayEnter(u, Arg(u))' <=> MayEnter(u, Arg(u))
  <2>1. Op(u)' = Op(u) /\ Arg(u)' = Arg(u)
    BY SameCall DEF Moves
  <2> QED
    BY <2>1 DEF MayEnter, Mode
<1> QED
  BY <1>1, <1>2, <1>3 DEF Spares

\* A thread that only returns, or goes somewhere.
LEMMA GotoIs ==
    ASSUME TypeOK, NEW t \in Threads, NEW where, Goto(t, where)
    PROVE  /\ ip' = ip /\ at' = [at EXCEPT ![t] = where] /\ ip' \in [Threads -> Nat]
           /\ at'[t] = where /\ \A u \in Threads \ {t} : ip'[u] = ip[u] /\ at'[u] = at[u]
           /\ \A u \in Threads : Advances(u)
BY DEF Goto, TypeOK, SleepTypeOK, Advances

LEMMA ReturnIs ==
    ASSUME TypeOK, NEW t \in Threads, NEW n \in Nat, Return(t, n),
           \/ n = 0
           \/ n = 1 /\ Op(t) \notin {"read", "write", "end"}
           \/ n = 2 /\ Op(t) # "end" /\ MayFail(prog[t][ip[t]])
    PROVE  /\ ip' = [ip EXCEPT ![t] = @ + n] /\ at' = [at EXCEPT ![t] = "go"]
           /\ ip'[t] = ip[t] + n /\ ip' \in [Threads -> Nat]
           /\ at'[t] = "go" /\ \A u \in Threads \ {t} : ip'[u] = ip[u] /\ at'[u] = at[u]
           /\ \A u \in Threads : Advances(u)
<1>1. ip \in [Threads -> Nat] /\ at = [u \in Threads |-> at[u]]
  BY DEF TypeOK, SleepTypeOK
<1>2. /\ ip' = [ip EXCEPT ![t] = @ + n] /\ at' = [at EXCEPT ![t] = "go"]
      /\ ip'[t] = ip[t] + n /\ ip' \in [Threads -> Nat]
      /\ at'[t] = "go" /\ \A u \in Threads \ {t} : ip'[u] = ip[u] /\ at'[u] = at[u]
  BY <1>1 DEF Return
<1>3. Advances(t)
  BY <1>1, <1>2 DEF Advances
<1> QED
  BY <1>2, <1>3 DEF Advances

LEMMA SettleIs ==
    ASSUME TypeOK, NEW t \in Threads, NEW w \in BOOLEAN, NEW o \in BOOLEAN, NEW S, Settle(t, w, o, S)
    PROVE  /\ waiting' \in [Threads -> BOOLEAN] /\ on' \in [Threads -> BOOLEAN]
           /\ waiting'[t] = w /\ on'[t] = o
           /\ \A u \in Threads \ {t} :
                /\ waiting'[u] <=> waiting[u] /\ u \notin Woken(S)
                /\ on'[u] <=> on[u] \/ u \in Woken(S)
BY DEF Settle, TypeOK, SleepTypeOK

\* Types of what Sleep keeps, and of the rest.
SleepKeepsTypes ==
    /\ prog' = prog /\ finished' = finished
    /\ (\A u \in Threads : Advances(u)) /\ ip' \in [Threads -> Nat]
    /\ at' \in [Threads -> Places]
    /\ waiting' \in [Threads -> BOOLEAN] /\ on' \in [Threads -> BOOLEAN]
    /\ queue' \in [Queues -> Seq(Threads)]

LEMMA SyncTypes ==
    ASSUME TypeOK, SleepKeepsTypes, UNCHANGED threadVars,
           holder' \in [Mutexes -> Threads \cup {None}],
           depth' \in [Mutexes -> Nat], prio' \in [Threads -> Int],
           happened' \in [Conds -> BOOLEAN],
           arrived' \in [Barriers -> Nat], \A b \in Barriers : arrived'[b] < Parties[b],
           rwStatus' \in [RwLocks -> {"none", "reading", "writing"}],
           rwCount' \in [RwLocks -> Nat]
    PROVE  TypeOK'
<1>1. SleepTypeOK'
  <2>1. \A u \in Threads : ip'[u] \in 1..(Len(prog'[u]) + 1)
    BY AdvanceIs DEF SleepKeepsTypes
  <2> QED
    BY <2>1 DEF SleepKeepsTypes, TypeOK, SleepTypeOK
<1> QED
  BY <1>1 DEF TypeOK, SleepKeepsTypes, threadVars

\* Most steps leave the locks alone.
LEMMA SyncTypesSame ==
    ASSUME TypeOK, SleepKeepsTypes, UNCHANGED threadVars, UNCHANGED syncVars
    PROVE  TypeOK'
BY SyncTypes DEF TypeOK, syncVars, mutexVars, rwVars

LEMMA TakeIs ==
    ASSUME TInv, NEW t \in Threads, NEW m \in Mutexes, Take(t, m)
    PROVE  /\ holder' \in [Mutexes -> Threads \cup {None}]
           /\ depth' \in [Mutexes -> Nat] /\ prio' \in [Threads -> Int] /\ Counted'
           /\ \A x \in Mutexes : holder'[x] \in {holder[x], t}
BY DEF Take, TInv, TypeOK, Counted

LEMMA InheritIs ==
    ASSUME TInv, NEW t \in Threads, NEW m \in Mutexes, ~MayTake(t, m), Inherit(t, m)
    PROVE  /\ holder' \in [Mutexes -> Threads \cup {None}]
           /\ depth' \in [Mutexes -> Nat] /\ prio' \in [Threads -> Int] /\ Counted'
           /\ \A x \in Mutexes : holder'[x] \in {holder[x], t}
           /\ holder' = holder /\ holder[m] # None
<1>1. holder[m] # None
  BY DEF MayTake
<1> QED
  BY <1>1 DEF Inherit, TInv, TypeOK, Counted

\* A thread takes a mutex, or queues up for it.
LEMMA LockTryKeeps ==
    ASSUME TInv, NEW t \in Threads, LockTry(t), UNCHANGED threadVars
    PROVE  TInv'
<1>1. TypeOK /\ Fine(t) /\ RwCounted
  BY DEF TInv
<1>2. PICK m : m = Wanted(t)
  OBVIOUS
<1>3. Op(t) \in {"lock", "timedlock"} \cup Awaits /\ m \in Mutexes
  BY <1>1, <1>2, AtCall DEF LockTry, Calls, Inside, Fine, PlacedAt
<1>4. Op(t) \notin {"read", "write", "end", "waitpid"} /\ Op(t) \in Waits
  BY <1>3 DEF Awaits, Waits
<1>5. /\ \/ MayTake(t, m) /\ Take(t, m) /\ Return(t, After(t))
         \/ Deadlk(t, m) /\ Return(t, Skip) /\ UNCHANGED mutexVars
         \/ ~MayTake(t, m) /\ ~Deadlk(t, m) /\ Inherit(t, m) /\ Goto(t, "add")
      /\ UNCHANGED <<prog, on, waiting, finished, queue, happened, arrived, rwVars>>
  BY <1>2 DEF LockTry
<1>6. /\ prog' = prog /\ on' = on /\ waiting' = waiting /\ finished' = finished /\ queue' = queue
      /\ happened' = happened /\ arrived' = arrived /\ rwStatus' = rwStatus /\ rwCount' = rwCount
  BY <1>5 DEF rwVars
<1>7. /\ holder' \in [Mutexes -> Threads \cup {None}]
      /\ depth' \in [Mutexes -> Nat] /\ prio' \in [Threads -> Int] /\ Counted'
      /\ \A x \in Mutexes : holder'[x] \in {holder[x], t}
  <2>1. CASE Take(t, m)
    BY <2>1, <1>3, TakeIs
  <2>2. CASE ~MayTake(t, m) /\ Inherit(t, m)
    BY <2>2, <1>3, InheritIs
  <2>3. CASE UNCHANGED mutexVars
    BY <2>3, <1>1 DEF mutexVars, TypeOK, TInv, Counted
  <2> QED
    BY <2>1, <2>2, <2>3, <1>5
<1>8. /\ at' = [at EXCEPT ![t] = "go"] \/ (at' = [at EXCEPT ![t] = "add"] /\ ip' = ip)
      /\ ip' \in [Threads -> Nat]
      /\ \A u \in Threads \ {t} : ip'[u] = ip[u] /\ at'[u] = at[u]
      /\ \A u \in Threads : Advances(u)
  <2>1. CASE Return(t, After(t))
    <3>1. After(t) \in {0, 1}
      BY DEF After
    <3>2. PICK n \in Nat : n \in {0, 1} /\ Return(t, n)
      BY <2>1, <3>1
    <3> QED
      BY <3>2, <1>1, <1>4, ReturnIs
  <2>2. CASE Deadlk(t, m) /\ Return(t, Skip)
    <3>1. Op(t) \in {"lock", "timedlock"}
      <4>1. CASE Calls(t, {"lock", "timedlock"})
        BY <4>1 DEF Calls
      <4>2. CASE Inside(t, "relock")
        <5>1. Op(t) \in Awaits /\ holder[Guards[Arg(t)]] # t
          BY <4>2, <1>1 DEF Inside, Fine, PlacedAt, GivenBack
        <5> QED
          BY <5>1, <1>2, <2>2 DEF Wanted, Deadlk
      <4> QED
        BY <4>1, <4>2 DEF LockTry
    <3>2. m = Arg(t)
      BY <3>1, <1>2 DEF Wanted, Awaits
    <3>3. MayFail(prog[t][ip[t]])
      BY <3>1, <3>2, <2>2, <1>1, <1>4, AtCall DEF MayFail, Deadlk
    <3>4. Return(t, 2)
      BY <2>2 DEF Skip
    <3> QED
      BY <3>3, <3>4, <1>1, <1>4, ReturnIs
  <2>3. CASE Goto(t, "add")
    BY <2>3, <1>1, GotoIs
  <2> QED
    BY <2>1, <2>2, <2>3, <1>5
<1>9. Moves(t)
  BY <1>1, <1>6, <1>8 DEF Moves, TypeOK
<1>10. TypeOK'
  <2>1. SleepKeepsTypes
    BY <1>1, <1>6, <1>8 DEF SleepKeepsTypes, TypeOK, SleepTypeOK, Places
  <2> QED
    BY <1>1, <1>6, <1>7, <2>1, SyncTypes DEF TypeOK
<1>11. Fine(t)'
  <2>1. CASE at' = [at EXCEPT ![t] = "go"]
    BY <2>1, <1>1, FreeFine DEF TypeOK
  <2>2. CASE at' = [at EXCEPT ![t] = "add"] /\ ip' = ip
    <3>1. at'[t] = "add" /\ Op(t)' = Op(t)
      BY <2>2, <1>1, <1>6, SameCall DEF TypeOK
    <3> QED
      BY <3>1, <1>4 DEF Fine, PlacedAt, LinkedAt, GivenBack, Reason, Linking, Loop
  <2> QED
    BY <2>1, <2>2, <1>8
<1>12. Single' /\ RwCounted'
  BY <1>1, <1>6, <1>8, RwStays, QueueIs
<1>13. ASSUME NEW u \in Threads \ {t} PROVE Spares(u)
  BY <1>6, <1>7, <1>9, Spared
<1> QED
  BY <1>7, <1>9, <1>10, <1>11, <1>12, <1>13, SyncKeeps

\* A step of t that touches no lock.
LEMMA QuietKeeps ==
    ASSUME TInv, NEW t \in Threads, UNCHANGED <<prog, finished, threadVars, syncVars>>,
           queue' = queue \/ \E q \in Queues : queue' \in {Added(t, q), Deleted(t, q)},
           waiting' \in [Threads -> BOOLEAN], on' \in [Threads -> BOOLEAN],
           \A u \in Threads \ {t} : waiting'[u] => waiting[u],
           NEW w \in Places \ {"none"}, at' = [at EXCEPT ![t] = w],
           ip' \in [Threads -> Nat], \A u \in Threads \ {t} : ip'[u] = ip[u],
           \A u \in Threads : Advances(u),
           Fine(t)'
    PROVE  TInv'
<1>1. TypeOK /\ RwCounted /\ Counted
  BY DEF TInv
<1>2. /\ prog' = prog /\ finished' = finished /\ UNCHANGED threadVars /\ UNCHANGED syncVars
      /\ holder' = holder /\ depth' = depth /\ rwStatus' = rwStatus /\ rwCount' = rwCount
  BY DEF syncVars, mutexVars, rwVars
<1>3. at' \in [Threads -> Places] /\ at'[t] = w /\ \A u \in Threads \ {t} : at'[u] = at[u]
  BY <1>1 DEF TypeOK
<1>4. queue' \in [Queues -> Seq(Threads)] /\ Single'
  BY QueueIs
<1>5. Moves(t)
  BY <1>2, <1>3 DEF Moves
<1>6. TypeOK'
  <2>1. SleepKeepsTypes
    BY <1>2, <1>3, <1>4 DEF SleepKeepsTypes
  <2> QED
    BY <1>1, <1>2, <2>1, SyncTypesSame
<1>7. Counted' /\ RwCounted'
  <2>1. Counted'
    BY <1>1, <1>2 DEF Counted
  <2> QED
    BY <2>1, <1>1, <1>2, RwStays
<1>8. ASSUME NEW u \in Threads \ {t} PROVE Spares(u)
  BY <1>2, <1>5, Spared
<1> QED
  BY <1>4, <1>5, <1>6, <1>7, <1>8, SyncKeeps

\* The same, by Goto() and Return().
LEMMA QuietGoto ==
    ASSUME TInv, NEW t \in Threads, UNCHANGED <<prog, finished, threadVars, syncVars>>,
           queue' = queue \/ \E q \in Queues : queue' \in {Added(t, q), Deleted(t, q)},
           waiting' \in [Threads -> BOOLEAN], on' \in [Threads -> BOOLEAN],
           \A u \in Threads \ {t} : waiting'[u] => waiting[u],
           NEW w \in Places \ {"none"}, Goto(t, w),
           Fine(t)'
    PROVE  TInv'
<1>1. TypeOK
  BY DEF TInv
<1>2. /\ at' = [at EXCEPT ![t] = w] /\ ip' \in [Threads -> Nat]
      /\ \A u \in Threads \ {t} : ip'[u] = ip[u]
      /\ \A u \in Threads : Advances(u)
  BY <1>1, GotoIs
<1> QED
  BY <1>2, QuietKeeps

LEMMA QuietReturn ==
    ASSUME TInv, NEW t \in Threads, UNCHANGED <<prog, finished, threadVars, syncVars>>,
           queue' = queue \/ \E q \in Queues : queue' \in {Added(t, q), Deleted(t, q)},
           waiting' \in [Threads -> BOOLEAN], on' \in [Threads -> BOOLEAN],
           \A u \in Threads \ {t} : waiting'[u] => waiting[u],
           NEW n \in Nat, Return(t, n),
           \/ n = 0
           \/ n = 1 /\ Op(t) \notin {"read", "write", "end"}
           \/ n = 2 /\ Op(t) # "end" /\ MayFail(prog[t][ip[t]])
    PROVE  TInv'
<1>1. TypeOK
  BY DEF TInv
<1>2. /\ at' = [at EXCEPT ![t] = "go"] /\ at'[t] = "go" /\ ip' \in [Threads -> Nat]
      /\ \A u \in Threads \ {t} : ip'[u] = ip[u]
      /\ \A u \in Threads : Advances(u)
  BY <1>1, ReturnIs
<1>3. Fine(t)'
  BY <1>2, FreeFine
<1>4. "go" \in Places \ {"none"}
  BY DEF Places
<1> QED
  BY <1>2, <1>3, <1>4, QuietKeeps

\* In the loop of WAITQ_WAIT.
LEMMA LoopSpot ==
    ASSUME TInv, NEW t \in Threads, prog' = prog, ip' = ip,
           at[t] \in Loop \cup {"fail"}, at'[t] \in Loop \cup {"fail"}
    PROVE  /\ Op(t)' = Op(t) /\ Wanted(t)' = Wanted(t) /\ Spot(t)' = Spot(t)
           /\ Op(t) \in Waits
           /\ Spot(t) = IF Op(t) = "waitpid" THEN Children ELSE Wanted(t)
           /\ Spot(t) \in Queues
<1>1. TypeOK /\ Fine(t)
  BY DEF TInv
<1>2. Op(t)' = Op(t) /\ Wanted(t)' = Wanted(t) /\ Arg(t)' = Arg(t)
  BY SameCall
<1>3. Op(t) \in Waits
  BY <1>1 DEF Fine, PlacedAt, Waits
<1>4. at[t] \notin {"cond", "barrier", "rw"} /\ at'[t] \notin {"cond", "barrier", "rw"}
  BY DEF Loop
<1>5. Spot(t) \in Queues
  BY <1>1, SpotIs DEF Fine
<1> QED
  BY <1>2, <1>3, <1>4, <1>5 DEF Spot

LEMMA WaitLoopKeeps ==
    ASSUME TInv, NEW t \in Threads, UNCHANGED <<threadVars, syncVars>>,
           NEW q, q = (IF Op(t) = "waitpid" THEN Children ELSE Wanted(t)), WaitLoop(t, q)
    PROVE  TInv'
<1>1. TypeOK /\ Fine(t) /\ UNCHANGED threadVars /\ UNCHANGED syncVars
  BY DEF TInv
<1>2. waiting \in [Threads -> BOOLEAN] /\ on \in [Threads -> BOOLEAN]
  BY <1>1 DEF TypeOK, SleepTypeOK
<1>3. \A S : Woken(S) \subseteq S
  BY DEF Woken
<1>4. CASE WaitAdd(t, q)
  <2>1. /\ at[t] = "add" /\ queue' = Added(t, q) /\ Goto(t, "prepare") /\ ip' = ip
        /\ UNCHANGED <<prog, on, waiting, finished>> /\ at'[t] = "prepare"
    BY <1>1, <1>4, GotoIs DEF WaitAdd, Inside
  <2>2. Op(t)' = Op(t) /\ Op(t) \in Waits /\ q \in Queues /\ Spot(t)' = q
    BY <2>1, LoopSpot DEF Loop
  <2>3. t \in ToSet(queue'[q])
    BY <2>1, <2>2, <1>1, AddedIs DEF TInv, TypeOK, SleepTypeOK
  <2>4. Fine(t)'
    BY <2>1, <2>2, <2>3 DEF Fine, PlacedAt, LinkedAt, GivenBack, Reason, Loop
  <2>5. "prepare" \in Places \ {"none"}
    BY DEF Places
  <2> QED
    BY <1>1, <1>2, <2>1, <2>2, <2>4, <2>5, QuietGoto
<1>5. CASE WaitPrepare(t)
  <2>1. /\ at[t] = "prepare" /\ Settle(t, TRUE, TRUE, {}) /\ Goto(t, "check") /\ ip' = ip
        /\ UNCHANGED <<prog, finished, queue>> /\ at'[t] = "check"
    BY <1>1, <1>5, GotoIs DEF WaitPrepare, Inside
  <2>2. Op(t)' = Op(t) /\ Op(t) \in Waits /\ Spot(t)' = Spot(t)
    BY <2>1, LoopSpot DEF Loop
  <2>3. Fine(t)'
    BY <2>1, <2>2, <1>1 DEF Fine, PlacedAt, LinkedAt, GivenBack, Reason, Loop, Linking
  <2>4. "check" \in Places \ {"none"}
    BY DEF Places
  <2>5. /\ waiting' \in [Threads -> BOOLEAN] /\ on' \in [Threads -> BOOLEAN]
        /\ \A u \in Threads \ {t} : waiting'[u] => waiting[u]
    BY <1>1, <2>1, SettleIs
  <2> QED
    BY <1>1, <2>1, <2>3, <2>4, <2>5, QuietGoto
<1>6. CASE WaitSchedule(t) /\ waiting[t]
  <2>1. /\ at[t] = "sleep" /\ Settle(t, TRUE, FALSE, {}) /\ Goto(t, "asleep") /\ ip' = ip
        /\ UNCHANGED <<prog, finished, queue>> /\ at'[t] = "asleep"
    BY <1>1, <1>6, GotoIs DEF WaitSchedule, Inside
  <2>2. Op(t)' = Op(t) /\ Wanted(t)' = Wanted(t) /\ Op(t) \in Waits /\ Spot(t)' = Spot(t)
    BY <2>1, LoopSpot DEF Loop
  <2>3. status' = status /\ holder' = holder
    BY <1>1 DEF threadVars, syncVars, mutexVars
  <2>4. Fine(t)'
    BY <2>1, <2>2, <2>3, <1>1, <1>6 DEF Fine, PlacedAt, LinkedAt, GivenBack, Reason, Loop, Linking
  <2>5. "asleep" \in Places \ {"none"}
    BY DEF Places
  <2>6. /\ waiting' \in [Threads -> BOOLEAN] /\ on' \in [Threads -> BOOLEAN]
        /\ \A u \in Threads \ {t} : waiting'[u] => waiting[u]
    BY <1>1, <2>1, SettleIs
  <2> QED
    BY <1>1, <2>1, <2>4, <2>5, <2>6, QuietGoto
<1>7. CASE (WaitSchedule(t) /\ ~waiting[t]) \/ WaitAgain(t)
  <2>1. /\ at[t] \in {"sleep", "asleep"} /\ Goto(t, "add") /\ ip' = ip
        /\ UNCHANGED <<prog, on, waiting, finished, queue>> /\ at'[t] = "add"
    BY <1>1, <1>7, GotoIs DEF WaitSchedule, WaitAgain, Inside
  <2>2. Op(t)' = Op(t) /\ Op(t) \in Waits
    BY <2>1, LoopSpot DEF Loop
  <2>3. Fine(t)'
    BY <2>1, <2>2 DEF Fine, PlacedAt, LinkedAt, GivenBack, Reason, Loop, Linking
  <2>4. "add" \in Places \ {"none"}
    BY DEF Places
  <2> QED
    BY <1>1, <1>2, <2>1, <2>3, <2>4, QuietGoto
<1> QED
  BY <1>4, <1>5, <1>6, <1>7 DEF WaitLoop

\* A step of t that may touch locks.
LEMMA StepKeeps ==
    ASSUME TInv, NEW t \in Threads, UNCHANGED <<prog, finished, threadVars>>,
           queue' = queue \/ \E q \in Queues : queue' \in {Added(t, q), Deleted(t, q)},
           waiting' \in [Threads -> BOOLEAN], on' \in [Threads -> BOOLEAN],
           NEW w \in Places \ {"none"}, at' = [at EXCEPT ![t] = w],
           ip' \in [Threads -> Nat], \A u \in Threads \ {t} : ip'[u] = ip[u],
           \A u \in Threads : ip'[u] \in 1..(Len(prog'[u]) + 1),
           holder' \in [Mutexes -> Threads \cup {None}],
           depth' \in [Mutexes -> Nat], prio' \in [Threads -> Int],
           happened' \in [Conds -> BOOLEAN],
           arrived' \in [Barriers -> Nat], \A b \in Barriers : arrived'[b] < Parties[b],
           rwStatus' \in [RwLocks -> {"none", "reading", "writing"}],
           rwCount' \in [RwLocks -> Nat],
           Counted', RwCounted', Fine(t)',
           Moves(t) => \A u \in Threads \ {t} : Spares(u)
    PROVE  TInv'
<1>1. TypeOK
  BY DEF TInv
<1>2. at' \in [Threads -> Places] /\ at'[t] = w /\ \A u \in Threads \ {t} : at'[u] = at[u]
  BY <1>1 DEF TypeOK
<1>3. queue' \in [Queues -> Seq(Threads)] /\ Single'
  BY QueueIs
<1>4. Moves(t)
  BY <1>2 DEF Moves
<1>5. TypeOK'
  <2>1. SleepTypeOK'
    BY <1>1, <1>3 DEF TypeOK, SleepTypeOK
  <2> QED
    BY <1>1, <1>2, <2>1 DEF TypeOK, threadVars
<1> QED
  BY <1>3, <1>4, <1>5, SyncKeeps

\* A mutex is given back: everybody on its queue is woken, and nobody else waits
\* for it.
LEMMA ReleaseSpares ==
    ASSUME TInv, NEW t \in Threads, Moves(t), NEW u \in Threads \ {t}, NEW m \in Mutexes,
           queue' = queue \/ \E q \in Queues : queue' \in {Added(t, q), Deleted(t, q)},
           waiting'[u] <=> waiting[u] /\ u \notin Woken(ToSet(queue[m])),
           holder' = [holder EXCEPT ![m] = None],
           rwStatus' = rwStatus
    PROVE  Spares(u)
<1>1. \A q \in Queues : u \in ToSet(queue[q]) => u \in ToSet(queue'[q])
  BY QueueIs
<1>2. TypeOK /\ Fine(u)
  BY DEF TInv
<1>3. holder' \in [Mutexes -> Threads \cup {None}]
  BY <1>2 DEF TypeOK
<1>4. \A x \in Mutexes : holder'[x] = u => holder[x] = u
  BY <1>2, <1>3, SyncAssumption DEF TypeOK
<1>5. ASSUME waiting'[u], u \notin finished, at[u] \in {"sleep", "asleep"}, Op(u) # "waitpid",
             holder[Wanted(u)] # None
      PROVE  holder'[Wanted(u)] # None
  <2>1. Wanted(u) \in Mutexes /\ at[u] \notin {"cond", "barrier", "rw"}
    BY <1>2, <1>5, AtCall DEF Fine, PlacedAt, Loop, Waits
  <2>2. Spot(u) = Wanted(u)
    BY <1>5, <2>1 DEF Spot
  <2>3. u \in ToSet(queue[Wanted(u)])
    BY <1>2, <1>5, <2>2 DEF Fine, LinkedAt, Linking
  <2>4. u \notin ToSet(queue[m])
    BY <1>5 DEF Woken
  <2> QED
    BY <1>2, <1>5, <2>1, <2>3, <2>4 DEF TypeOK
<1>6. MayEnter(u, Arg(u))' <=> MayEnter(u, Arg(u))
  <2>1. Op(u)' = Op(u) /\ Arg(u)' = Arg(u)
    BY SameCall DEF Moves
  <2> QED
    BY <2>1 DEF MayEnter, Mode
<1> QED
  BY <1>1, <1>4, <1>5, <1>6 DEF Spares

LEMMA ReleaseIs ==
    ASSUME TInv, NEW t \in Threads, NEW m \in Mutexes, Release(t, m)
    PROVE  /\ holder' \in [Mutexes -> Threads \cup {None}]
           /\ depth' \in [Mutexes -> Nat] /\ prio' \in [Threads -> Int] /\ Counted'
           /\ holder' = [holder EXCEPT ![m] = None]
BY SyncAssumption DEF Release, TInv, TypeOK, Counted

\* The loop ends.
LEMMA CleanupKeeps ==
    ASSUME TInv, NEW t \in Threads, UNCHANGED <<threadVars, syncVars>>,
           NEW q \in Queues, NEW n \in Nat, WaitCleanup(t, q, n),
           \/ n = 0
           \/ n = 1 /\ Op(t) \notin {"read", "write", "end"}
           \/ n = 2 /\ Op(t) # "end" /\ MayFail(prog[t][ip[t]])
    PROVE  TInv'
<1>1. /\ queue' = Deleted(t, q) /\ Settle(t, FALSE, TRUE, {}) /\ Return(t, n)
      /\ UNCHANGED <<prog, finished>>
  BY DEF WaitCleanup
<1>2. TypeOK
  BY DEF TInv
<1>3. /\ waiting' \in [Threads -> BOOLEAN] /\ on' \in [Threads -> BOOLEAN]
      /\ \A u \in Threads \ {t} : waiting'[u] => waiting[u]
  BY <1>1, <1>2, SettleIs
<1> QED
  BY <1>1, <1>3, QuietReturn

LEMMA LockWaitKeeps ==
    ASSUME TInv, NEW t \in Threads, LockWait(t), UNCHANGED threadVars
    PROVE  TInv'
<1>1. TypeOK /\ Fine(t)
  BY DEF TInv
<1>2. Op(t) \in {"lock", "timedlock"} \cup Awaits /\ UNCHANGED syncVars
  BY DEF LockWait
<1>3. Op(t) \notin {"waitpid", "read", "write", "end"}
  BY <1>2 DEF Awaits
<1>4. Wanted(t) \in Queues
  BY <1>1, <1>2, AtCall, SyncAssumption
<1>5. CASE WaitLoop(t, Wanted(t))
  BY <1>2, <1>3, <1>5, WaitLoopKeeps
<1>6. CASE Op(t) = "timedlock" /\ WaitTimeout(t)
  <2>1. /\ at[t] \in {"sleep", "asleep"} /\ Settle(t, FALSE, TRUE, {}) /\ Goto(t, "fail") /\ ip' = ip
        /\ UNCHANGED <<prog, finished, queue>> /\ at'[t] = "fail"
    BY <1>1, <1>6, GotoIs DEF WaitTimeout
  <2>2. Op(t)' = Op(t) /\ Spot(t)' = Spot(t)
    BY <2>1, LoopSpot DEF Loop
  <2>3. Fine(t)'
    BY <2>1, <2>2, <1>1, <1>6 DEF Fine, PlacedAt, LinkedAt, GivenBack, Reason, Loop, Linking
  <2>4. "fail" \in Places \ {"none"}
    BY DEF Places
  <2>5. /\ waiting' \in [Threads -> BOOLEAN] /\ on' \in [Threads -> BOOLEAN]
        /\ \A u \in Threads \ {t} : waiting'[u] => waiting[u]
    BY <1>1, <2>1, SettleIs
  <2> QED
    BY <1>2, <2>1, <2>3, <2>4, <2>5, QuietGoto
<1>7. CASE Inside(t, "out") /\ WaitCleanup(t, Wanted(t), After(t))
  <2>1. PICK n \in Nat : n \in {0, 1} /\ WaitCleanup(t, Wanted(t), n)
    BY <1>7 DEF After
  <2> QED
    BY <1>2, <1>3, <1>4, <2>1, CleanupKeeps
<1>8. CASE Inside(t, "fail") /\ WaitCleanup(t, Wanted(t), Skip)
  <2>1. Op(t) = "timedlock"
    BY <1>1, <1>8 DEF Inside, Fine, PlacedAt
  <2>2. MayFail(prog[t][ip[t]])
    BY <2>1, <1>1, AtCall DEF MayFail
  <2>3. PICK n \in Nat : n = 2 /\ WaitCleanup(t, Wanted(t), n)
    BY <1>8 DEF Skip
  <2> QED
    BY <1>2, <1>3, <1>4, <2>2, <2>3, CleanupKeeps
<1> QED
  BY <1>5, <1>6, <1>7, <1>8 DEF LockWait

LEMMA LockCheckKeeps ==
    ASSUME TInv, NEW t \in Threads, LockCheck(t), UNCHANGED threadVars
    PROVE  TInv'
<1>1. TypeOK /\ Fine(t) /\ RwCounted
  BY DEF TInv
<1>2. PICK m : m = Wanted(t)
  OBVIOUS
<1>3. at[t] = "check" /\ Op(t) \in {"lock", "timedlock"} \cup Awaits /\ m \in Mutexes
  BY <1>1, <1>2, AtCall DEF LockCheck, Inside
<1>4. Op(t) # "waitpid"
  BY <1>3 DEF Awaits
<1>5. /\ \/ MayTake(t, m) /\ Take(t, m) /\ Goto(t, "out")
         \/ ~MayTake(t, m) /\ Inherit(t, m) /\ Goto(t, "sleep")
      /\ prog' = prog /\ on' = on /\ waiting' = waiting /\ finished' = finished /\ queue' = queue
      /\ happened' = happened /\ arrived' = arrived /\ rwStatus' = rwStatus /\ rwCount' = rwCount
  BY <1>2 DEF LockCheck, rwVars
<1>6. PICK w \in {"out", "sleep"} : Goto(t, w) /\ (w = "sleep" => ~MayTake(t, m) /\ Inherit(t, m))
  BY <1>5
<1>7. /\ holder' \in [Mutexes -> Threads \cup {None}]
      /\ depth' \in [Mutexes -> Nat] /\ prio' \in [Threads -> Int] /\ Counted'
      /\ \A x \in Mutexes : holder'[x] \in {holder[x], t}
  BY <1>3, <1>5, TakeIs, InheritIs
<1>8. /\ ip' = ip /\ at' = [at EXCEPT ![t] = w] /\ at'[t] = w /\ ip' \in [Threads -> Nat]
      /\ \A u \in Threads : Advances(u)
  BY <1>1, <1>6, GotoIs
<1>9. \A u \in Threads : ip'[u] \in 1..(Len(prog'[u]) + 1)
  BY <1>1, <1>5, <1>8, AdvanceIs
<1>10. RwCounted'
  BY <1>1, <1>5, <1>8, RwStays
<1>11. /\ Op(t)' = Op(t) /\ Wanted(t)' = Wanted(t) /\ Spot(t)' = Spot(t) /\ Op(t) \in Waits
  BY <1>3, <1>5, <1>8, LoopSpot DEF Loop
<1>12. w = "sleep" => holder'[m] # None
  BY <1>3, <1>6, InheritIs
<1>13. Fine(t)'
  BY <1>1, <1>2, <1>3, <1>4, <1>5, <1>8, <1>11, <1>12
     DEF Fine, PlacedAt, LinkedAt, GivenBack, Reason, Loop, Linking
<1>14. w \in Places \ {"none"}
  BY DEF Places
<1>15. Moves(t) => \A u \in Threads \ {t} : Spares(u)
  BY <1>5, <1>7, Spared
<1> QED
  BY <1>1, <1>5, <1>7, <1>8, <1>9, <1>10, <1>13, <1>14, <1>15, StepKeeps DEF TypeOK, SleepTypeOK

LEMMA TryLockKeeps ==
    ASSUME TInv, NEW t \in Threads, TryLock(t), UNCHANGED threadVars
    PROVE  TInv'
<1>1. TypeOK /\ Fine(t) /\ RwCounted
  BY DEF TInv
<1>2. Op(t) = "trylock" /\ Arg(t) \in Mutexes
  BY <1>1, AtCall DEF TryLock, Calls, Locks
<1>3. /\ prog' = prog /\ on' = on /\ waiting' = waiting /\ finished' = finished /\ queue' = queue
      /\ happened' = happened /\ arrived' = arrived /\ rwStatus' = rwStatus /\ rwCount' = rwCount
  BY DEF TryLock, rwVars
<1>4. CASE MayTake(t, Arg(t)) /\ Take(t, Arg(t)) /\ Return(t, 1)
  <2>1. /\ holder' \in [Mutexes -> Threads \cup {None}]
        /\ depth' \in [Mutexes -> Nat] /\ prio' \in [Threads -> Int] /\ Counted'
        /\ \A x \in Mutexes : holder'[x] \in {holder[x], t}
    BY <1>2, <1>4, TakeIs
  <2>2. /\ at' = [at EXCEPT ![t] = "go"] /\ at'[t] = "go" /\ ip' \in [Threads -> Nat]
        /\ \A u \in Threads \ {t} : ip'[u] = ip[u]
        /\ \A u \in Threads : Advances(u)
    BY <1>1, <1>2, <1>4, ReturnIs
  <2>3. \A u \in Threads : ip'[u] \in 1..(Len(prog'[u]) + 1)
    BY <1>1, <1>3, <2>2, AdvanceIs
  <2>4. RwCounted' /\ Fine(t)'
    BY <1>1, <1>3, <2>2, RwStays, FreeFine
  <2>5. "go" \in Places \ {"none"}
    BY DEF Places
  <2>6. Moves(t) => \A u \in Threads \ {t} : Spares(u)
    BY <1>3, <2>1, Spared
  <2> QED
    BY <1>1, <1>3, <2>1, <2>2, <2>3, <2>4, <2>5, <2>6, StepKeeps DEF TypeOK, SleepTypeOK
<1>5. CASE Return(t, Skip) /\ UNCHANGED mutexVars
  <2>1. MayFail(prog[t][ip[t]])
    BY <1>1, <1>2, AtCall DEF MayFail
  <2>2. Return(t, 2) /\ UNCHANGED syncVars
    BY <1>3, <1>5 DEF Skip, syncVars, mutexVars, rwVars
  <2> QED
    BY <1>1, <1>2, <1>3, <2>1, <2>2, QuietReturn DEF TypeOK, SleepTypeOK
<1> QED
  BY <1>4, <1>5 DEF TryLock

\* mutex_unlock(): who is on the queue is woken, or the mutex stays.
LEMMA UnlockKeeps ==
    ASSUME TInv, NEW t \in Threads, Unlock(t), UNCHANGED threadVars
    PROVE  TInv'
<1>1. TypeOK /\ Fine(t) /\ RwCounted /\ Counted
  BY DEF TInv
<1>2. PICK m : m = Arg(t)
  OBVIOUS
<1>3. Op(t) = "unlock" /\ m \in Mutexes
  BY <1>1, <1>2, AtCall DEF Unlock, Calls
<1>4. /\ prog' = prog /\ finished' = finished /\ queue' = queue /\ Return(t, 1)
      /\ happened' = happened /\ arrived' = arrived /\ rwStatus' = rwStatus /\ rwCount' = rwCount
  BY DEF Unlock, rwVars
<1>5. \/ LastUnlock(t, m) /\ Release(t, m) /\ WakeAll(t, m)
      \/ /\ ~LastUnlock(t, m)
         /\ depth' = [depth EXCEPT ![m] = IF holder[m] = t THEN @ - 1 ELSE @]
         /\ UNCHANGED <<holder, prio, on, waiting>>
  BY <1>2 DEF Unlock
<1>6. /\ at' = [at EXCEPT ![t] = "go"] /\ at'[t] = "go" /\ ip' \in [Threads -> Nat]
      /\ \A u \in Threads \ {t} : ip'[u] = ip[u]
      /\ \A u \in Threads : Advances(u)
  BY <1>1, <1>3, <1>4, ReturnIs
<1>7. \A u \in Threads : ip'[u] \in 1..(Len(prog'[u]) + 1)
  BY <1>1, <1>4, <1>6, AdvanceIs
<1>8. RwCounted' /\ Fine(t)' /\ "go" \in Places \ {"none"}
  BY <1>1, <1>4, <1>6, RwStays, FreeFine DEF Places
<1>9. CASE Release(t, m) /\ WakeAll(t, m)
  <2>1. /\ holder' \in [Mutexes -> Threads \cup {None}]
        /\ depth' \in [Mutexes -> Nat] /\ prio' \in [Threads -> Int] /\ Counted'
        /\ holder' = [holder EXCEPT ![m] = None]
    BY <1>3, <1>9, ReleaseIs
  <2>2. Settle(t, waiting[t], on[t], ToSet(queue[m])) /\ waiting[t] \in BOOLEAN /\ on[t] \in BOOLEAN
    BY <1>1, <1>9 DEF WakeAll, TypeOK, SleepTypeOK
  <2>3. /\ waiting' \in [Threads -> BOOLEAN] /\ on' \in [Threads -> BOOLEAN]
        /\ \A u \in Threads \ {t} : waiting'[u] <=> waiting[u] /\ u \notin Woken(ToSet(queue[m]))
    BY <1>1, <2>2, SettleIs
  <2>4. Moves(t) => \A u \in Threads \ {t} : Spares(u)
    BY <1>3, <1>4, <2>1, <2>3, ReleaseSpares
  <2> QED
    BY <1>1, <1>4, <1>6, <1>7, <1>8, <2>1, <2>3, <2>4, StepKeeps DEF TypeOK, SleepTypeOK
<1>10. CASE /\ ~LastUnlock(t, m)
            /\ depth' = [depth EXCEPT ![m] = IF holder[m] = t THEN @ - 1 ELSE @]
            /\ UNCHANGED <<holder, prio, on, waiting>>
  <2>1. holder[m] = t => depth[m] # 1 /\ depth[m] >= 1
    BY <1>1, <1>3, <1>10, SyncAssumption DEF LastUnlock, Counted
  <2>2. depth' \in [Mutexes -> Nat] /\ Counted'
    BY <1>1, <1>3, <1>10, <2>1 DEF TypeOK, Counted
  <2>3. Moves(t) => \A u \in Threads \ {t} : Spares(u)
    BY <1>4, <1>10, Spared
  <2> QED
    BY <1>1, <1>4, <1>6, <1>7, <1>8, <1>10, <2>2, <2>3, StepKeeps DEF TypeOK, SleepTypeOK
<1> QED
  BY <1>5, <1>9, <1>10

LEMMA CondWaitKeeps ==
    ASSUME TInv, NEW t \in Threads, CondWait(t), UNCHANGED threadVars
    PROVE  TInv'
<1>1. TypeOK /\ Fine(t) /\ RwCounted
  BY DEF TInv
<1>2. PICK q, m : q = Arg(t) /\ m = Guards[Arg(t)]
  OBVIOUS
<1>3. Op(t) \in Awaits /\ q \in Queues /\ m \in Mutexes /\ Arg(t) \in Conds
  BY <1>1, <1>2, AtCall, SyncAssumption DEF CondWait, Calls
<1>4. /\ prog' = prog /\ finished' = finished /\ queue' = Added(t, q) /\ Goto(t, "cond")
      /\ happened' = happened /\ arrived' = arrived /\ rwStatus' = rwStatus /\ rwCount' = rwCount
      /\ Release(t, m) /\ Settle(t, TRUE, FALSE, ToSet(queue[m]))
  BY <1>2 DEF CondWait, CondPrepare, rwVars
<1>5. /\ ip' = ip /\ at' = [at EXCEPT ![t] = "cond"] /\ at'[t] = "cond" /\ ip' \in [Threads -> Nat]
      /\ \A u \in Threads : Advances(u)
  BY <1>1, <1>4, GotoIs
<1>6. /\ holder' \in [Mutexes -> Threads \cup {None}]
      /\ depth' \in [Mutexes -> Nat] /\ prio' \in [Threads -> Int] /\ Counted'
      /\ holder' = [holder EXCEPT ![m] = None]
  BY <1>3, <1>4, ReleaseIs
<1>7. /\ waiting' \in [Threads -> BOOLEAN] /\ on' \in [Threads -> BOOLEAN]
      /\ \A u \in Threads \ {t} : waiting'[u] <=> waiting[u] /\ u \notin Woken(ToSet(queue[m]))
  BY <1>1, <1>4, SettleIs
<1>8. \A u \in Threads : ip'[u] \in 1..(Len(prog'[u]) + 1)
  BY <1>1, <1>4, <1>5, AdvanceIs
<1>9. RwCounted' /\ "cond" \in Places \ {"none"}
  BY <1>1, <1>4, <1>5, RwStays DEF Places, LockedSleeps
<1>10. Op(t)' = Op(t) /\ Arg(t)' = Arg(t)
  BY <1>4, <1>5, SameCall
<1>11. t \in ToSet(queue'[q])
  BY <1>1, <1>3, <1>4, AddedIs DEF TInv, TypeOK, SleepTypeOK
<1>12. holder'[m] # t
  BY <1>1, <1>3, <1>6, SyncAssumption DEF TypeOK
<1>13. Fine(t)'
  BY <1>2, <1>3, <1>5, <1>10, <1>11, <1>12
     DEF Fine, PlacedAt, LinkedAt, Spot, GivenBack, Reason, Loop, Linking
<1>14. Moves(t) => \A u \in Threads \ {t} : Spares(u)
  BY <1>3, <1>4, <1>6, <1>7, ReleaseSpares
<1> QED
  BY <1>1, <1>3, <1>4, <1>5, <1>6, <1>7, <1>8, <1>9, <1>13, <1>14, StepKeeps DEF TypeOK, SleepTypeOK

\* The other steps of conditions.
LEMMA CondKeeps ==
    ASSUME TInv, NEW t \in Threads, UNCHANGED threadVars,
           AwaitDone(t) \/ CondTimeout(t) \/ CondWoken(t) \/ Signal(t)
    PROVE  TInv'
<1>1. TypeOK /\ Fine(t) /\ waiting \in [Threads -> BOOLEAN] /\ on \in [Threads -> BOOLEAN]
  BY DEF TInv, TypeOK, SleepTypeOK
<1>2. CASE AwaitDone(t)
  <2>1. /\ Return(t, 1) /\ Op(t) \notin {"read", "write", "end"}
        /\ UNCHANGED <<prog, on, waiting, finished, queue, syncVars>>
    BY <1>2 DEF AwaitDone, Calls, Awaits
  <2> QED
    BY <1>1, <2>1, QuietReturn
<1>3. CASE CondTimeout(t)
  <2>1. /\ at[t] = "cond" /\ Settle(t, FALSE, TRUE, {})
        /\ UNCHANGED <<prog, ip, at, finished, queue, syncVars>>
    BY <1>3 DEF CondTimeout
  <2>2. /\ waiting' \in [Threads -> BOOLEAN] /\ on' \in [Threads -> BOOLEAN] /\ ~waiting'[t]
        /\ \A u \in Threads \ {t} : waiting'[u] => waiting[u]
    BY <1>1, <2>1, SettleIs
  <2>3. holder' = holder
    BY <2>1 DEF syncVars, mutexVars
  <2>4. Fine(t)'
    BY <1>1, <2>1, <2>2, <2>3, StaysFine
  <2>5. at' = [at EXCEPT ![t] = "cond"] /\ "cond" \in Places \ {"none"} /\ ip' \in [Threads -> Nat]
    BY <1>1, <2>1 DEF TypeOK, SleepTypeOK, Places, LockedSleeps
  <2>6. \A u \in Threads : Advances(u)
    BY <2>1 DEF Advances
  <2> QED
    BY <2>1, <2>2, <2>4, <2>5, <2>6, QuietKeeps
<1>4. CASE CondWoken(t)
  <2>1. /\ at[t] = "cond" /\ queue' = Deleted(t, Arg(t)) /\ Settle(t, FALSE, TRUE, {})
        /\ Goto(t, "relock") /\ UNCHANGED <<prog, finished, syncVars>>
    BY <1>4 DEF CondWoken, Inside
  <2>2. Op(t) \in Awaits /\ Arg(t) \in Queues
    BY <1>1, <2>1, AtCall, SyncAssumption DEF Fine, PlacedAt
  <2>3. /\ waiting' \in [Threads -> BOOLEAN] /\ on' \in [Threads -> BOOLEAN]
        /\ \A u \in Threads \ {t} : waiting'[u] => waiting[u]
    BY <1>1, <2>1, SettleIs
  <2>4. at'[t] = "relock" /\ Op(t)' = Op(t) /\ Arg(t)' = Arg(t)
    BY <1>1, <2>1, GotoIs, SameCall
  <2>5. holder' = holder
    BY <2>1 DEF syncVars, mutexVars
  <2>6. Fine(t)'
    BY <1>1, <2>1, <2>2, <2>4, <2>5 DEF Fine, PlacedAt, LinkedAt, GivenBack, Reason, Loop, Linking
  <2>7. "relock" \in Places \ {"none"}
    BY DEF Places
  <2> QED
    BY <2>1, <2>2, <2>3, <2>6, <2>7, QuietGoto
<1>5. CASE Signal(t)
  <2>1. /\ Op(t) = "signal" /\ Settle(t, waiting[t], on[t], ToSet(queue[Arg(t)])) /\ Return(t, 1)
        /\ UNCHANGED <<prog, finished, queue, syncVars>>
    BY <1>5 DEF Signal, Calls, WakeAll
  <2>2. waiting[t] \in BOOLEAN /\ on[t] \in BOOLEAN
    BY <1>1
  <2>3. /\ waiting' \in [Threads -> BOOLEAN] /\ on' \in [Threads -> BOOLEAN]
        /\ \A u \in Threads \ {t} : waiting'[u] => waiting[u]
    BY <1>1, <2>1, <2>2, SettleIs
  <2> QED
    BY <2>1, <2>3, QuietReturn
<1> QED
  BY <1>2, <1>3, <1>4, <1>5

LEMMA HappenKeeps ==
    ASSUME TInv, NEW t \in Threads, Happen(t), UNCHANGED threadVars
    PROVE  TInv'
<1>1. TypeOK /\ RwCounted /\ Counted
  BY DEF TInv
<1>2. /\ Op(t) = "happen" /\ happened' = [happened EXCEPT ![Arg(t)] = TRUE] /\ Return(t, 1)
      /\ prog' = prog /\ on' = on /\ waiting' = waiting /\ finished' = finished /\ queue' = queue
      /\ holder' = holder /\ depth' = depth /\ prio' = prio
      /\ arrived' = arrived /\ rwStatus' = rwStatus /\ rwCount' = rwCount
  BY DEF Happen, Calls, mutexVars, rwVars
<1>3. /\ at' = [at EXCEPT ![t] = "go"] /\ at'[t] = "go" /\ ip' \in [Threads -> Nat]
      /\ \A u \in Threads \ {t} : ip'[u] = ip[u]
      /\ \A u \in Threads : Advances(u)
  BY <1>1, <1>2, ReturnIs
<1>4. \A u \in Threads : ip'[u] \in 1..(Len(prog'[u]) + 1)
  BY <1>1, <1>2, <1>3, AdvanceIs
<1>5. RwCounted' /\ Fine(t)' /\ Counted' /\ "go" \in Places \ {"none"}
  BY <1>1, <1>2, <1>3, RwStays, FreeFine DEF Places, Counted
<1>6. Moves(t) => \A u \in Threads \ {t} : Spares(u)
  BY <1>2, Spared
<1>7. happened' \in [Conds -> BOOLEAN]
  BY <1>1, <1>2 DEF TypeOK
<1> QED
  BY <1>1, <1>2, <1>3, <1>4, <1>5, <1>6, <1>7, StepKeeps DEF TypeOK, SleepTypeOK

LEMMA BarrierKeeps ==
    ASSUME TInv, NEW t \in Threads, BarrierWait(t) \/ BarrierWoken(t), UNCHANGED threadVars
    PROVE  TInv'
<1>1. TypeOK /\ Fine(t) /\ RwCounted /\ Counted
  BY DEF TInv
<1>2. CASE BarrierWoken(t)
  <2>1. at[t] = "barrier" /\ WaitCleanup(t, Arg(t), 1) /\ UNCHANGED syncVars
    BY <1>2 DEF BarrierWoken, Inside
  <2>2. Op(t) = "barrier" /\ Arg(t) \in Queues
    BY <1>1, <2>1, AtCall, SyncAssumption DEF Fine, PlacedAt
  <2> QED
    BY <2>1, <2>2, CleanupKeeps
<1>3. CASE BarrierWait(t)
  <2>1. PICK b : b = Arg(t)
    OBVIOUS
  <2>2. Op(t) = "barrier" /\ b \in Barriers /\ b \in Queues
    BY <1>1, <1>3, <2>1, AtCall, SyncAssumption DEF BarrierWait, Calls
  <2>3. /\ prog' = prog /\ finished' = finished /\ happened' = happened
        /\ holder' = holder /\ depth' = depth /\ prio' = prio
        /\ rwStatus' = rwStatus /\ rwCount' = rwCount
    BY <1>3 DEF BarrierWait, mutexVars, rwVars
  <2>4. Counted'
    BY <1>1, <2>3 DEF Counted
  <2>5. arrived[b] \in Nat /\ Parties[b] \in Nat \ {0} /\ arrived[b] < Parties[b]
    BY <1>1, <2>2, SyncAssumption DEF TypeOK
  <2>6. CASE /\ arrived' = [arrived EXCEPT ![b] = 0] /\ WakeAll(t, b) /\ Return(t, 1)
             /\ UNCHANGED queue
    <3>1. /\ at' = [at EXCEPT ![t] = "go"] /\ at'[t] = "go" /\ ip' \in [Threads -> Nat]
          /\ \A u \in Threads \ {t} : ip'[u] = ip[u]
          /\ \A u \in Threads : Advances(u)
      BY <1>1, <2>2, <2>6, ReturnIs
    <3>2. \A u \in Threads : ip'[u] \in 1..(Len(prog'[u]) + 1)
      BY <1>1, <2>3, <3>1, AdvanceIs
    <3>3. RwCounted' /\ Fine(t)' /\ "go" \in Places \ {"none"}
      BY <1>1, <2>3, <3>1, RwStays, FreeFine DEF Places
    <3>4. waiting[t] \in BOOLEAN /\ on[t] \in BOOLEAN
      BY <1>1 DEF TypeOK, SleepTypeOK
    <3>5. /\ waiting' \in [Threads -> BOOLEAN] /\ on' \in [Threads -> BOOLEAN]
          /\ \A u \in Threads \ {t} : waiting'[u] => waiting[u]
      BY <1>1, <2>6, <3>4, SettleIs DEF WakeAll
    <3>6. Moves(t) => \A u \in Threads \ {t} : Spares(u)
      BY <2>3, <2>6, <3>5, Spared
    <3>7. arrived' \in [Barriers -> Nat] /\ \A x \in Barriers : arrived'[x] < Parties[x]
      BY <1>1, <2>2, <2>5, <2>6 DEF TypeOK
    <3> QED
      BY <1>1, <2>3, <2>4, <2>6, <3>1, <3>2, <3>3, <3>5, <3>6, <3>7, StepKeeps DEF TypeOK
  <2>7. CASE /\ ~IsLast(b) /\ arrived' = [arrived EXCEPT ![b] = @ + 1] /\ queue' = Added(t, b)
             /\ Settle(t, TRUE, FALSE, {}) /\ Goto(t, "barrier")
    <3>1. /\ ip' = ip /\ at' = [at EXCEPT ![t] = "barrier"] /\ at'[t] = "barrier"
          /\ ip' \in [Threads -> Nat] /\ \A u \in Threads : Advances(u)
      BY <1>1, <2>7, GotoIs
    <3>2. \A u \in Threads : ip'[u] \in 1..(Len(prog'[u]) + 1)
      BY <1>1, <2>3, <3>1, AdvanceIs
    <3>3. RwCounted' /\ "barrier" \in Places \ {"none"}
      BY <1>1, <2>3, <3>1, RwStays DEF Places, LockedSleeps
    <3>4. /\ waiting' \in [Threads -> BOOLEAN] /\ on' \in [Threads -> BOOLEAN]
          /\ \A u \in Threads \ {t} : waiting'[u] => waiting[u]
      BY <1>1, <2>7, SettleIs
    <3>5. t \in ToSet(queue'[b])
      BY <1>1, <2>2, <2>7, AddedIs DEF TInv, TypeOK, SleepTypeOK
    <3>6. Op(t)' = Op(t) /\ Arg(t)' = Arg(t)
      BY <2>3, <3>1, SameCall
    <3>7. Fine(t)'
      BY <2>1, <2>2, <3>1, <3>5, <3>6
         DEF Fine, PlacedAt, LinkedAt, Spot, GivenBack, Reason, Loop, Linking
    <3>8. Moves(t) => \A u \in Threads \ {t} : Spares(u)
      BY <2>2, <2>3, <2>7, <3>4, Spared
    <3>9. arrived' \in [Barriers -> Nat] /\ \A x \in Barriers : arrived'[x] < Parties[x]
      <4>1. arrived[b] + 1 < Parties[b]
        BY <2>5, <2>7 DEF IsLast
      <4> QED
        BY <1>1, <2>2, <2>5, <2>7, <4>1 DEF TypeOK
    <3> QED
      BY <1>1, <2>2, <2>3, <2>4, <2>7, <3>1, <3>2, <3>3, <3>4, <3>7, <3>8, <3>9, StepKeeps DEF TypeOK
  <2> QED
    BY <1>3, <2>1, <2>6, <2>7 DEF BarrierWait
<1> QED
  BY <1>2, <1>3

\* A reader or writer gets in, or sleeps because it could not.
LEMMA RwUpKeeps ==
    ASSUME TInv, NEW t \in Threads, RwUp(t), UNCHANGED threadVars
    PROVE  TInv'
<1>1. TypeOK /\ Fine(t) /\ RwCounted /\ Counted
  BY DEF TInv
<1>2. PICK k : k = Arg(t)
  OBVIOUS
<1>3. Op(t) \in {"read", "write"}
  BY <1>1 DEF RwUp, Calls, Inside, Fine, PlacedAt
<1>4. k \in RwLocks /\ k \in Queues
  BY <1>1, <1>2, <1>3, AtCall, SyncAssumption
<1>5. /\ holder' = holder /\ depth' = depth /\ prio' = prio
      /\ happened' = happened /\ arrived' = arrived
  BY DEF RwUp, mutexVars
<1>6. Counted'
  BY <1>1, <1>5 DEF Counted
<1>7. CASE /\ MayEnter(t, k)
           /\ rwStatus' = [rwStatus EXCEPT ![k] = Mode(t)]
           /\ rwCount' = [rwCount EXCEPT ![k] = @ + 1]
           /\ WaitCleanup(t, k, 1)
  <2>1. /\ queue' = Deleted(t, k) /\ Settle(t, FALSE, TRUE, {}) /\ Return(t, 1)
        /\ prog' = prog /\ finished' = finished
    BY <1>7 DEF WaitCleanup
  <2>2. /\ at' = [at EXCEPT ![t] = "go"] /\ ip' = [ip EXCEPT ![t] = @ + 1]
        /\ ip \in [Threads -> Nat]
    BY <1>1, <2>1 DEF Return, TypeOK, SleepTypeOK
  <2>3. /\ ip[t] \in 1..Len(prog[t]) /\ Len(prog[t]) \in Nat /\ prog[t][ip[t]].arg = k
        /\ \A u \in Threads : ip[u] \in 1..(Len(prog[u]) + 1)
    BY <1>1, <1>2, <1>3, AtCall
  <2>4. ip' \in [Threads -> Nat] /\ ip'[t] = ip[t] + 1 /\ \A u \in Threads \ {t} : ip'[u] = ip[u]
    BY <2>2
  <2>5. \A u \in Threads : ip'[u] \in 1..(Len(prog'[u]) + 1)
    <3>1. ip'[t] \in 1..(Len(prog'[t]) + 1)
      BY <2>1, <2>3, <2>4
    <3> QED
      BY <2>1, <2>3, <2>4, <3>1
  <2>6. at'[t] = "go" /\ Fine(t)' /\ "go" \in Places \ {"none"}
    <3>1. at'[t] = "go"
      BY <1>1, <2>2 DEF TypeOK
    <3> QED
      BY <3>1, FreeFine DEF Places
  <2>7. /\ waiting' \in [Threads -> BOOLEAN] /\ on' \in [Threads -> BOOLEAN]
        /\ \A u \in Threads \ {t} : waiting'[u] => waiting[u]
    BY <1>1, <2>1, SettleIs
  <2>8. /\ rwStatus' \in [RwLocks -> {"none", "reading", "writing"}]
        /\ rwCount' \in [RwLocks -> Nat]
    BY <1>1, <1>4, <1>7 DEF TypeOK, Mode
  <2>9. RwCounted'
    <3> SUFFICES ASSUME NEW x \in RwLocks PROVE rwCount'[x] >= Cardinality(Within(x)')
      BY DEF RwCounted
    <3>1. PICK A, B : A = Within(x) /\ B = Within(x)'
      OBVIOUS
    <3>2. \A u \in Threads \ {t} : u \in B <=> u \in A
      BY <2>1, <2>4, <3>1 DEF Within
    <3>3. t \in B => x = k
      <4>1. ip'[t] - 1 = ip[t]
        BY <2>3, <2>4
      <4> QED
        BY <2>1, <2>3, <3>1, <4>1 DEF Within
    <3>4. A \subseteq Threads /\ B \subseteq Threads
      BY <3>1 DEF Within
    <3>5. IsFiniteSet(A) /\ Cardinality(A) \in Nat /\ rwCount[x] >= Cardinality(A) /\ rwCount[x] \in Nat
      BY <1>1, <3>1, WithinIs DEF RwCounted, TypeOK
    <3>6. CASE x # k
      <4>1. B \subseteq A
        BY <3>2, <3>3, <3>4, <3>6
      <4>2. Cardinality(B) \in Nat /\ Cardinality(B) <= Cardinality(A)
        BY <3>5, <4>1, FS_Subset, FS_CardinalityType
      <4>3. rwCount'[x] = rwCount[x]
        BY <1>1, <1>7, <3>6 DEF TypeOK
      <4> QED
        BY <3>1, <3>5, <4>2, <4>3
    <3>7. CASE x = k
      <4>1. B \subseteq A \cup {t}
        BY <3>2, <3>4
      <4>2. /\ IsFiniteSet(A \cup {t})
            /\ Cardinality(A \cup {t}) = IF t \in A THEN Cardinality(A) ELSE Cardinality(A) + 1
        BY <3>5, FS_AddElement
      <4>3. Cardinality(B) \in Nat /\ Cardinality(B) <= Cardinality(A \cup {t})
        BY <4>1, <4>2, FS_Subset, FS_CardinalityType
      <4>4. rwCount'[x] = rwCount[x] + 1
        BY <1>1, <1>7, <3>7 DEF TypeOK
      <4> QED
        BY <3>1, <3>5, <4>2, <4>3, <4>4
    <3> QED
      BY <3>6, <3>7
  <2>10. ASSUME Moves(t), NEW u \in Threads \ {t} PROVE Spares(u)
    <3>1. \A q \in Queues : u \in ToSet(queue[q]) => u \in ToSet(queue'[q])
      BY <1>4, <2>1, QueueIs
    <3>2. Op(u)' = Op(u) /\ Arg(u)' = Arg(u)
      BY <2>1, <2>4, SameCall
    <3>3. at[u] = "rw" => Arg(u) \in RwLocks
      BY <1>1, AtCall DEF TInv, Fine, PlacedAt
    <3>4. at[u] = "rw" /\ ~MayEnter(u, Arg(u)) => ~MayEnter(u, Arg(u))'
      BY <1>1, <1>3, <1>4, <1>7, <3>2, <3>3 DEF MayEnter, Mode, TypeOK
    <3> QED
      BY <1>5, <2>7, <3>1, <3>4 DEF Spares
  <2> QED
    BY <1>1, <1>4, <1>5, <1>6, <2>1, <2>2, <2>4, <2>5, <2>6, <2>7, <2>8, <2>9, <2>10, StepKeeps DEF TypeOK
<1>8. CASE /\ ~MayEnter(t, k)
           /\ queue' = Added(t, k) /\ Settle(t, TRUE, FALSE, {}) /\ Goto(t, "rw")
           /\ UNCHANGED <<prog, finished, rwVars>>
  <2>1. at'[t] = "rw" /\ Op(t)' = Op(t) /\ Arg(t)' = Arg(t)
    BY <1>1, <1>8, GotoIs, SameCall
  <2>2. rwStatus' = rwStatus /\ UNCHANGED syncVars
    BY <1>5, <1>8 DEF syncVars, mutexVars, rwVars
  <2>3. t \in ToSet(queue'[k])
    BY <1>1, <1>4, <1>8, AddedIs DEF TInv, TypeOK, SleepTypeOK
  <2>4. ~MayEnter(t, Arg(t))'
    BY <1>2, <1>8, <2>1, <2>2 DEF MayEnter, Mode
  <2>5. Fine(t)'
    BY <1>2, <1>3, <2>1, <2>3, <2>4
       DEF Fine, PlacedAt, LinkedAt, Spot, GivenBack, Reason, Loop, Linking
  <2>6. /\ waiting' \in [Threads -> BOOLEAN] /\ on' \in [Threads -> BOOLEAN]
        /\ \A u \in Threads \ {t} : waiting'[u] => waiting[u]
    BY <1>1, <1>8, SettleIs
  <2>7. "rw" \in Places \ {"none"}
    BY DEF Places, LockedSleeps
  <2> QED
    BY <1>4, <1>8, <2>2, <2>5, <2>6, <2>7, QuietGoto
<1> QED
  BY <1>2, <1>7, <1>8 DEF RwUp

\* The last one out wakes the queue.
LEMMA RwDownKeeps ==
    ASSUME TInv, NEW t \in Threads, RwDown(t), UNCHANGED threadVars
    PROVE  TInv'
<1>1. TypeOK /\ Fine(t) /\ RwCounted /\ Counted
  BY DEF TInv
<1>2. PICK k : k = Arg(t)
  OBVIOUS
<1>3. Op(t) = "down" /\ k \in RwLocks /\ k \in Queues
  BY <1>1, <1>2, AtCall, SyncAssumption DEF RwDown, Calls
<1>4. /\ holder' = holder /\ depth' = depth /\ prio' = prio
      /\ happened' = happened /\ arrived' = arrived
      /\ prog' = prog /\ finished' = finished /\ queue' = queue /\ Return(t, 1)
      /\ rwCount' = [rwCount EXCEPT ![k] = @ - 1]
  BY <1>2 DEF RwDown, mutexVars
<1>5. \/ rwStatus' = [rwStatus EXCEPT ![k] = "none"] /\ WakeAll(t, k)
      \/ UNCHANGED <<rwStatus, on, waiting>>
  BY <1>2 DEF RwDown
<1>6. /\ at' = [at EXCEPT ![t] = "go"] /\ at'[t] = "go" /\ ip' \in [Threads -> Nat]
      /\ \A u \in Threads \ {t} : ip'[u] = ip[u]
      /\ \A u \in Threads : Advances(u)
      /\ ip'[t] = ip[t] + 1
  BY <1>1, <1>3, <1>4, ReturnIs
<1>7. \A u \in Threads : ip'[u] \in 1..(Len(prog'[u]) + 1)
  BY <1>1, <1>4, <1>6, AdvanceIs
<1>8. Counted' /\ Fine(t)' /\ "go" \in Places \ {"none"}
  BY <1>1, <1>4, <1>6, FreeFine DEF Places, Counted
<1>9. t \in Within(k) /\ t \notin Within(k)'
  <2>1. prog[t] \in Seq(Call(t)) /\ Pairs(prog[t])
    BY <1>1, ProgramAssumption DEF TypeOK, SleepTypeOK
  <2>2. /\ ip[t] \in 1..Len(prog[t]) /\ Len(prog[t]) \in Nat
        /\ prog[t][ip[t]].op = "down" /\ prog[t][ip[t]].arg = k
    BY <1>1, <1>2, <1>3, AtCall
  <2>3. DOMAIN prog[t] = 1..Len(prog[t])
    BY <2>1
  <2>4. /\ ip[t] - 1 \in 1..Len(prog[t]) /\ prog[t][ip[t] - 1].op \in {"read", "write"}
        /\ prog[t][ip[t] - 1].arg = k
    BY <2>1, <2>2, <2>3 DEF Pairs
  <2>5. ip[t] > 1 /\ ip'[t] - 1 = ip[t]
    BY <1>6, <2>2, <2>4
  <2> QED
    BY <1>4, <2>2, <2>4, <2>5 DEF Within
<1>10. \A x \in RwLocks : Within(x)' \subseteq Within(x)
  <2>1. \A x : Within(x)' \subseteq Threads
    BY DEF Within
  <2> QED
    BY <1>1, <1>4, <1>6, <2>1, AdvanceIs
<1>11. /\ rwCount' \in [RwLocks -> Nat] /\ RwCounted'
  <2>1. PICK A, B : A = Within(k) /\ B = Within(k)'
    OBVIOUS
  <2>2. IsFiniteSet(A) /\ Cardinality(A) \in Nat /\ t \in A /\ t \notin B /\ B \subseteq A
    BY <1>3, <1>9, <1>10, <2>1, WithinIs
  <2>3. IsFiniteSet(A \ {t}) /\ Cardinality(A \ {t}) = Cardinality(A) - 1
    BY <2>2, FS_RemoveElement
  <2>4. B \subseteq A \ {t}
    BY <2>2
  <2>5. Cardinality(B) \in Nat /\ Cardinality(B) <= Cardinality(A) - 1
    BY <2>2, <2>3, <2>4, FS_Subset, FS_CardinalityType
  <2>6. rwCount[k] \in Nat /\ rwCount[k] >= Cardinality(A)
    BY <1>1, <1>3, <2>1 DEF TypeOK, RwCounted
  <2>7. rwCount[k] - 1 \in Nat /\ rwCount[k] - 1 >= Cardinality(B)
    BY <2>2, <2>5, <2>6
  <2>8. rwCount' \in [RwLocks -> Nat] /\ rwCount'[k] = rwCount[k] - 1
        /\ \A x \in RwLocks \ {k} : rwCount'[x] = rwCount[x]
    BY <1>1, <1>3, <1>4, <2>7 DEF TypeOK
  <2>9. ASSUME NEW x \in RwLocks \ {k} PROVE rwCount'[x] >= Cardinality(Within(x)')
    <3>1. PICK C, D : C = Within(x) /\ D = Within(x)'
      OBVIOUS
    <3>2. IsFiniteSet(C) /\ Cardinality(C) \in Nat /\ D \subseteq C
      BY <1>10, <3>1, WithinIs
    <3>3. Cardinality(D) \in Nat /\ Cardinality(D) <= Cardinality(C)
      BY <3>2, FS_Subset, FS_CardinalityType
    <3>4. rwCount[x] \in Nat /\ rwCount[x] >= Cardinality(C)
      BY <1>1, <3>1 DEF TypeOK, RwCounted
    <3> QED
      BY <2>8, <3>1, <3>2, <3>3, <3>4
  <2>10. rwCount'[k] >= Cardinality(Within(k)')
    BY <2>1, <2>7, <2>8
  <2> QED
    BY <2>8, <2>9, <2>10 DEF RwCounted
<1>12. CASE rwStatus' = [rwStatus EXCEPT ![k] = "none"] /\ WakeAll(t, k)
  <2>1. Settle(t, waiting[t], on[t], ToSet(queue[k])) /\ waiting[t] \in BOOLEAN /\ on[t] \in BOOLEAN
    BY <1>1, <1>12 DEF WakeAll, TypeOK, SleepTypeOK
  <2>2. /\ waiting' \in [Threads -> BOOLEAN] /\ on' \in [Threads -> BOOLEAN]
        /\ \A u \in Threads \ {t} : waiting'[u] <=> waiting[u] /\ u \notin Woken(ToSet(queue[k]))
    BY <1>1, <2>1, SettleIs
  <2>3. rwStatus' \in [RwLocks -> {"none", "reading", "writing"}]
    BY <1>1, <1>12 DEF TypeOK
  <2>4. ASSUME Moves(t), NEW u \in Threads \ {t} PROVE Spares(u)
    <3>1. ASSUME waiting'[u], u \notin finished, at[u] = "rw", ~MayEnter(u, Arg(u))
          PROVE  ~MayEnter(u, Arg(u))'
      <4>1. Op(u)' = Op(u) /\ Arg(u)' = Arg(u)
        BY <1>4, <1>6, SameCall
      <4>2. Arg(u) \in RwLocks /\ u \in ToSet(queue[Arg(u)])
        BY <1>1, <3>1, AtCall DEF TInv, Fine, PlacedAt, LinkedAt, Spot
      <4>3. u \notin ToSet(queue[k])
        BY <2>2, <3>1 DEF Woken
      <4>4. rwStatus'[Arg(u)] = rwStatus[Arg(u)]
        BY <1>1, <1>12, <4>2, <4>3 DEF TypeOK
      <4> QED
        BY <3>1, <4>1, <4>4 DEF MayEnter, Mode
    <3> QED
      BY <1>4, <2>2, <3>1 DEF Spares
  <2> QED
    BY <1>1, <1>4, <1>6, <1>7, <1>8, <1>11, <2>2, <2>3, <2>4, StepKeeps DEF TypeOK
<1>13. CASE UNCHANGED <<rwStatus, on, waiting>>
  <2>1. Moves(t) => \A u \in Threads \ {t} : Spares(u)
    BY <1>4, <1>13, Spared
  <2> QED
    BY <1>1, <1>4, <1>6, <1>7, <1>8, <1>11, <1>13, <2>1, StepKeeps DEF TypeOK, SleepTypeOK
<1> QED
  BY <1>5, <1>12, <1>13

LEMMA SyncStepKeeps ==
    ASSUME TInv, NEW t \in Threads, SyncStep(t), UNCHANGED threadVars
    PROVE  TInv'
BY LockTryKeeps, LockCheckKeeps, LockWaitKeeps, TryLockKeeps, UnlockKeeps, CondWaitKeeps, CondKeeps,
   HappenKeeps, BarrierKeeps, RwUpKeeps, RwDownKeeps DEF SyncStep

-----------------------------------------------------------------------------
(* Steps of the life of threads.                                             *)

\* They leave what Sync is about alone, but for the priority of a new thread.
Steady == UNCHANGED <<holder, depth, happened, arrived, rwVars>> /\ prio' \in [Threads -> Int]

LEMMA SteadyIs ==
    ASSUME TypeOK, UNCHANGED syncVars
    PROVE  Steady
BY DEF TypeOK, syncVars, mutexVars, Steady

LEMMA ThreadKeeps ==
    ASSUME TInv, prog' = prog, queue' = queue, Steady,
           \A u \in Threads : Advances(u), ip' \in [Threads -> Nat], at' \in [Threads -> Places],
           waiting' \in [Threads -> BOOLEAN], on' \in [Threads -> BOOLEAN],
           finished' \subseteq Threads, detached' \subseteq Threads,
           deleted' \subseteq Threads, zombies' \subseteq Threads,
           joining' \in [Threads -> Threads \cup {None}], status' \in BOOLEAN,
           \A u \in Threads : Fine(u)', Ended'
    PROVE  TInv'
<1>1. TypeOK /\ Single /\ Counted /\ RwCounted
  BY DEF TInv
<1>2. /\ holder' = holder /\ depth' = depth /\ prio' \in [Threads -> Int] /\ happened' = happened
      /\ arrived' = arrived /\ rwStatus' = rwStatus /\ rwCount' = rwCount
  BY DEF Steady, rwVars
<1>3. Single' /\ Counted' /\ RwCounted'
  <2>1. Single' /\ Counted'
    BY <1>1, <1>2 DEF Single, Counted
  <2> QED
    BY <2>1, <1>1, <1>2, RwStays
<1>4. TypeOK'
  <2>1. \A u \in Threads : ip'[u] \in 1..(Len(prog'[u]) + 1)
    BY <1>1, AdvanceIs
  <2>2. SleepTypeOK'
    BY <1>1, <2>1 DEF TypeOK, SleepTypeOK
  <2>3. exited' \subseteq Threads
    BY DEF Ended
  <2> QED
    BY <1>1, <1>2, <2>2, <2>3 DEF TypeOK
<1> QED
  BY <1>3, <1>4 DEF TInv

\* A thread that a step of another kind of call leaves where it is.
LEMMA ThreadSpares ==
    ASSUME TInv, prog' = prog, queue' = queue, Steady,
           NEW u \in Threads, ip'[u] = ip[u], at'[u] = at[u],
           waiting'[u] /\ u \notin finished' =>
                /\ waiting[u] /\ u \notin finished
                /\ at[u] \in {"sleep", "asleep"} /\ Op(u) = "waitpid" /\ ~status => ~status'
                /\ at[u] = "join" /\ Arg(u) \notin exited /\ joining[Arg(u)] = u /\ at[Arg(u)] # "none" =>
                     /\ Arg(u) \notin exited' /\ joining'[Arg(u)] = u /\ at'[Arg(u)] # "none"
    PROVE  Fine(u)'
<1>1. TypeOK /\ Fine(u)
  BY DEF TInv
<1>2. holder' = holder /\ rwStatus' = rwStatus
  BY DEF Steady, rwVars
<1>3. Op(u)' = Op(u) /\ Arg(u)' = Arg(u) /\ Wanted(u)' = Wanted(u)
  BY SameCall
<1>4. ASSUME waiting'[u], u \notin finished' PROVE Reason(u)'
  <2>1. Reason(u)
    BY <1>1, <1>4 DEF Fine
  <2>2. at[u] = "rw" => ~MayEnter(u, Arg(u))'
    BY <1>2, <1>3, <2>1 DEF Reason, MayEnter, Mode
  <2> QED
    BY <1>2, <1>3, <1>4, <2>1, <2>2 DEF Reason
<1> QED
  BY <1>1, <1>2, <1>4, StaysFine

\* thread_delete()
LEMMA DeleteIs ==
    ASSUME TInv, NEW t \in Threads, on[t], NEW D, D \subseteq Threads, Fresh(D) \subseteq exited',
           exited \subseteq exited',
           NEW where \in Places \ {"none"}, NEW n \in Nat, Delete(t, D, where, n)
    PROVE  /\ at' \in [Threads -> Places] /\ at'[t] = where
           /\ \A u \in Threads \ {t} : at'[u] = at[u] \/ (at'[u] = "none" /\ u \in exited')
           /\ ip' \in [Threads -> Nat] /\ ip'[t] = ip[t] + n
           /\ \A u \in Threads \ {t} : ip'[u] = ip[u]
           /\ deleted' \subseteq Threads /\ zombies' \subseteq Threads
           /\ deleted' \subseteq exited' /\ zombies' \subseteq deleted'
           /\ \A z \in zombies' : at'[z] # "none"
<1>1. TypeOK /\ Ended
  BY DEF TInv
<1>2. /\ at \in [Threads -> Places] /\ ip \in [Threads -> Nat] /\ deleted \subseteq Threads
      /\ zombies \subseteq deleted /\ deleted \subseteq exited /\ \A z \in zombies : at[z] # "none"
  BY <1>1 DEF TypeOK, SleepTypeOK, Ended
<1>3. PICK F, S, P : F = Fresh(D) /\ S = Swept(D) /\ P = Parked(t, D)
  OBVIOUS
<1>4. /\ F \subseteq D /\ F \cap deleted = {} /\ \A u \in F : at[u] # "none"
      /\ S \subseteq zombies /\ t \notin S
      /\ P \subseteq F /\ (t \in F => t \in P)
  BY <1>3 DEF Fresh, InPool, Swept, Parked
<1>5. /\ deleted' = deleted \cup F /\ zombies' = (zombies \ S) \cup P
      /\ at' = [u \in Threads |-> IF u \in S \cup (F \ P) THEN "none"
                                  ELSE IF u = t THEN where ELSE at[u]]
      /\ ip' = [ip EXCEPT ![t] = @ + n]
  BY <1>3 DEF Delete, Freed
<1>6. t \notin S \cup (F \ P)
  BY <1>4
<1>7. /\ at' \in [Threads -> Places] /\ at'[t] = where
      /\ \A u \in Threads \ {t} : at'[u] = at[u] \/ (at'[u] = "none" /\ u \in exited')
  <2>1. "none" \in Places
    BY DEF Places
  <2>2. S \cup (F \ P) \subseteq exited'
    BY <1>2, <1>3, <1>4
  <2> QED
    BY <1>2, <1>5, <1>6, <2>1, <2>2
<1>8. deleted' \subseteq Threads /\ zombies' \subseteq Threads /\ deleted' \subseteq exited'
      /\ zombies' \subseteq deleted'
  BY <1>2, <1>3, <1>4, <1>5
<1>9. ASSUME NEW z \in zombies' PROVE at'[z] # "none"
  <2>1. z \notin S \cup (F \ P) /\ at[z] # "none"
    BY <1>2, <1>4, <1>5
  <2>2. z \in Threads
    BY <1>8
  <2> QED
    BY <1>5, <2>1, <2>2
<1>10. ip' \in [Threads -> Nat] /\ ip'[t] = ip[t] + n /\ \A u \in Threads \ {t} : ip'[u] = ip[u]
  BY <1>2, <1>5
<1> QED
  BY <1>7, <1>8, <1>9, <1>10

\* Steps that leave the state of the threads alone.
LEMMA CreateFailsKeeps ==
    ASSUME TInv, NEW t \in Threads, CreateFails(t), UNCHANGED syncVars
    PROVE  TInv'
<1>1. TypeOK
  BY DEF TInv
<1>2. /\ Return(t, Len(prog[t]) + 1 - ip[t]) /\ waiting' = waiting /\ on' = on /\ queue' = queue
      /\ UNCHANGED <<prog, finished, threadVars>>
  BY DEF CreateFails
<1>3. ip[t] \in 1..(Len(prog[t]) + 1) /\ Len(prog[t]) \in Nat
  BY <1>1, AtCall
<1>4. /\ waiting \in [Threads -> BOOLEAN] /\ on \in [Threads -> BOOLEAN]
      /\ ip \in [Threads -> Nat] /\ at \in [Threads -> Places]
  BY <1>1 DEF TypeOK, SleepTypeOK
<1>5. /\ at' = [at EXCEPT ![t] = "go"] /\ at'[t] = "go"
      /\ ip' = [ip EXCEPT ![t] = @ + (Len(prog[t]) + 1 - ip[t])]
  BY <1>2, <1>4 DEF Return
<1>6. ip'[t] = Len(prog[t]) + 1 /\ \A u \in Threads \ {t} : ip'[u] = ip[u]
  BY <1>3, <1>4, <1>5
<1>7. ip' \in [Threads -> Nat] /\ \A u \in Threads : Advances(u)
  BY <1>3, <1>4, <1>5, <1>6 DEF Advances
<1>8. Fine(t)' /\ "go" \in Places \ {"none"}
  BY <1>5, FreeFine DEF Places
<1> QED
  BY <1>2, <1>4, <1>5, <1>6, <1>7, <1>8, QuietKeeps

LEMMA LaunchKeeps ==
    ASSUME TInv, NEW t \in Threads, Launch(t), UNCHANGED syncVars
    PROVE  TInv'
<1>1. TypeOK /\ waiting[t] \in BOOLEAN /\ on[t] \in BOOLEAN
  BY DEF TInv, TypeOK, SleepTypeOK
<1>2. /\ Op(t) = "launch" /\ Settle(t, waiting[t], on[t], {Arg(t)} \ exited) /\ Return(t, 1)
      /\ queue' = queue /\ UNCHANGED <<prog, finished, threadVars>>
  BY DEF Launch, Calls
<1>3. /\ waiting' \in [Threads -> BOOLEAN] /\ on' \in [Threads -> BOOLEAN]
      /\ \A u \in Threads \ {t} : waiting'[u] => waiting[u]
  BY <1>1, <1>2, SettleIs
<1> QED
  BY <1>2, <1>3, QuietReturn

LEMMA BeginKeeps ==
    ASSUME TInv, NEW t \in Threads, Begin(t), UNCHANGED syncVars
    PROVE  TInv'
<1>1. TypeOK /\ waiting \in [Threads -> BOOLEAN] /\ on \in [Threads -> BOOLEAN]
  BY DEF TInv, TypeOK, SleepTypeOK
<1>2. /\ Goto(t, "go") /\ queue' = queue /\ waiting' = waiting /\ on' = on
      /\ UNCHANGED <<prog, finished, threadVars>>
  BY DEF Begin
<1>3. Fine(t)' /\ "go" \in Places \ {"none"}
  BY <1>1, <1>2, GotoIs, FreeFine DEF Places
<1> QED
  BY <1>1, <1>2, <1>3, QuietGoto

LEMMA TaskLeaveKeeps ==
    ASSUME TInv, TaskLeave, UNCHANGED syncVars
    PROVE  TInv'
<1>1. TypeOK /\ Main \in Threads
  BY ThreadAssumption DEF TInv
<1>2. /\ Goto(Main, "gone") /\ Settle(Main, TRUE, FALSE, {}) /\ queue' = queue
      /\ UNCHANGED <<prog, finished, threadVars>>
  BY DEF TaskLeave
<1>3. /\ waiting' \in [Threads -> BOOLEAN] /\ on' \in [Threads -> BOOLEAN]
      /\ \A u \in Threads \ {Main} : waiting'[u] => waiting[u]
  BY <1>1, <1>2, SettleIs
<1>4. Fine(Main)' /\ "gone" \in Places \ {"none"}
  BY <1>1, <1>2, GotoIs, FreeFine DEF Places
<1> QED
  BY <1>1, <1>2, <1>3, <1>4, QuietGoto

\* The loop of task_waitpid_posix().
LEMMA ChildWaitKeeps ==
    ASSUME TInv, NEW t \in Threads, Op(t) = "waitpid", UNCHANGED threadVars, UNCHANGED syncVars,
           \/ /\ Calls(t, {"waitpid"}) /\ ~status /\ Goto(t, "add")
              /\ UNCHANGED <<prog, on, waiting, finished, queue>>
           \/ /\ Inside(t, "check") /\ ~status /\ Goto(t, "sleep")
              /\ UNCHANGED <<prog, on, waiting, finished, queue>>
           \/ WaitLoop(t, Children)
           \/ Inside(t, "out") /\ WaitCleanup(t, Children, 1)
    PROVE  TInv'
<1>1. TypeOK /\ Fine(t) /\ waiting \in [Threads -> BOOLEAN] /\ on \in [Threads -> BOOLEAN]
  BY DEF TInv, TypeOK, SleepTypeOK
<1>2. CASE /\ Calls(t, {"waitpid"}) /\ ~status /\ Goto(t, "add")
           /\ UNCHANGED <<prog, on, waiting, finished, queue>>
  <2>1. at'[t] = "add" /\ Op(t)' = "waitpid"
    BY <1>1, <1>2, GotoIs, SameCall
  <2>2. Fine(t)' /\ "add" \in Places \ {"none"}
    BY <2>1 DEF Fine, PlacedAt, LinkedAt, GivenBack, Reason, Linking, Loop, Waits, Places
  <2> QED
    BY <1>1, <1>2, <2>2, QuietGoto
<1>3. CASE /\ Inside(t, "check") /\ ~status /\ Goto(t, "sleep")
           /\ UNCHANGED <<prog, on, waiting, finished, queue>>
  <2>1. at[t] = "check" /\ at'[t] = "sleep" /\ Op(t)' = "waitpid" /\ ip' = ip /\ status' = status
    BY <1>1, <1>3, GotoIs, SameCall DEF Inside, threadVars
  <2>2. Spot(t)' = Spot(t) /\ t \in ToSet(queue'[Spot(t)])
    BY <1>1, <1>3, <2>1, LoopSpot DEF Loop, Fine, LinkedAt, Linking
  <2>3. Fine(t)' /\ "sleep" \in Places \ {"none"}
    BY <1>3, <2>1, <2>2 DEF Fine, PlacedAt, LinkedAt, GivenBack, Reason, Linking, Loop, Waits, Places
  <2> QED
    BY <1>1, <1>3, <2>3, QuietGoto
<1>4. CASE WaitLoop(t, Children)
  BY <1>4, WaitLoopKeeps
<1>5. CASE Inside(t, "out") /\ WaitCleanup(t, Children, 1)
  BY <1>5, CleanupKeeps, ThreadAssumption
<1> QED
  BY <1>2, <1>3, <1>4, <1>5

\* thread_init() of u by t.
LEMMA InitialisedKeeps ==
    ASSUME TInv, NEW t \in Threads, NEW u \in Threads \ {t}, at[t] = "go",
           Op(t) \in {"create", "new_task"}, InPool(u), Initialised(t, u),
           prog' = prog, queue' = queue, zombies' = zombies, Steady,
           NEW w \in BOOLEAN, waiting' = [waiting EXCEPT ![u] = w],
           on' \in [Threads -> BOOLEAN],
           detached' \subseteq Threads, status' \in BOOLEAN,
           (status' /\ status /\ u # Main) \/ ~status'
    PROVE  TInv'
<1>1. TypeOK /\ Ended
  BY DEF TInv
<1>2. /\ at \in [Threads -> Places] /\ ip \in [Threads -> Nat] /\ waiting \in [Threads -> BOOLEAN]
      /\ joining \in [Threads -> Threads \cup {None}] /\ finished \subseteq Threads
      /\ deleted \subseteq Threads /\ zombies \subseteq Threads
  BY <1>1 DEF TypeOK, SleepTypeOK
<1>3. /\ at' = [at EXCEPT ![u] = "new"] /\ ip' = [ip EXCEPT ![u] = 1, ![t] = @ + 1]
      /\ finished' = finished \ {u} /\ exited' = exited \ {u} /\ deleted' = deleted \ {u}
      /\ joining' = [joining EXCEPT ![u] = None]
  BY DEF Initialised
<1>4. /\ at' \in [Threads -> Places] /\ at'[u] = "new" /\ \A x \in Threads \ {u} : at'[x] = at[x]
  BY <1>2, <1>3 DEF Places
<1>5. /\ ip' \in [Threads -> Nat] /\ ip'[u] = 1 /\ ip'[t] = ip[t] + 1
      /\ \A x \in Threads \ {t, u} : ip'[x] = ip[x]
  BY <1>2, <1>3
<1>6. \A x \in Threads : Advances(x)
  BY <1>5 DEF Advances
<1>7. Ended'
  <2>1. u \notin zombies
    BY <1>1 DEF Ended, InPool
  <2> QED
    BY <1>1, <1>2, <1>3, <1>4, <2>1 DEF Ended
<1>8. ASSUME NEW x \in Threads PROVE Fine(x)'
  <2>1. CASE x \in {t, u}
    BY <1>4, <2>1, FreeFine
  <2>2. CASE x \notin {t, u}
    <3>1. ip'[x] = ip[x] /\ at'[x] = at[x] /\ waiting'[x] = waiting[x]
      BY <1>2, <1>4, <1>5, <2>2
    <3>2. x \notin finished' => x \notin finished
      BY <1>3, <2>2
    <3>3. at[x] = "join" => Arg(x) \in Threads
      BY <1>1, AtCall DEF TInv, Fine, PlacedAt
    <3>4. ASSUME at[x] = "join", Arg(x) \notin exited, joining[Arg(x)] = x, at[Arg(x)] # "none"
          PROVE  Arg(x) \notin exited' /\ joining'[Arg(x)] = x /\ at'[Arg(x)] # "none"
      <4>1. Arg(x) # u
        BY <3>4 DEF InPool
      <4> QED
        BY <1>2, <1>3, <1>4, <3>3, <3>4, <4>1
    <3> QED
      BY <3>1, <3>2, <3>4, ThreadSpares
  <2> QED
    BY <2>1, <2>2
<1>9. /\ waiting' \in [Threads -> BOOLEAN] /\ joining' \in [Threads -> Threads \cup {None}]
      /\ finished' \subseteq Threads /\ deleted' \subseteq Threads /\ zombies' \subseteq Threads
  BY <1>2, <1>3
<1> QED
  BY <1>4, <1>5, <1>6, <1>7, <1>8, <1>9, ThreadKeeps

LEMMA CreateKeeps ==
    ASSUME TInv, NEW t \in Threads, Create(t) \/ NewTask(t), Steady
    PROVE  TInv'
<1>1. TypeOK
  BY DEF TInv
<1>2. PICK u : u = Arg(t)
  OBVIOUS
<1>3. on \in [Threads -> BOOLEAN] /\ detached \subseteq Threads /\ status \in BOOLEAN
  BY <1>1 DEF TypeOK, SleepTypeOK
<1>4. CASE Create(t)
  <2>1. Op(t) = "create" /\ at[t] = "go" /\ u \in Threads \ {t} /\ u # Main
    BY <1>1, <1>2, <1>4, AtCall DEF Create, Calls
  <2>2. /\ InPool(u) /\ Initialised(t, u) /\ waiting' = [waiting EXCEPT ![u] = TRUE]
        /\ on' = on /\ detached' = detached \ {u} /\ status' = status
        /\ prog' = prog /\ queue' = queue /\ zombies' = zombies
    BY <1>2, <1>4 DEF Create
  <2> QED
    BY <1>3, <2>1, <2>2, InitialisedKeeps
<1>5. CASE NewTask(t)
  <2>1. Op(t) = "new_task" /\ at[t] = "go" /\ u = Main /\ t = Parent
    BY <1>1, <1>2, <1>5, AtCall DEF NewTask, Calls
  <2>2. u \in Threads \ {t}
    BY <2>1, ThreadAssumption
  <2>3. /\ InPool(u) /\ Initialised(t, u) /\ waiting' = [waiting EXCEPT ![u] = FALSE]
        /\ on' = [on EXCEPT ![u] = TRUE] /\ detached' = detached \cup {u} /\ status' = FALSE
        /\ prog' = prog /\ queue' = queue /\ zombies' = zombies
    BY <1>2, <1>5 DEF NewTask
  <2>4. on' \in [Threads -> BOOLEAN] /\ detached' \subseteq Threads
    BY <1>3, <2>2, <2>3
  <2> QED
    BY <2>1, <2>2, <2>3, <2>4, InitialisedKeeps
<1> QED
  BY <1>4, <1>5

\* A step that deletes threads that have exited, and wakes whoever a step
\* deprives of the reason to sleep.
LEMMA DeleteKeeps ==
    ASSUME TInv, NEW t \in Threads, on[t], NEW D, D \subseteq Threads,
           Fresh(D) \subseteq exited', exited \subseteq exited',
           NEW where \in Places \ {"none"}, NEW n \in Nat, Delete(t, D, where, n),
           n = 0 \/ (n = 1 /\ Op(t) \notin {"read", "write", "end"}),
           prog' = prog, queue' = queue, joining' = joining, UNCHANGED syncVars,
           waiting' \in [Threads -> BOOLEAN], on' \in [Threads -> BOOLEAN],
           finished' \subseteq Threads, finished \subseteq finished', detached' \subseteq Threads,
           exited' = finished', status' \in BOOLEAN, status' => Main \in exited',
           \A u \in Threads \ {t} : waiting'[u] /\ u \notin finished' =>
                /\ waiting[u]
                /\ at[u] \in {"sleep", "asleep"} /\ Op(u) = "waitpid" /\ ~status => ~status'
                /\ at[u] = "join" /\ Arg(u) \notin exited /\ joining[Arg(u)] = u => Arg(u) \notin exited',
           at'[t] = where => Fine(t)'
    PROVE  TInv'
<1>1. TypeOK
  BY DEF TInv
<1>2. /\ at' \in [Threads -> Places] /\ at'[t] = where
      /\ \A u \in Threads \ {t} : at'[u] = at[u] \/ (at'[u] = "none" /\ u \in exited')
      /\ ip' \in [Threads -> Nat] /\ ip'[t] = ip[t] + n
      /\ \A u \in Threads \ {t} : ip'[u] = ip[u]
      /\ deleted' \subseteq Threads /\ zombies' \subseteq Threads
      /\ deleted' \subseteq exited' /\ zombies' \subseteq deleted'
      /\ \A z \in zombies' : at'[z] # "none"
  BY DeleteIs
<1>3. Ended'
  BY <1>2 DEF Ended
<1>4. \A u \in Threads : Advances(u)
  <2>1. ip[t] \in Nat
    BY <1>1 DEF TypeOK, SleepTypeOK
  <2>2. Advances(t)
    BY <1>2, <2>1 DEF Advances
  <2> QED
    BY <1>2, <2>2 DEF Advances
<1>5. ASSUME NEW u \in Threads \ {t} PROVE Fine(u)'
  <2>1. CASE at'[u] = "none"
    BY <2>1, FreeFine
  <2>2. CASE at'[u] = at[u]
    <3>1. at[u] = "join" => Arg(u) \in Threads
      BY <1>1, AtCall DEF TInv, Fine, PlacedAt
    <3>2. ASSUME waiting'[u], u \notin finished', at[u] = "join", Arg(u) \notin exited,
                 joining[Arg(u)] = u, at[Arg(u)] # "none"
          PROVE  Arg(u) \notin exited' /\ joining'[Arg(u)] = u /\ at'[Arg(u)] # "none"
      <4>1. Arg(u) \notin exited' /\ Arg(u) \in Threads
        BY <3>1, <3>2
      <4> QED
        BY <1>2, <3>2, <4>1
    <3> QED
      BY <1>1, <1>2, <2>2, <3>2, SteadyIs, ThreadSpares
  <2> QED
    BY <1>2, <2>1, <2>2
<1>6. joining' \in [Threads -> Threads \cup {None}] /\ Fine(t)'
  BY <1>1, <1>2 DEF TypeOK
<1> QED
  BY <1>1, <1>2, <1>3, <1>4, <1>5, <1>6, SteadyIs, ThreadKeeps

LEMMA ExitKeeps ==
    ASSUME TInv, NEW t \in Threads, Exit(t), UNCHANGED syncVars
    PROVE  TInv'
<1>1. TypeOK /\ Ended
  BY DEF TInv
<1>2. PICK D : D = {t} \cap detached
  OBVIOUS
<1>3. /\ on[t] /\ finished' = finished \cup {t} /\ exited' = exited \cup {t}
      /\ Settle(t, TRUE, FALSE, Joiners(t)) /\ Delete(t, D, "gone", 0)
      /\ prog' = prog /\ queue' = queue /\ detached' = detached /\ joining' = joining /\ status' = status
  BY <1>2 DEF Exit, Calls
<1>4. /\ finished \subseteq Threads /\ detached \subseteq Threads /\ status \in BOOLEAN
      /\ exited = finished /\ (status => Main \in exited)
  BY <1>1 DEF TypeOK, SleepTypeOK, Ended
<1>5. /\ waiting' \in [Threads -> BOOLEAN] /\ on' \in [Threads -> BOOLEAN]
      /\ \A u \in Threads \ {t} : waiting'[u] <=> waiting[u] /\ u \notin Woken(Joiners(t))
  BY <1>1, <1>3, SettleIs
<1>6. Fresh(D) \subseteq exited'
  BY <1>2, <1>3 DEF Fresh
<1>7. ASSUME NEW u \in Threads \ {t}, waiting'[u], u \notin finished', at[u] = "join",
             Arg(u) \notin exited, joining[Arg(u)] = u
      PROVE  Arg(u) \notin exited'
  <2>1. CASE Arg(u) = t
    <3>1. u \in Joiners(t)
      BY <1>7, <2>1, SyncAssumption DEF Joiners
    <3>2. u \in Woken(Joiners(t))
      BY <1>3, <1>5, <1>7, <3>1 DEF Woken
    <3> QED
      BY <1>5, <1>7, <3>2
  <2>2. CASE Arg(u) # t
    BY <1>3, <1>7, <2>2
  <2> QED
    BY <2>1, <2>2
<1>8. at'[t] = "gone" => Fine(t)'
  BY FreeFine
<1>9. "gone" \in Places \ {"none"} /\ D \subseteq Threads
  BY <1>2 DEF Places
<1>10. \A u \in Threads \ {t} : waiting'[u] /\ u \notin finished' =>
         /\ waiting[u]
         /\ at[u] \in {"sleep", "asleep"} /\ Op(u) = "waitpid" /\ ~status => ~status'
         /\ at[u] = "join" /\ Arg(u) \notin exited /\ joining[Arg(u)] = u => Arg(u) \notin exited'
  BY <1>3, <1>5, <1>7
<1>11. exited \subseteq exited' /\ exited' = finished' /\ finished \subseteq finished'
       /\ finished' \subseteq Threads /\ detached' \subseteq Threads /\ status' \in BOOLEAN
       /\ (status' => Main \in exited')
  BY <1>3, <1>4
<1>12. PICK n \in Nat : n = 0 /\ Delete(t, D, "gone", n)
  BY <1>3
<1> QED
  BY <1>3, <1>5, <1>6, <1>8, <1>9, <1>10, <1>11, <1>12, DeleteKeeps

\* A step that deletes threads that have exited, and does no more.
LEMMA ReapKeeps ==
    ASSUME TInv, NEW t \in Threads, on[t], NEW D, D \subseteq Threads, Fresh(D) \subseteq exited,
           NEW where \in Places \ {"none"}, NEW n \in Nat, Delete(t, D, where, n),
           n = 0 \/ (n = 1 /\ Op(t) \notin {"read", "write", "end"}),
           waiting' \in [Threads -> BOOLEAN], on' \in [Threads -> BOOLEAN],
           \A u \in Threads \ {t} : waiting'[u] => waiting[u],
           detached' \subseteq Threads,
           UNCHANGED <<prog, finished, queue, exited, joining, status, syncVars>>,
           at'[t] = where => Fine(t)'
    PROVE  TInv'
<1>1. TypeOK /\ Ended
  BY DEF TInv
<1>2. /\ prog' = prog /\ queue' = queue /\ joining' = joining /\ UNCHANGED syncVars
      /\ finished' = finished /\ exited' = exited /\ status' = status
  OBVIOUS
<1>3. finished \subseteq Threads /\ status \in BOOLEAN /\ exited = finished /\ (status => Main \in exited)
  BY <1>1 DEF TypeOK, SleepTypeOK, Ended
<1>4. \A u \in Threads \ {t} : waiting'[u] /\ u \notin finished' =>
         /\ waiting[u]
         /\ at[u] \in {"sleep", "asleep"} /\ Op(u) = "waitpid" /\ ~status => ~status'
         /\ at[u] = "join" /\ Arg(u) \notin exited /\ joining[Arg(u)] = u => Arg(u) \notin exited'
  BY <1>2
<1>5. /\ Fresh(D) \subseteq exited' /\ exited \subseteq exited' /\ exited' = finished'
      /\ finished \subseteq finished' /\ finished' \subseteq Threads /\ status' \in BOOLEAN
      /\ (status' => Main \in exited')
  BY <1>2, <1>3
<1> QED
  BY <1>2, <1>4, <1>5, DeleteKeeps

LEMMA JoinKeeps ==
    ASSUME TInv, NEW t \in Threads, Join(t) \/ JoinWoken(t) \/ Detach(t), UNCHANGED syncVars
    PROVE  TInv'
<1>1. TypeOK /\ Fine(t) /\ waiting \in [Threads -> BOOLEAN] /\ on \in [Threads -> BOOLEAN]
      /\ detached \subseteq Threads
  BY DEF TInv, TypeOK, SleepTypeOK
<1>2. Op(t) \in {"join", "detach"} /\ on[t]
  BY <1>1 DEF Join, JoinWoken, Detach, Calls, Inside, Fine, PlacedAt
<1>3. PICK u \in Threads : u = Arg(t)
  BY <1>1, <1>2, AtCall
<1>4. UNCHANGED <<prog, finished, queue, exited, joining, status, syncVars>>
  BY DEF Join, JoinWoken, Detach
<1>5. PICK D : D \subseteq Threads /\ Fresh(D) \subseteq exited /\ Delete(t, D, "go", 1)
  <2>1. CASE Join(t) \/ JoinWoken(t)
    <3>1. Delete(t, {u}, "go", 1) /\ (InPool(u) \/ u \in exited)
      BY <1>3, <2>1 DEF Join, JoinWoken
    <3>2. Fresh({u}) \subseteq exited
      BY <3>1 DEF Fresh
    <3> QED
      BY <3>1, <3>2
  <2>2. CASE Detach(t)
    <3>1. PICK D : D = DetachDeletes(u)
      OBVIOUS
    <3>2. Delete(t, D, "go", 1) /\ D \subseteq {u} /\ Fresh(D) \subseteq exited
      BY <1>3, <2>2, <3>1 DEF Detach, DetachDeletes, Fresh
    <3> QED
      BY <3>2
  <2> QED
    BY <2>1, <2>2
<1>6. detached' \subseteq Threads
  BY <1>1, <1>3 DEF Join, JoinWoken, Detach
<1>7. /\ waiting' \in [Threads -> BOOLEAN] /\ on' \in [Threads -> BOOLEAN]
      /\ \A x \in Threads \ {t} : waiting'[x] => waiting[x]
  <2>1. CASE Join(t) \/ Detach(t)
    BY <1>1, <2>1 DEF Join, Detach
  <2>2. CASE JoinWoken(t)
    <3>1. Settle(t, FALSE, TRUE, {})
      BY <2>2 DEF JoinWoken
    <3> QED
      BY <1>1, <3>1, SettleIs
  <2> QED
    BY <2>1, <2>2
<1>8. (at'[t] = "go" => Fine(t)') /\ "go" \in Places \ {"none"}
  BY FreeFine DEF Places
<1>9. PICK n \in Nat : n = 1 /\ Delete(t, D, "go", n)
  BY <1>5
<1> QED
  BY <1>2, <1>4, <1>5, <1>6, <1>7, <1>8, <1>9, ReapKeeps

\* Nobody else waits to join the same thread.
LEMMA JoinerIs ==
    ASSUME TypeOK, NEW t \in Threads, NEW u \in Threads, Op(t) = "join", Op(u) = "join", Arg(t) = Arg(u)
    PROVE  t = u
<1>1. /\ prog[t] \in Seq(Call(t)) /\ prog[u] \in Seq(Call(u)) /\ OneJoiner(prog)
  BY ProgramAssumption DEF TypeOK, SleepTypeOK
<1>2. /\ ip[t] \in 1..Len(prog[t]) /\ prog[t][ip[t]].op = "join" /\ prog[t][ip[t]].arg = Arg(t)
      /\ ip[u] \in 1..Len(prog[u]) /\ prog[u][ip[u]].op = "join" /\ prog[u][ip[u]].arg = Arg(u)
  BY AtCall
<1>3. ip[t] \in DOMAIN prog[t] /\ ip[u] \in DOMAIN prog[u]
  BY <1>1, <1>2
<1> QED
  BY <1>1, <1>2, <1>3 DEF OneJoiner

LEMMA JoinWaitKeeps ==
    ASSUME TInv, NEW t \in Threads, JoinWait(t), UNCHANGED syncVars
    PROVE  TInv'
<1>1. TypeOK /\ Ended
  BY DEF TInv
<1>2. /\ at \in [Threads -> Places] /\ joining \in [Threads -> Threads \cup {None}]
      /\ finished \subseteq Threads /\ detached \subseteq Threads /\ deleted \subseteq Threads
      /\ zombies \subseteq Threads /\ status \in BOOLEAN
  BY <1>1 DEF TypeOK, SleepTypeOK
<1>3. Op(t) = "join" /\ at[t] = "go"
  BY DEF JoinWait, Calls
<1>4. PICK v \in Threads \ {t} : v = Arg(t)
  BY <1>1, <1>3, AtCall
<1>5. /\ at[v] # "none" /\ v \notin exited
      /\ joining' = [joining EXCEPT ![v] = t] /\ Settle(t, TRUE, FALSE, {}) /\ Goto(t, "join")
      /\ prog' = prog /\ finished' = finished /\ queue' = queue /\ exited' = exited
      /\ detached' = detached /\ deleted' = deleted /\ zombies' = zombies /\ status' = status
  BY <1>4 DEF JoinWait, InPool
<1>6. /\ ip' = ip /\ at' = [at EXCEPT ![t] = "join"] /\ at'[t] = "join" /\ ip' \in [Threads -> Nat]
      /\ \A u \in Threads \ {t} : ip'[u] = ip[u] /\ at'[u] = at[u]
      /\ \A u \in Threads : Advances(u)
  BY <1>1, <1>5, GotoIs
<1>7. /\ waiting' \in [Threads -> BOOLEAN] /\ on' \in [Threads -> BOOLEAN]
      /\ \A u \in Threads \ {t} : waiting'[u] => waiting[u]
  BY <1>1, <1>5, SettleIs
<1>8. at' \in [Threads -> Places] /\ joining' \in [Threads -> Threads \cup {None}]
  BY <1>2, <1>5, <1>6 DEF Places, LockedSleeps
<1>9. Ended'
  BY <1>1, <1>2, <1>5, <1>6 DEF Ended
<1>10. Fine(t)'
  <2>1. Op(t)' = "join" /\ Arg(t)' = v
    BY <1>3, <1>4, <1>5, <1>6, SameCall
  <2>2. v \notin exited' /\ joining'[v] = t /\ at'[v] # "none"
    BY <1>2, <1>4, <1>5, <1>6
  <2> QED
    BY <1>6, <2>1, <2>2 DEF Fine, PlacedAt, LinkedAt, GivenBack, Reason, Loop, Linking
<1>11. ASSUME NEW u \in Threads \ {t} PROVE Fine(u)'
  <2>1. ASSUME at[u] = "join", Arg(u) \notin exited, joining[Arg(u)] = u, at[Arg(u)] # "none"
        PROVE  Arg(u) \notin exited' /\ joining'[Arg(u)] = u /\ at'[Arg(u)] # "none"
    <3>1. Op(u) = "join"
      BY <2>1 DEF TInv, Fine, PlacedAt
    <3>2. Arg(u) \in Threads \ {v}
      BY <1>1, <1>3, <1>4, <3>1, AtCall, JoinerIs
    <3> QED
      BY <1>2, <1>5, <1>6, <2>1, <3>2
  <2> QED
    BY <1>1, <1>5, <1>6, <1>7, <2>1, SteadyIs, ThreadSpares
<1> QED
  BY <1>1, <1>2, <1>5, <1>6, <1>7, <1>8, <1>9, <1>10, <1>11, SteadyIs, ThreadKeeps

LEMMA TaskExitKeeps ==
    ASSUME TInv, TaskExit, UNCHANGED syncVars
    PROVE  TInv'
<1>1. TypeOK /\ Ended /\ Main \in Threads /\ \A u \in Threads : Fine(u)
  BY ThreadAssumption DEF TInv
<1>2. PICK V : V = {u \in Threads \ {Main, Parent} : ~InPool(u) /\ u \notin deleted}
  OBVIOUS
<1>3. PICK C : C = Woken(ToSet(queue[Children]))
  OBVIOUS
<1>4. /\ on[Main] /\ finished' = finished \cup V \cup {Main} /\ exited' = exited \cup V \cup {Main}
      /\ waiting' = [u \in Threads |-> u = Main \/ (waiting[u] /\ u \notin V \cup C)]
      /\ Delete(Main, V, "leaving", 0) /\ status' = TRUE
      /\ prog' = prog /\ queue' = queue /\ detached' = detached /\ joining' = joining
  BY <1>2, <1>3 DEF TaskExit, Calls
<1>5. PICK R : on' = [u \in Threads |-> IF u \in V THEN u \in R ELSE on[u] \/ u \in C]
  BY <1>2, <1>3 DEF TaskExit
<1>6. /\ finished \subseteq Threads /\ detached \subseteq Threads /\ exited = finished
      /\ deleted \subseteq exited /\ waiting \in [Threads -> BOOLEAN] /\ on \in [Threads -> BOOLEAN]
  BY <1>1 DEF TypeOK, SleepTypeOK, Ended
<1>7. V \subseteq Threads /\ on' \in [Threads -> BOOLEAN] /\ waiting' \in [Threads -> BOOLEAN]
  <2>1. V \subseteq Threads
    BY <1>2
  <2>2. on' \in [Threads -> BOOLEAN]
    <3>1. ASSUME NEW u \in Threads
          PROVE  (IF u \in V THEN u \in R ELSE on[u] \/ u \in C) \in BOOLEAN
      <4>1. (u \in R) \in BOOLEAN /\ (on[u] \/ u \in C) \in BOOLEAN
        OBVIOUS
      <4>2. PICK a \in BOOLEAN : a = (u \in R)
        BY <4>1
      <4>3. PICK b \in BOOLEAN : b = (on[u] \/ u \in C)
        BY <4>1
      <4> QED
        BY <4>2, <4>3
    <3> QED
      BY <1>5, <3>1
  <2>3. waiting' \in [Threads -> BOOLEAN]
    BY <1>4, <1>6
  <2> QED
    BY <2>1, <2>2, <2>3
<1>8. ASSUME NEW u \in Threads \ {Main}, waiting'[u], u \notin finished'
      PROVE  /\ waiting[u]
             /\ ~(at[u] \in {"sleep", "asleep"} /\ Op(u) = "waitpid")
             /\ at[u] # "join"
  <2>1. waiting[u] /\ u \notin V \cup C /\ u \notin finished
    BY <1>4, <1>8
  <2>2. u = Parent \/ at[u] = "none"
    BY <1>2, <1>6, <2>1 DEF InPool
  <2>3. Fine(u)
    BY <1>1
  <2>4. at[u] # "join"
    BY <1>1, <2>2, <2>3, AtCall DEF Fine, PlacedAt
  <2>5. at[u] \in {"sleep", "asleep"} /\ Op(u) = "waitpid" => u \in C
    BY <1>3, <2>1, <2>3 DEF Fine, LinkedAt, Linking, Spot, Woken
  <2> QED
    BY <2>1, <2>4, <2>5
<1>9. \A u \in Threads \ {Main} : waiting'[u] /\ u \notin finished' =>
         /\ waiting[u]
         /\ at[u] \in {"sleep", "asleep"} /\ Op(u) = "waitpid" /\ ~status => ~status'
         /\ at[u] = "join" /\ Arg(u) \notin exited /\ joining[Arg(u)] = u => Arg(u) \notin exited'
  BY <1>8
<1>10. /\ Fresh(V) \subseteq exited' /\ exited \subseteq exited' /\ exited' = finished'
       /\ finished \subseteq finished' /\ finished' \subseteq Threads /\ detached' \subseteq Threads
       /\ status' \in BOOLEAN /\ Main \in exited'
  BY <1>1, <1>4, <1>6, <1>7 DEF Fresh
<1>11. (at'[Main] = "leaving" => Fine(Main)') /\ "leaving" \in Places \ {"none"}
  BY <1>1, FreeFine DEF Places
<1>12. PICK n \in Nat : n = 0 /\ Delete(Main, V, "leaving", n)
  BY <1>4
<1> QED
  BY <1>1, <1>4, <1>7, <1>9, <1>10, <1>11, <1>12, DeleteKeeps

LEMMA WaitPidKeeps ==
    ASSUME TInv, NEW t \in Threads, WaitPid(t), UNCHANGED syncVars
    PROVE  TInv'
<1>1. TypeOK /\ Ended /\ Fine(t) /\ Main \in Threads
  BY ThreadAssumption DEF TInv
<1>2. waiting \in [Threads -> BOOLEAN] /\ on \in [Threads -> BOOLEAN] /\ detached \subseteq Threads
  BY <1>1 DEF TypeOK, SleepTypeOK
<1>3. CASE Collect(t) /\ UNCHANGED <<prog, finished, queue, exited, detached, joining, status>>
  <2>1. on[t] /\ Op(t) = "waitpid" /\ status /\ UNCHANGED <<on, waiting>>
    BY <1>3 DEF Collect, Calls, Inside
  <2>2. Fresh({Main}) \subseteq exited /\ {Main} \subseteq Threads
    BY <1>1, <2>1 DEF Fresh, Ended
  <2>3. CASE Delete(t, {Main}, "go", 1)
    <3>1. PICK n \in Nat : n = 1 /\ Delete(t, {Main}, "go", n)
      BY <2>3
    <3>2. (at'[t] = "go" => Fine(t)') /\ "go" \in Places \ {"none"}
      BY FreeFine DEF Places
    <3> QED
      BY <1>2, <1>3, <2>1, <2>2, <3>1, <3>2, ReapKeeps
  <2>4. CASE at[t] = "check" /\ Delete(t, {Main}, "out", 0)
    <3>1. PICK n \in Nat : n = 0 /\ Delete(t, {Main}, "out", n)
      BY <2>4
    <3>2. ip' = ip
      BY <1>1, <2>4 DEF Delete, TypeOK, SleepTypeOK
    <3>3. ASSUME at'[t] = "out" PROVE Fine(t)'
      <4>1. /\ Op(t)' = "waitpid" /\ Spot(t)' = Spot(t)
            /\ t \in ToSet(queue'[Spot(t)])
        BY <1>1, <1>3, <2>1, <2>4, <3>2, <3>3, LoopSpot DEF Loop, Fine, LinkedAt, Linking
      <4> QED
        BY <3>3, <4>1 DEF Fine, PlacedAt, LinkedAt, GivenBack, Reason, Linking, Loop, Waits
    <3>4. "out" \in Places \ {"none"}
      BY DEF Places
    <3> QED
      BY <1>2, <1>3, <2>1, <2>2, <3>1, <3>3, <3>4, ReapKeeps
  <2> QED
    BY <1>3, <2>3, <2>4 DEF Collect, Inside
<1>4. CASE ~(Collect(t) /\ UNCHANGED <<prog, finished, queue, exited, detached, joining, status>>)
  BY <1>4, ChildWaitKeeps DEF WaitPid
<1> QED
  BY <1>3, <1>4

\* The other steps make no thread new.
LEMMA NoneNew ==
    ASSUME TypeOK, NEW t \in Threads, ThreadStep(t), ~Create(t), ~NewTask(t)
    PROVE  \A u \in Threads : at'[u] = "new" => at[u] = "new"
<1>1. at \in [Threads -> Places]
  BY DEF TypeOK
<1>2. ASSUME NEW where, where # "new", Goto(t, where)
      PROVE  \A u \in Threads : at'[u] = "new" => at[u] = "new"
  BY <1>1, <1>2 DEF Goto
<1>3. ASSUME NEW n, Return(t, n) PROVE \A u \in Threads : at'[u] = "new" => at[u] = "new"
  BY <1>1, <1>3 DEF Return
<1>4. ASSUME NEW v \in Threads, NEW D, NEW where, where # "new", NEW n, Delete(v, D, where, n)
      PROVE  \A u \in Threads : at'[u] = "new" => at[u] = "new"
  BY <1>1, <1>4 DEF Delete
<1>5. CASE CreateFails(t) \/ Launch(t)
  BY <1>3, <1>5 DEF CreateFails, Launch
<1>6. CASE Begin(t) \/ JoinWait(t) \/ (t = Main /\ TaskLeave)
  BY <1>2, <1>6 DEF Begin, JoinWait, TaskLeave
<1>7. CASE Exit(t)
  BY <1>4, <1>7 DEF Exit
<1>8. CASE Join(t) \/ JoinWoken(t)
  BY <1>4, <1>8 DEF Join, JoinWoken
<1>9. CASE Detach(t)
  <2>1. Delete(t, DetachDeletes(Arg(t)), "go", 1)
    BY <1>9 DEF Detach
  <2> QED
    BY <1>4, <2>1
<1>10. CASE t = Main /\ TaskExit
  <2>1. \E D : Delete(Main, D, "leaving", 0)
    BY <1>10 DEF TaskExit
  <2> QED
    BY <1>4, <1>10, <2>1
<1>11. CASE WaitPid(t)
  <2>1. CASE Collect(t)
    BY <1>4, <2>1 DEF Collect
  <2>2. CASE WaitLoop(t, Children)
    <3>1. \E where \in {"prepare", "check", "asleep", "add"} : Goto(t, where)
      BY <2>2 DEF WaitLoop, WaitAdd, WaitPrepare, WaitSchedule, WaitAgain
    <3> QED
      BY <1>2, <3>1
  <2>3. CASE Goto(t, "add") \/ Goto(t, "sleep")
    BY <1>2, <2>3
  <2>4. CASE WaitCleanup(t, Children, 1)
    BY <1>3, <2>4 DEF WaitCleanup
  <2> QED
    BY <1>11, <2>1, <2>2, <2>3, <2>4 DEF WaitPid
<1> QED
  BY <1>5, <1>6, <1>7, <1>8, <1>9, <1>10, <1>11 DEF ThreadStep

LEMMA ThreadStepKeeps ==
    ASSUME TInv, NEW t \in Threads, ThreadStep(t), Renewed,
           UNCHANGED <<holder, depth, happened, arrived, rwVars>>
    PROVE  TInv'
<1>1. TypeOK
  BY DEF TInv
<1>2. prio \in [Threads -> Int]
  BY <1>1 DEF TypeOK
<1>3. CASE Create(t) \/ NewTask(t)
  <2>1. Steady
    BY <1>2, SyncAssumption DEF Renewed, Steady
  <2> QED
    BY <1>3, <2>1, CreateKeeps
<1>4. CASE ~Create(t) /\ ~NewTask(t)
  <2>1. prio' = prio
    BY <1>1, <1>2, <1>4, NoneNew DEF Renewed, InPool
  <2>2. UNCHANGED syncVars
    BY <2>1 DEF syncVars, mutexVars
  <2> QED
    BY <1>4, <2>2, CreateFailsKeeps, LaunchKeeps, BeginKeeps, ExitKeeps, JoinKeeps, JoinWaitKeeps,
       WaitPidKeeps, TaskExitKeeps, TaskLeaveKeeps DEF ThreadStep
<1> QED
  BY <1>3, <1>4

-----------------------------------------------------------------------------
(* The invariant.                                                            *)

LEMMA InitHolds == Init => TInv
<1> SUFFICES ASSUME Init PROVE TInv
  OBVIOUS
<1>1. prog \in Programs /\ \A t \in Threads : prog[t] \in Seq(Call(t))
  BY ProgramAssumption DEF Init
<1>2. ip = [t \in Threads |-> 1] /\ \A t \in Threads : ip[t] \in 1..(Len(prog[t]) + 1)
  <2>1. \A t \in Threads : Len(prog[t]) \in Nat
    BY <1>1
  <2> QED
    BY <2>1 DEF Init
<1>3. SleepTypeOK
  BY <1>1, <1>2 DEF Init, SleepTypeOK
<1>4. TypeOK
  <2>1. /\ at \in [Threads -> Places] /\ holder \in [Mutexes -> Threads \cup {None}]
        /\ depth \in [Mutexes -> Nat] /\ prio \in [Threads -> Int]
        /\ happened \in [Conds -> BOOLEAN] /\ arrived \in [Barriers -> Nat]
    BY SyncAssumption DEF Init, Places
  <2>2. \A b \in Barriers : arrived[b] < Parties[b]
    BY SyncAssumption DEF Init
  <2>3. /\ rwStatus \in [RwLocks -> {"none", "reading", "writing"}] /\ rwCount \in [RwLocks -> Nat]
        /\ joining \in [Threads -> Threads \cup {None}] /\ status \in BOOLEAN
        /\ exited = {} /\ detached = {} /\ deleted = {} /\ zombies = {}
    BY DEF Init
  <2> QED
    BY <1>3, <2>1, <2>2, <2>3 DEF TypeOK
<1>5. ASSUME NEW t \in Threads PROVE Fine(t)
  <2>1. at[t] \in {"none", "go"}
    BY DEF Init
  <2> QED
    BY <2>1 DEF Fine, PlacedAt, LinkedAt, GivenBack, Reason, Loop, Linking
<1>6. Single /\ Counted /\ Ended
  BY DEF Init, Single, Counted, Ended
<1>7. RwCounted
  <2>1. \A k : Within(k) = {}
    BY <1>2 DEF Within
  <2>2. Cardinality({}) = 0
    BY FS_EmptySet
  <2>3. rwCount = [k \in RwLocks |-> 0]
    BY DEF Init
  <2> QED
    BY <2>1, <2>2, <2>3 DEF RwCounted
<1> QED
  BY <1>4, <1>5, <1>6, <1>7 DEF TInv

LEMMA NextKeeps ==
    ASSUME TInv, [Next]_vars
    PROVE  TInv'
<1>1. CASE UNCHANGED vars
  <2>1. /\ UNCHANGED <<prog, ip, at, on, waiting, finished, queue>>
        /\ UNCHANGED <<holder, depth, prio, happened, arrived, rwStatus, rwCount>>
        /\ UNCHANGED <<exited, detached, deleted, joining, zombies, status>>
    BY <1>1 DEF vars, sleepVars, syncVars, threadVars, mutexVars, rwVars
  <2>2. Single' /\ Counted' /\ Ended'
    BY <2>1 DEF TInv, Single, Counted, Ended
  <2>3. TypeOK'
    BY <2>1 DEF TInv, TypeOK, SleepTypeOK
  <2>4. RwCounted'
    <3>1. \A k : Within(k)' = Within(k)
      BY <2>1 DEF Within
    <3> QED
      BY <2>1, <3>1 DEF TInv, RwCounted
  <2>5. ASSUME NEW t \in Threads PROVE Fine(t)'
    <3>1. Fine(t)
      BY DEF TInv
    <3> QED
      BY <2>1, <3>1 DEF Fine, PlacedAt, LinkedAt, Spot, GivenBack, Reason, MayEnter, Mode, Wanted,
                        Op, Arg, AtEnd
  <2> QED
    BY <2>2, <2>3, <2>4, <2>5 DEF TInv
<1>2. ASSUME NEW t \in Threads, Step(t) PROVE TInv'
  BY <1>2, SyncStepKeeps, ThreadStepKeeps DEF Step
<1> QED
  BY <1>1, <1>2 DEF Next, Over

\* The inductive invariant of the threads.
THEOREM ThreadsInv == Spec => []TInv
BY InitHolds, NextKeeps, PTL DEF Spec

\* In every program that keeps to the rules of the calls, every field has its
\* type: in particular barrier_wait() keeps its count below the number of
\* parties, and rwlock_any_down() never counts below nothing.
THEOREM TypeCorrect == Spec => []TypeOK
<1>1. TInv => TypeOK
  BY DEF TInv
<1> QED
  BY <1>1, ThreadsInv, PTL

\* In every such program nobody sleeps without a reason that somebody else will
\* end: between the look at the condition and the switch, however the wakeups of
\* unlock, rwlock_any_down(), thread_exit() and task_exit() fall, none is lost.
THEOREM NoLostSleeperHolds == Spec => []NoLostSleeper
<1>1. TInv => NoLostSleeper
  <2> SUFFICES ASSUME TInv, NEW t \in Threads, Sleeps(t)
               PROVE  /\ at[t] = "asleep" => IF Op(t) = "waitpid" THEN ~status ELSE holder[Wanted(t)] # None
                      /\ at[t] = "rw" => ~MayEnter(t, Arg(t))
                      /\ at[t] = "join" => Arg(t) \notin exited
    BY DEF NoLostSleeper
  <2>1. waiting[t] /\ t \notin finished /\ Fine(t)
    BY DEF Sleeps, Live, TInv
  <2> QED
    BY <2>1 DEF Fine, Reason
<1> QED
  BY <1>1, ThreadsInv, PTL

-----------------------------------------------------------------------------
(* What is freed, and what is linked.                                        *)

\* No CPU is on what is in the pool, and no wakeup brings it there.
Pooled == \A u \in Threads : at[u] = "none" => ~on[u] /\ (u \in finished \/ ~waiting[u])

\* What is joined is reclaimed by nobody else.
Joined ==
    \A t \in Threads \ finished : at[t] = "join" =>
        at[Arg(t)] # "none" /\ Arg(t) \notin deleted \cup detached

\* Who is detached: the main thread, and whom somebody detaches.
Detachable ==
    {Main} \cup {u \in Threads : \E t \in Threads : \E i \in DOMAIN prog[t] :
                    prog[t][i].op = "detach" /\ prog[t][i].arg = u}

\* The main thread ends in task_exit(), the parent does not.
Outer ==
    /\ detached \subseteq Detachable /\ Parent \notin finished
    /\ Main \in finished => at[Main] \in {"none", "leaving", "gone"}

PInv == Pooled /\ Joined /\ Outer

\* A link is on the queue of the wait its thread is in, and on no other.
LinkPlaces == Linking \cup {"add", "cond", "barrier", "rw"}
OwnLinks(t) ==
    \A q \in Queues : t \in ToSet(queue[q]) => at[t] \in LinkPlaces /\ q = Spot(t)
LinkedOnce == \A t \in Threads : OwnLinks(t)

\* A step of t does nothing to the others but wake them.
Wakes(t) ==
    /\ prog' = prog /\ finished' = finished
    /\ at[t] \notin {"none", "gone"} /\ at'[t] \notin {"none", "join"}
    /\ at[t] = "leaving" => at'[t] = "gone"
    /\ \A u \in Threads \ {t} :
        /\ ip'[u] = ip[u] /\ at'[u] = at[u]
        /\ waiting'[u] => waiting[u]
        /\ on'[u] => on[u] \/ (waiting[u] /\ u \notin finished)

\* What it does to its own link.
Relinks(t) ==
    \/ queue' = queue /\ at[t] \notin LinkPlaces
    \/ queue' = queue /\ at'[t] \in LinkPlaces /\ Spot(t)' = Spot(t)
    \/ \E q \in Queues : /\ queue' = Added(t, q) /\ at'[t] \in LinkPlaces /\ Spot(t)' = q
                         /\ at[t] \in LinkPlaces => Spot(t) = q
    \/ Spot(t) \in Queues /\ queue' = Deleted(t, Spot(t))

LEMMA WakesKeep ==
    ASSUME TInv, PInv, NEW t \in Threads, Wakes(t), UNCHANGED threadVars
    PROVE  PInv'
<1>1. TypeOK /\ Pooled /\ Joined /\ Outer
  BY DEF TInv, PInv
<1>2. Pooled'
  BY <1>1 DEF Pooled, Wakes
<1>3. Joined'
  <2> SUFFICES ASSUME NEW x \in Threads \ finished', at'[x] = "join"
               PROVE  at'[Arg(x)'] # "none" /\ Arg(x)' \notin deleted' \cup detached'
    BY DEF Joined
  <2>1. x # t /\ x \in Threads \ finished /\ at[x] = "join" /\ ip'[x] = ip[x]
    BY DEF Wakes
  <2>2. Arg(x)' = Arg(x)
    BY <2>1, SameCall DEF Wakes
  <2>3. Arg(x) \in Threads
    BY <1>1, <2>1, AtCall DEF TInv, Fine, PlacedAt
  <2>4. at[Arg(x)] # "none" /\ Arg(x) \notin deleted \cup detached
    BY <1>1, <2>1 DEF Joined
  <2>5. at'[Arg(x)] # "none"
    BY <2>3, <2>4 DEF Wakes
  <2> QED
    BY <2>2, <2>4, <2>5 DEF threadVars
<1>4. Outer'
  <2>1. detached' \subseteq Detachable'
    BY <1>1 DEF Outer, Detachable, Wakes, threadVars
  <2>2. Main \in finished' => at'[Main] \in {"none", "leaving", "gone"}
    BY <1>1, ThreadAssumption DEF Outer, Wakes
  <2> QED
    BY <1>1, <2>1, <2>2 DEF Outer, Wakes
<1> QED
  BY <1>2, <1>3, <1>4 DEF PInv

LEMMA RelinksKeep ==
    ASSUME TInv, LinkedOnce, NEW t \in Threads, Wakes(t), Relinks(t)
    PROVE  LinkedOnce'
<1>1. queue \in [Queues -> Seq(Threads)] /\ Single /\ TypeOK
  BY DEF TInv, TypeOK, SleepTypeOK
<1>2. \A u \in Threads : OwnLinks(u)
  BY DEF LinkedOnce
<1>3. ASSUME NEW u \in Threads \ {t}, \A q \in Queues : u \in ToSet(queue'[q]) => u \in ToSet(queue[q])
      PROVE  OwnLinks(u)'
  <2>1. Spot(u)' = Spot(u) /\ at'[u] = at[u]
    BY SameCall DEF Wakes, Spot
  <2> QED
    BY <1>2, <1>3, <2>1 DEF OwnLinks
<1>4. CASE queue' = queue /\ at[t] \notin LinkPlaces
  <2>1. OwnLinks(t)'
    BY <1>2, <1>4 DEF OwnLinks
  <2> QED
    BY <1>3, <1>4, <2>1 DEF LinkedOnce
<1>5. CASE queue' = queue /\ at'[t] \in LinkPlaces /\ Spot(t)' = Spot(t)
  <2>1. OwnLinks(t)'
    BY <1>2, <1>5 DEF OwnLinks
  <2> QED
    BY <1>3, <1>5, <2>1 DEF LinkedOnce
<1>6. ASSUME NEW q \in Queues, queue' = Added(t, q), at'[t] \in LinkPlaces, Spot(t)' = q,
             at[t] \in LinkPlaces => Spot(t) = q
      PROVE  LinkedOnce'
  <2>1. \A u \in Threads, p \in Queues :
          u \in ToSet(queue'[p]) <=> u \in ToSet(queue[p]) \/ (u = t /\ p = q)
    BY <1>1, <1>6, AddedIs
  <2>2. OwnLinks(t)'
    BY <1>2, <1>6, <2>1 DEF OwnLinks
  <2> QED
    BY <1>3, <2>1, <2>2 DEF LinkedOnce
<1>7. CASE Spot(t) \in Queues /\ queue' = Deleted(t, Spot(t))
  <2>1. \A u \in Threads, p \in Queues :
          u \in ToSet(queue'[p]) <=> u \in ToSet(queue[p]) /\ ~(u = t /\ p = Spot(t))
    BY <1>1, <1>7, DeletedIs
  <2>2. OwnLinks(t)'
    BY <1>2, <2>1 DEF OwnLinks
  <2> QED
    BY <1>3, <2>1, <2>2 DEF LinkedOnce
<1> QED
  BY <1>4, <1>5, <1>6, <1>7 DEF Relinks

\* A step that wakes the threads of S at most.
LEMMA WokenIs ==
    ASSUME TypeOK, NEW t \in Threads,
           UNCHANGED <<on, waiting>> \/ \E w, o \in BOOLEAN, S \in SUBSET Threads : Settle(t, w, o, S)
    PROVE  \A u \in Threads \ {t} :
                /\ waiting'[u] => waiting[u]
                /\ on'[u] => on[u] \/ (waiting[u] /\ u \notin finished)
<1>1. CASE UNCHANGED <<on, waiting>>
  BY <1>1
<1>2. ASSUME NEW w \in BOOLEAN, NEW o \in BOOLEAN, NEW S, Settle(t, w, o, S)
      PROVE  \A u \in Threads \ {t} :
                /\ waiting'[u] => waiting[u]
                /\ on'[u] => on[u] \/ (waiting[u] /\ u \notin finished)
  BY <1>2, SettleIs DEF Woken
<1> QED
  BY <1>1, <1>2

LEMMA WakesIs ==
    ASSUME TypeOK, NEW t \in Threads, prog' = prog, finished' = finished,
           at[t] \notin {"none", "gone", "leaving"},
           NEW w, w \notin {"none", "join"}, at' = [at EXCEPT ![t] = w],
           \A u \in Threads \ {t} : ip'[u] = ip[u],
           UNCHANGED <<on, waiting>> \/ \E v, o \in BOOLEAN, S \in SUBSET Threads : Settle(t, v, o, S)
    PROVE  Wakes(t)
<1>1. at'[t] = w /\ \A u \in Threads \ {t} : at'[u] = at[u]
  BY DEF TypeOK
<1> QED
  BY <1>1, WokenIs DEF Wakes

LEMMA QueuedAre ==
    ASSUME TypeOK, NEW q \in Queues
    PROVE  ToSet(queue[q]) \subseteq Threads
<1>1. PICK s \in Seq(Threads) : s = queue[q]
  BY DEF TypeOK, SleepTypeOK
<1> QED
  BY <1>1 DEF ToSet

\* waitq_wakeup() does no more.
LEMMA WakeAllIs ==
    ASSUME TypeOK, NEW t \in Threads, NEW q \in Queues, WakeAll(t, q)
    PROVE  \E v, o \in BOOLEAN, S \in SUBSET Threads : Settle(t, v, o, S)
<1>1. PICK v, o \in BOOLEAN : v = waiting[t] /\ o = on[t]
  BY DEF TypeOK, SleepTypeOK
<1>2. PICK S \in SUBSET Threads : S = ToSet(queue[q])
  BY QueuedAre
<1> QED
  BY <1>1, <1>2 DEF WakeAll

\* The steps of a call that a thread begins, or that touch no queue.
LEMMA LinkFree ==
    ASSUME TypeOK, NEW t \in Threads, at[t] \in {"go", "relock", "new"}, queue' = queue,
           prog' = prog, finished' = finished,
           Goto(t, "add") \/ Goto(t, "go") \/ \E n : Return(t, n),
           UNCHANGED <<on, waiting>> \/ \E v, o \in BOOLEAN, S \in SUBSET Threads : Settle(t, v, o, S)
    PROVE  Wakes(t) /\ Relinks(t)
<1>1. PICK w \in {"add", "go"} : at' = [at EXCEPT ![t] = w]
  BY DEF Goto, Return
<1>2. \A u \in Threads \ {t} : ip'[u] = ip[u]
  BY DEF Goto, Return, TypeOK, SleepTypeOK
<1>3. Wakes(t)
  BY <1>1, <1>2, WakesIs
<1> QED
  BY <1>3 DEF Relinks, LinkPlaces, Linking

\* The loop of WAITQ_WAIT.
LEMMA LoopLinks ==
    ASSUME TInv, NEW t \in Threads, NEW q, q = (IF Op(t) = "waitpid" THEN Children ELSE Wanted(t)),
           \/ WaitLoop(t, q)
           \/ WaitTimeout(t)
           \/ /\ at[t] = "check" /\ (Goto(t, "out") \/ Goto(t, "sleep"))
              /\ UNCHANGED <<prog, finished, queue, on, waiting>>
           \/ at[t] \in {"out", "fail"} /\ \E n : WaitCleanup(t, q, n)
    PROVE  Wakes(t) /\ Relinks(t)
<1>1. TypeOK
  BY DEF TInv
<1>2. /\ at[t] \in Loop \cup {"fail"} /\ prog' = prog /\ finished' = finished
      /\ UNCHANGED <<on, waiting>> \/ \E v, o \in BOOLEAN, S \in SUBSET Threads : Settle(t, v, o, S)
  BY DEF WaitLoop, WaitAdd, WaitPrepare, WaitSchedule, WaitAgain, WaitTimeout, WaitCleanup, Inside, Loop
<1>3. at[t] \notin {"none", "gone", "leaving"}
  BY <1>2 DEF Loop
<1>4. ASSUME NEW w \in Loop \cup {"fail"}, Goto(t, w) PROVE Wakes(t) /\ Spot(t)' = Spot(t) /\ at'[t] = w
             /\ Spot(t) = q /\ q \in Queues
  <2>1. at' = [at EXCEPT ![t] = w] /\ ip' = ip /\ at'[t] = w
    BY <1>1, <1>4, GotoIs
  <2>2. Spot(t)' = Spot(t) /\ Spot(t) = q /\ q \in Queues
    BY <1>2, <2>1, LoopSpot
  <2>3. w \notin {"none", "join"}
    BY DEF Loop
  <2> QED
    BY <1>1, <1>2, <1>3, <2>1, <2>2, <2>3, WakesIs
<1>5. Loop \cup {"fail"} = LinkPlaces \ {"cond", "barrier", "rw"}
  BY DEF Loop, Linking, LinkPlaces
<1>6. CASE WaitAdd(t, q)
  <2>1. Goto(t, "prepare") /\ queue' = Added(t, q)
    BY <1>6 DEF WaitAdd
  <2>2. Wakes(t) /\ Spot(t)' = Spot(t) /\ at'[t] = "prepare" /\ Spot(t) = q /\ q \in Queues
    BY <1>4, <2>1 DEF Loop
  <2> QED
    BY <1>5, <2>1, <2>2 DEF Relinks, Loop
<1>7. CASE WaitPrepare(t) \/ WaitSchedule(t) \/ WaitAgain(t) \/ WaitTimeout(t)
           \/ (queue' = queue /\ (Goto(t, "out") \/ Goto(t, "sleep")))
  <2>1. PICK w \in Loop \cup {"fail"} : Goto(t, w) /\ queue' = queue
    BY <1>7 DEF WaitPrepare, WaitSchedule, WaitAgain, WaitTimeout, Loop
  <2> QED
    BY <1>4, <1>5, <2>1 DEF Relinks
<1>8. ASSUME NEW n, WaitCleanup(t, q, n), at[t] \in {"out", "fail"} PROVE Wakes(t) /\ Relinks(t)
  <2>1. queue' = Deleted(t, q) /\ at' = [at EXCEPT ![t] = "go"] /\ \A u \in Threads \ {t} : ip'[u] = ip[u]
    BY <1>1, <1>8 DEF WaitCleanup, Return, TypeOK, SleepTypeOK
  <2>2. Spot(t) = q
    BY <1>8 DEF Spot
  <2>3. Spot(t) \in Queues
    BY <1>1, <1>2, SpotIs DEF TInv, Fine
  <2>4. Wakes(t)
    BY <1>1, <1>2, <1>3, <2>1, WakesIs
  <2> QED
    BY <2>1, <2>2, <2>3, <2>4 DEF Relinks
<1> QED
  BY <1>6, <1>7, <1>8 DEF WaitLoop

\* The sleeps inside sched_lock(), on the queue of what the call is about.
LEMMA ArgLinks ==
    ASSUME TInv, NEW t \in Threads, NEW q \in Queues, q = Arg(t), prog' = prog, finished' = finished,
           \E v, o \in BOOLEAN, S \in SUBSET Threads : Settle(t, v, o, S),
           \/ /\ at[t] \in {"go", "rw"} /\ queue' = Added(t, q)
              /\ \E w \in {"cond", "barrier", "rw"} : Goto(t, w)
           \/ /\ at[t] \in {"cond", "barrier", "rw"} \/ (at[t] = "go" /\ Op(t) \in {"read", "write"})
              /\ queue' = Deleted(t, q) /\ (Goto(t, "relock") \/ \E n : Return(t, n))
    PROVE  Wakes(t) /\ Relinks(t)
<1>1. TypeOK
  BY DEF TInv
<1>2. CASE /\ at[t] \in {"go", "rw"} /\ queue' = Added(t, q)
           /\ \E w \in {"cond", "barrier", "rw"} : Goto(t, w)
  <2>1. PICK w \in {"cond", "barrier", "rw"} : Goto(t, w)
    BY <1>2
  <2>2. at' = [at EXCEPT ![t] = w] /\ at'[t] = w /\ ip' = ip
    BY <1>1, <2>1, GotoIs
  <2>3. Wakes(t)
    BY <1>1, <1>2, <2>2, WakesIs
  <2>4. Spot(t)' = q /\ (at[t] \in LinkPlaces => Spot(t) = q)
    BY <1>2, <2>2, SameCall DEF Spot, LinkPlaces, Linking
  <2> QED
    BY <1>2, <2>2, <2>3, <2>4 DEF Relinks, LinkPlaces
<1>3. CASE /\ at[t] \in {"cond", "barrier", "rw"} \/ (at[t] = "go" /\ Op(t) \in {"read", "write"})
           /\ queue' = Deleted(t, q) /\ (Goto(t, "relock") \/ \E n : Return(t, n))
  <2>1. PICK w \in {"go", "relock"} : at' = [at EXCEPT ![t] = w]
    BY <1>3 DEF Goto, Return
  <2>2. \A u \in Threads \ {t} : ip'[u] = ip[u]
    BY <1>1, <1>3 DEF Goto, Return, TypeOK, SleepTypeOK
  <2>3. Wakes(t)
    BY <1>1, <1>3, <2>1, <2>2, WakesIs
  <2>4. Spot(t) = q
    BY <1>3 DEF Spot, Wanted, Awaits
  <2> QED
    BY <1>3, <2>3, <2>4 DEF Relinks
<1> QED
  BY <1>2, <1>3

LEMMA SyncLinks ==
    ASSUME TInv, NEW t \in Threads, SyncStep(t)
    PROVE  Wakes(t) /\ Relinks(t)
<1>1. TypeOK /\ Fine(t)
  BY DEF TInv
<1>2. CASE LockTry(t) \/ TryLock(t) \/ AwaitDone(t) \/ Happen(t)
  <2>1. at[t] \in {"go", "relock", "new"}
    BY <1>2 DEF LockTry, TryLock, AwaitDone, Happen, Calls, Inside
  <2>2. Goto(t, "add") \/ Goto(t, "go") \/ \E n : Return(t, n)
    BY <1>2 DEF LockTry, TryLock, AwaitDone, Happen
  <2>3. queue' = queue /\ prog' = prog /\ finished' = finished /\ UNCHANGED <<on, waiting>>
    BY <1>2 DEF LockTry, TryLock, AwaitDone, Happen
  <2> QED
    BY <1>1, <2>1, <2>2, <2>3, LinkFree
<1>3. CASE Unlock(t) \/ Signal(t) \/ RwDown(t)
  <2>1. at[t] = "go" /\ Op(t) \in {"unlock", "signal", "down"} /\ Return(t, 1)
        /\ queue' = queue /\ prog' = prog /\ finished' = finished
    BY <1>3 DEF Unlock, Signal, RwDown, Calls
  <2>2. PICK q \in Queues : q = Arg(t)
    BY <1>1, <2>1, AtCall, SyncAssumption
  <2>3. UNCHANGED <<on, waiting>> \/ WakeAll(t, q)
    BY <1>3, <2>2 DEF Unlock, Signal, RwDown
  <2> QED
    BY <1>1, <2>1, <2>3, WakeAllIs, LinkFree
<1>4. CASE LockCheck(t) \/ LockWait(t)
  <2>1. Op(t) \in {"lock", "timedlock"} \cup Awaits /\ Op(t) # "waitpid"
    BY <1>4 DEF LockCheck, LockWait, Awaits
  <2>2. PICK q : q = Wanted(t)
    OBVIOUS
  <2>3. \/ WaitLoop(t, q)
        \/ WaitTimeout(t)
        \/ /\ at[t] = "check" /\ (Goto(t, "out") \/ Goto(t, "sleep"))
           /\ UNCHANGED <<prog, finished, queue, on, waiting>>
        \/ at[t] \in {"out", "fail"} /\ \E n : WaitCleanup(t, q, n)
    BY <1>4, <2>2 DEF LockCheck, LockWait, Inside
  <2> QED
    BY <2>1, <2>2, <2>3, LoopLinks
<1>5. CASE CondWait(t)
  <2>1. Op(t) \in Awaits /\ at[t] = "go" /\ prog' = prog /\ finished' = finished
        /\ CondPrepare(t, Guards[Arg(t)])
    BY <1>5 DEF CondWait, Calls
  <2>2. PICK q \in Queues : q = Arg(t)
    BY <1>1, <2>1, AtCall, SyncAssumption
  <2>3. PICK m \in Queues : m = Guards[Arg(t)]
    BY <1>1, <2>1, AtCall, SyncAssumption
  <2>4. queue' = Added(t, q) /\ Settle(t, TRUE, FALSE, ToSet(queue[m])) /\ Goto(t, "cond")
    BY <2>1, <2>2, <2>3 DEF CondPrepare
  <2>5. ToSet(queue[m]) \in SUBSET Threads
    BY <1>1, QueuedAre
  <2> QED
    BY <2>1, <2>2, <2>4, <2>5, ArgLinks
<1>6. CASE CondTimeout(t)
  <2>1. /\ at[t] = "cond" /\ Settle(t, FALSE, TRUE, {}) /\ UNCHANGED <<prog, ip, at, finished, queue>>
    BY <1>6 DEF CondTimeout
  <2>2. at' = [at EXCEPT ![t] = "cond"] /\ Spot(t)' = Spot(t)
    BY <1>1, <2>1, SameCall DEF TypeOK, Spot
  <2>3. Wakes(t)
    BY <1>1, <2>1, <2>2, WakesIs
  <2> QED
    BY <2>1, <2>2, <2>3 DEF Relinks, LinkPlaces
<1>7. CASE CondWoken(t)
  <2>1. at[t] = "cond" /\ Op(t) \in Awaits
    BY <1>1, <1>7 DEF CondWoken, Inside, Fine, PlacedAt
  <2>2. PICK q \in Queues : q = Arg(t)
    BY <1>1, <2>1, AtCall, SyncAssumption
  <2>3. queue' = Deleted(t, q) /\ Settle(t, FALSE, TRUE, {}) /\ Goto(t, "relock")
        /\ prog' = prog /\ finished' = finished
    BY <1>7, <2>2 DEF CondWoken
  <2> QED
    BY <2>1, <2>2, <2>3, ArgLinks
<1>8. CASE BarrierWait(t)
  <2>1. at[t] = "go" /\ Op(t) = "barrier" /\ prog' = prog /\ finished' = finished
    BY <1>8 DEF BarrierWait, Calls
  <2>2. PICK q \in Queues : q = Arg(t)
    BY <1>1, <2>1, AtCall, SyncAssumption
  <2>3. CASE WakeAll(t, q) /\ Return(t, 1) /\ UNCHANGED queue
    BY <1>1, <2>1, <2>3, WakeAllIs, LinkFree
  <2>4. CASE queue' = Added(t, q) /\ Settle(t, TRUE, FALSE, {}) /\ Goto(t, "barrier")
    BY <2>1, <2>2, <2>4, ArgLinks
  <2> QED
    BY <1>8, <2>2, <2>3, <2>4 DEF BarrierWait
<1>9. CASE BarrierWoken(t)
  <2>1. at[t] = "barrier" /\ Op(t) = "barrier"
    BY <1>1, <1>9 DEF BarrierWoken, Inside, Fine, PlacedAt
  <2>2. PICK q \in Queues : q = Arg(t)
    BY <1>1, <2>1, AtCall, SyncAssumption
  <2>3. queue' = Deleted(t, q) /\ Settle(t, FALSE, TRUE, {}) /\ Return(t, 1)
        /\ prog' = prog /\ finished' = finished
    BY <1>9, <2>2 DEF BarrierWoken, WaitCleanup
  <2> QED
    BY <2>1, <2>2, <2>3, ArgLinks
<1>10. CASE RwUp(t)
  <2>1. at[t] \in {"go", "rw"} /\ Op(t) \in {"read", "write"}
    BY <1>1, <1>10 DEF RwUp, Calls, Inside, Fine, PlacedAt
  <2>2. PICK q \in Queues : q = Arg(t)
    BY <1>1, <2>1, AtCall, SyncAssumption
  <2>3. CASE WaitCleanup(t, q, 1)
    <3>1. queue' = Deleted(t, q) /\ Settle(t, FALSE, TRUE, {}) /\ Return(t, 1)
          /\ prog' = prog /\ finished' = finished
      BY <2>3 DEF WaitCleanup
    <3> QED
      BY <2>1, <2>2, <3>1, ArgLinks
  <2>4. CASE queue' = Added(t, q) /\ Settle(t, TRUE, FALSE, {}) /\ Goto(t, "rw")
             /\ prog' = prog /\ finished' = finished
    BY <2>1, <2>2, <2>4, ArgLinks
  <2> QED
    BY <1>10, <2>2, <2>3, <2>4 DEF RwUp
<1> QED
  BY <1>2, <1>3, <1>4, <1>5, <1>6, <1>7, <1>8, <1>9, <1>10 DEF SyncStep

\* thread_delete() frees what nobody uses.
LEMMA DeletePool ==
    ASSUME TInv, PInv, NEW t \in Threads, on[t], NEW D, D \subseteq Threads,
           NEW where \in Places \ {"none", "join"}, NEW n \in Nat, Delete(t, D, where, n),
           prog' = prog, Fresh(D) \subseteq finished', finished \subseteq finished',
           \A u \in Threads \ {t} : /\ waiting'[u] => waiting[u]
                                    /\ on'[u] => on[u] \/ (waiting[u] /\ u \notin finished),
           detached' \subseteq Detachable, Parent \notin finished',
           Main \in finished' => Main \in finished \/ (t = Main /\ where = "leaving"),
           t = Main => Main \notin finished,
           \A x \in Threads \ {t} : x \notin finished' /\ at[x] = "join" =>
                Arg(x) \notin D \cup (detached' \ detached)
    PROVE  PInv'
<1>1. /\ TypeOK /\ Ended /\ Pooled /\ Joined /\ Outer
      /\ at \in [Threads -> Places] /\ ip \in [Threads -> Nat]
      /\ exited = finished /\ deleted \subseteq exited /\ zombies \subseteq deleted
  BY DEF TInv, PInv, Ended, TypeOK, SleepTypeOK
<1>2. PICK F, S, P : F = Fresh(D) /\ S = Swept(D) /\ P = Parked(t, D)
  OBVIOUS
<1>3. /\ F \subseteq D /\ S \subseteq zombies /\ P \subseteq F /\ (t \in F => t \in P)
      /\ \A u \in S : ~on[u]
      /\ \A u \in F \ P : u # t /\ ~on'[u]
  BY <1>2 DEF Fresh, Swept, Parked
<1>4. /\ deleted' = deleted \cup F
      /\ at' = [u \in Threads |-> IF u \in S \cup (F \ P) THEN "none"
                                  ELSE IF u = t THEN where ELSE at[u]]
      /\ ip' = [ip EXCEPT ![t] = @ + n]
  BY <1>2 DEF Delete, Freed
<1>5. \A u \in Threads \ {t} : ip'[u] = ip[u]
  BY <1>1, <1>4
<1>6. at'[t] = where
  BY <1>3, <1>4
<1>7. Pooled'
  <2> SUFFICES ASSUME NEW u \in Threads, at'[u] = "none"
               PROVE  ~on'[u] /\ (u \in finished' \/ ~waiting'[u])
    BY DEF Pooled
  <2>1. u # t
    BY <1>6
  <2>2. CASE u \in S
    BY <1>1, <1>3, <2>1, <2>2
  <2>3. CASE u \in F \ P
    BY <1>2, <1>3, <2>3
  <2>4. CASE u \notin S \cup (F \ P)
    <3>1. at[u] = "none"
      BY <1>4, <2>1, <2>4
    <3> QED
      BY <1>1, <2>1, <3>1 DEF Pooled
  <2> QED
    BY <2>2, <2>3, <2>4
<1>8. Joined'
  <2> SUFFICES ASSUME NEW x \in Threads \ finished', at'[x] = "join"
               PROVE  at'[Arg(x)'] # "none" /\ Arg(x)' \notin deleted' \cup detached'
    BY DEF Joined
  <2>1. x # t /\ x \notin finished /\ at[x] = "join"
    BY <1>4, <1>6
  <2>2. Arg(x)' = Arg(x)
    BY <1>5, <2>1, SameCall
  <2>3. Arg(x) \in Threads
    BY <1>1, <2>1, AtCall DEF TInv, Fine, PlacedAt
  <2>4. at[Arg(x)] # "none" /\ Arg(x) \notin deleted \cup detached
    BY <1>1, <2>1 DEF Joined
  <2>5. Arg(x) \notin D /\ Arg(x) \notin detached'
    BY <2>1, <2>4
  <2>6. Arg(x) \notin S \cup F
    BY <1>1, <1>3, <2>4, <2>5
  <2>7. at'[Arg(x)] # "none"
    BY <1>4, <2>3, <2>4, <2>6
  <2> QED
    BY <1>4, <2>2, <2>4, <2>5, <2>6, <2>7
<1>9. Outer'
  <2>1. detached' \subseteq Detachable'
    BY DEF Detachable
  <2>2. ASSUME Main \in finished' PROVE at'[Main] \in {"none", "leaving", "gone"}
    <3>1. CASE t = Main /\ where = "leaving"
      BY <1>6, <3>1
    <3>2. CASE t # Main /\ Main \in finished
      BY <1>1, <1>4, <3>2, ThreadAssumption DEF Outer
    <3> QED
      BY <2>2, <3>1, <3>2
  <2> QED
    BY <2>1, <2>2 DEF Outer
<1> QED
  BY <1>7, <1>8, <1>9 DEF PInv

\* Nor is it linked, when the task exits as it should.
LEMMA DeleteLinks ==
    ASSUME TInv, LinkedOnce, NEW t \in Threads, on[t], NEW D, D \subseteq Threads,
           NEW where \in Places \ {"none"}, NEW n \in Nat, Delete(t, D, where, n),
           prog' = prog, queue' = queue,
           Fresh(D) \subseteq exited', exited \subseteq exited',
           \A u \in Threads \ {t} : u \in exited' => at[u] \notin LinkPlaces,
           at[t] \in LinkPlaces => at'[t] \in LinkPlaces /\ Spot(t)' = Spot(t)
    PROVE  LinkedOnce'
<1>1. /\ \A u \in Threads \ {t} : at'[u] = at[u] \/ (at'[u] = "none" /\ u \in exited')
      /\ \A u \in Threads \ {t} : ip'[u] = ip[u]
  BY DeleteIs
<1>2. ASSUME NEW u \in Threads PROVE OwnLinks(u)'
  <2>1. OwnLinks(u)
    BY DEF LinkedOnce
  <2>2. CASE u = t
    BY <2>1, <2>2 DEF OwnLinks
  <2>3. CASE u # t /\ at'[u] = at[u]
    <3>1. Spot(u)' = Spot(u)
      BY <1>1, <2>3, SameCall DEF Spot
    <3> QED
      BY <2>1, <2>3, <3>1 DEF OwnLinks
  <2>4. CASE u # t /\ u \in exited'
    BY <2>1, <2>4 DEF OwnLinks
  <2> QED
    BY <1>1, <2>2, <2>3, <2>4
<1> QED
  BY <1>2 DEF LinkedOnce

\* Who has exited is linked nowhere.
LEMMA ExitedAre ==
    ASSUME TInv, PInv, Undisturbed, NEW u \in exited
    PROVE  at[u] \notin LinkPlaces
<1>1. u \in finished /\ u \in Threads /\ u # Parent
  BY DEF TInv, Ended, TypeOK, PInv, Outer
<1>2. CASE u = Main
  BY <1>1, <1>2 DEF PInv, Outer, LinkPlaces, Linking
<1>3. CASE u # Main
  BY <1>1, <1>3 DEF Undisturbed, AtRest, Locking, LockedSleeps, LinkPlaces, Linking
<1> QED
  BY <1>2, <1>3

\* A step that deletes threads that have exited.
LEMMA ReapLinks ==
    ASSUME TInv, PInv, NEW t \in Threads, on[t], at[t] \in {"go", "join", "check"},
           NEW D, D \subseteq Threads, Fresh(D) \subseteq exited,
           NEW where \in Places \ {"none", "join"}, NEW n \in Nat, Delete(t, D, where, n),
           UNCHANGED <<on, waiting>> \/ Settle(t, FALSE, TRUE, {}),
           UNCHANGED <<prog, finished, queue, exited>>, detached' \subseteq Detachable,
           at[t] = "check" => Op(t) = "waitpid" /\ where = "out" /\ n = 0,
           \A x \in Threads \ {t} : x \notin finished /\ at[x] = "join" =>
                Arg(x) \notin D \cup (detached' \ detached)
    PROVE  PInv' /\ (Undisturbed /\ LinkedOnce => LinkedOnce')
<1>1. TypeOK /\ Outer /\ exited = finished /\ finished' = finished /\ exited' = exited
      /\ prog' = prog /\ queue' = queue
  BY DEF TInv, PInv, Ended
<1>2. \A u \in Threads \ {t} : /\ waiting'[u] => waiting[u]
                               /\ on'[u] => on[u] \/ (waiting[u] /\ u \notin finished)
  BY <1>1, WokenIs
<1>3. Parent \notin finished' /\ (t = Main => Main \notin finished)
  BY <1>1 DEF Outer
<1>4. PInv'
  BY <1>1, <1>2, <1>3, DeletePool
<1>5. ASSUME Undisturbed, LinkedOnce PROVE LinkedOnce'
  <2>1. \A u \in Threads \ {t} : u \in exited' => at[u] \notin LinkPlaces
    BY <1>1, <1>5, ExitedAre
  <2>2. ASSUME at[t] = "check" PROVE at'[t] \in LinkPlaces /\ Spot(t)' = Spot(t)
    <3>1. at'[t] = where /\ ip'[t] = ip[t] + n
      BY <1>1, DeleteIs
    <3>2. at'[t] = "out" /\ ip'[t] = ip[t]
      BY <1>1, <2>2, <3>1 DEF TypeOK, SleepTypeOK
    <3> QED
      BY <1>1, <2>2, <3>1, <3>2, SameCall DEF Spot, LinkPlaces, Linking
  <2>3. at[t] \in LinkPlaces => at[t] = "check"
    BY DEF LinkPlaces, Linking
  <2> QED
    BY <1>1, <1>5, <2>1, <2>2, <2>3, DeleteLinks
<1> QED
  BY <1>4, <1>5

\* What somebody joins nobody detaches.
LEMMA JoinedIs ==
    ASSUME TypeOK, NEW t \in Threads, Op(t) = "join"
    PROVE  Arg(t) \notin Detachable
<1>1. prog[t] \in Seq(Call(t)) /\ OneJoiner(prog)
  BY ProgramAssumption DEF TypeOK, SleepTypeOK
<1>2. /\ ip[t] \in 1..Len(prog[t]) /\ prog[t][ip[t]].op = "join" /\ prog[t][ip[t]].arg = Arg(t)
      /\ Arg(t) # Main
  BY AtCall
<1>3. ip[t] \in DOMAIN prog[t]
  BY <1>1, <1>2
<1> QED
  BY <1>1, <1>2, <1>3 DEF OneJoiner, Detachable

LEMMA DetachIs ==
    ASSUME TypeOK, NEW t \in Threads, Op(t) = "detach"
    PROVE  Arg(t) \in Detachable /\ Arg(t) \in Threads
<1>1. prog[t] \in Seq(Call(t))
  BY ProgramAssumption DEF TypeOK, SleepTypeOK
<1>2. /\ ip[t] \in 1..Len(prog[t]) /\ prog[t][ip[t]].op = "detach" /\ prog[t][ip[t]].arg = Arg(t)
      /\ Arg(t) \in Threads
  BY AtCall
<1>3. ip[t] \in DOMAIN prog[t]
  BY <1>1, <1>2
<1> QED
  BY <1>2, <1>3 DEF Detachable

LEMMA JoinLinks ==
    ASSUME TInv, PInv, NEW t \in Threads, Join(t) \/ JoinWoken(t)
    PROVE  PInv' /\ (Undisturbed /\ LinkedOnce => LinkedOnce')
<1>1. TypeOK /\ Fine(t) /\ detached \subseteq Detachable
  BY DEF TInv, PInv, Outer
<1>2. Op(t) = "join" /\ on[t] /\ at[t] \in {"go", "join"}
  BY <1>1 DEF Join, JoinWoken, Calls, Inside, Fine, PlacedAt
<1>3. PICK u \in Threads : u = Arg(t)
  BY <1>1, <1>2, AtCall
<1>4. /\ Delete(t, {u}, "go", 1) /\ (InPool(u) \/ u \in exited)
      /\ UNCHANGED <<on, waiting>> \/ Settle(t, FALSE, TRUE, {})
      /\ UNCHANGED <<prog, finished, queue, exited>> /\ detached' = detached
  BY <1>3 DEF Join, JoinWoken
<1>5. Fresh({u}) \subseteq exited /\ {u} \subseteq Threads
  BY <1>4 DEF Fresh
<1>6. ASSUME NEW x \in Threads \ {t}, at[x] = "join" PROVE Arg(x) # u
  <2>1. Op(x) = "join"
    BY <1>6 DEF TInv, Fine, PlacedAt
  <2> QED
    BY <1>1, <1>2, <1>3, <2>1, JoinerIs
<1>7. PICK n \in Nat : n = 1 /\ Delete(t, {u}, "go", n)
  BY <1>4
<1>8. "go" \in Places \ {"none", "join"} /\ detached' \subseteq Detachable
      /\ \A x \in Threads \ {t} : x \notin finished /\ at[x] = "join" =>
            Arg(x) \notin {u} \cup (detached' \ detached)
  BY <1>1, <1>4, <1>6 DEF Places
<1>9. at[t] # "check"
  BY <1>2
<1> QED
  BY <1>2, <1>4, <1>5, <1>7, <1>8, <1>9, ReapLinks

LEMMA DetachLinks ==
    ASSUME TInv, PInv, NEW t \in Threads, Detach(t)
    PROVE  PInv' /\ (Undisturbed /\ LinkedOnce => LinkedOnce')
<1>1. TypeOK /\ Fine(t) /\ detached \subseteq Detachable
  BY DEF TInv, PInv, Outer
<1>2. Op(t) = "detach" /\ on[t] /\ at[t] = "go"
  BY <1>1 DEF Detach, Calls
<1>3. PICK u \in Threads : u = Arg(t) /\ u \in Detachable
  BY <1>1, <1>2, DetachIs
<1>4. PICK D : D = DetachDeletes(u)
  OBVIOUS
<1>5. /\ Delete(t, D, "go", 1) /\ UNCHANGED <<on, waiting>>
      /\ UNCHANGED <<prog, finished, queue, exited>> /\ detached' \subseteq detached \cup {u}
  BY <1>3, <1>4 DEF Detach
<1>6. D \subseteq {u} /\ Fresh(D) \subseteq exited
  BY <1>4 DEF DetachDeletes, Fresh
<1>7. ASSUME NEW x \in Threads \ {t}, at[x] = "join" PROVE Arg(x) # u
  BY <1>1, <1>3, <1>7, JoinedIs DEF TInv, Fine, PlacedAt
<1>8. PICK n \in Nat : n = 1 /\ Delete(t, D, "go", n)
  BY <1>5
<1>9. "go" \in Places \ {"none", "join"} /\ detached' \subseteq Detachable /\ D \subseteq Threads
      /\ \A x \in Threads \ {t} : x \notin finished /\ at[x] = "join" =>
            Arg(x) \notin D \cup (detached' \ detached)
  BY <1>1, <1>3, <1>5, <1>6, <1>7 DEF Places
<1> QED
  BY <1>1, <1>2, <1>5, <1>6, <1>8, <1>9, ReapLinks

LEMMA CollectLinks ==
    ASSUME TInv, PInv, NEW t \in Threads, Collect(t), UNCHANGED <<prog, finished, queue, exited, detached>>
    PROVE  PInv' /\ (Undisturbed /\ LinkedOnce => LinkedOnce')
<1>1. TypeOK /\ Ended /\ detached \subseteq Detachable /\ detached' = detached
  BY DEF TInv, PInv, Outer
<1>2. on[t] /\ Op(t) = "waitpid" /\ status /\ UNCHANGED <<on, waiting>>
  BY DEF Collect, Calls, Inside
<1>3. Fresh({Main}) \subseteq exited /\ {Main} \subseteq Threads
  BY <1>1, <1>2, ThreadAssumption DEF Fresh, Ended
<1>4. ASSUME NEW x \in Threads \ {t}, at[x] = "join" PROVE Arg(x) # Main
  BY <1>1, <1>4, AtCall DEF TInv, Fine, PlacedAt
<1>5. "go" \in Places \ {"none", "join"} /\ "out" \in Places \ {"none", "join"}
  BY DEF Places
<1>6. CASE at[t] = "go" /\ Delete(t, {Main}, "go", 1)
  <2>1. PICK n \in Nat : n = 1 /\ Delete(t, {Main}, "go", n)
    BY <1>6
  <2> QED
    BY <1>1, <1>2, <1>3, <1>4, <1>5, <1>6, <2>1, ReapLinks
<1>7. CASE at[t] = "check" /\ Delete(t, {Main}, "out", 0)
  <2>1. PICK n \in Nat : n = 0 /\ Delete(t, {Main}, "out", n)
    BY <1>7
  <2> QED
    BY <1>1, <1>2, <1>3, <1>4, <1>5, <1>7, <2>1, ReapLinks
<1> QED
  BY <1>6, <1>7 DEF Collect, Calls, Inside

LEMMA ExitLinks ==
    ASSUME TInv, PInv, NEW t \in Threads, Exit(t)
    PROVE  PInv' /\ (Undisturbed /\ LinkedOnce => LinkedOnce')
<1>1. TypeOK /\ Outer /\ Joined /\ exited = finished
  BY DEF TInv, PInv, Ended
<1>2. PICK D : D = {t} \cap detached
  OBVIOUS
<1>3. /\ on[t] /\ at[t] = "go" /\ t \notin {Main, Parent}
      /\ finished' = finished \cup {t} /\ exited' = exited \cup {t}
      /\ Settle(t, TRUE, FALSE, Joiners(t)) /\ Delete(t, D, "gone", 0)
      /\ prog' = prog /\ queue' = queue /\ detached' = detached
  BY <1>2 DEF Exit, Calls
<1>4. \A u \in Threads \ {t} : /\ waiting'[u] => waiting[u]
                               /\ on'[u] => on[u] \/ (waiting[u] /\ u \notin finished)
  BY <1>1, <1>3, SettleIs DEF Woken
<1>5. PICK n \in Nat : n = 0 /\ Delete(t, D, "gone", n)
  BY <1>3
<1>6. /\ D \subseteq Threads /\ Fresh(D) \subseteq finished' /\ Fresh(D) \subseteq exited'
      /\ finished \subseteq finished' /\ exited \subseteq exited'
  BY <1>2, <1>3 DEF Fresh
<1>7. "gone" \in Places \ {"none", "join"}
  BY DEF Places
<1>8. \A x \in Threads \ {t} : x \notin finished' /\ at[x] = "join" =>
         Arg(x) \notin D \cup (detached' \ detached)
  BY <1>1, <1>2, <1>3 DEF Joined
<1>9. /\ detached' \subseteq Detachable /\ Parent \notin finished'
      /\ (Main \in finished' => Main \in finished)
  BY <1>1, <1>3 DEF Outer
<1>10. PInv'
  BY <1>3, <1>4, <1>5, <1>6, <1>7, <1>8, <1>9, DeletePool
<1>11. ASSUME Undisturbed, LinkedOnce PROVE LinkedOnce'
  <2>1. \A u \in Threads \ {t} : u \in exited' => at[u] \notin LinkPlaces
    BY <1>3, <1>11, ExitedAre
  <2>2. at[t] \notin LinkPlaces
    BY <1>3 DEF LinkPlaces, Linking
  <2> QED
    BY <1>3, <1>5, <1>6, <1>7, <1>11, <2>1, <2>2, DeleteLinks
<1> QED
  BY <1>10, <1>11

LEMMA TaskExitLinks ==
    ASSUME TInv, PInv, TaskExit
    PROVE  PInv' /\ (Undisturbed /\ LinkedOnce => LinkedOnce')
<1>1. TypeOK /\ Ended /\ Outer /\ exited = finished /\ Main \in Threads /\ Main # Parent
  BY ThreadAssumption DEF TInv, PInv, Ended
<1>2. PICK V : V = {u \in Threads \ {Main, Parent} : ~InPool(u) /\ u \notin deleted}
  OBVIOUS
<1>3. PICK C : C = Woken(ToSet(queue[Children]))
  OBVIOUS
<1>4. /\ on[Main] /\ at[Main] = "go" /\ Calls(Main, {"end"})
      /\ finished' = finished \cup V \cup {Main} /\ exited' = exited \cup V \cup {Main}
      /\ waiting' = [u \in Threads |-> u = Main \/ (waiting[u] /\ u \notin V \cup C)]
      /\ Delete(Main, V, "leaving", 0)
      /\ prog' = prog /\ queue' = queue /\ detached' = detached
  BY <1>2, <1>3 DEF TaskExit, Calls
<1>5. PICK R : /\ R \subseteq {u \in V : on[u]}
               /\ on' = [u \in Threads |-> IF u \in V THEN u \in R ELSE on[u] \/ u \in C]
  BY <1>2, <1>3 DEF TaskExit
<1>6. \A u \in Threads \ {Main} : /\ waiting'[u] => waiting[u]
                                  /\ on'[u] => on[u] \/ (waiting[u] /\ u \notin finished)
  BY <1>3, <1>4, <1>5 DEF Woken
<1>7. PICK n \in Nat : n = 0 /\ Delete(Main, V, "leaving", n)
  BY <1>4
<1>8. /\ V \subseteq Threads /\ Fresh(V) \subseteq finished' /\ Fresh(V) \subseteq exited'
      /\ finished \subseteq finished' /\ exited \subseteq exited'
  BY <1>2, <1>4 DEF Fresh
<1>9. "leaving" \in Places \ {"none", "join"}
  BY DEF Places
<1>10. ASSUME NEW x \in Threads \ {Main}, x \notin finished' PROVE at[x] # "join"
  <2>1. x = Parent \/ at[x] = "none"
    BY <1>1, <1>2, <1>4, <1>10 DEF InPool, Ended
  <2> QED
    BY <1>1, <2>1, AtCall DEF TInv, Fine, PlacedAt
<1>11. /\ detached' \subseteq Detachable /\ Parent \notin finished' /\ Main \notin finished
  BY <1>1, <1>2, <1>4 DEF Outer
<1>12. PInv'
  BY <1>1, <1>4, <1>6, <1>7, <1>8, <1>9, <1>10, <1>11, DeletePool
<1>13. ASSUME Undisturbed, LinkedOnce PROVE LinkedOnce'
  <2>1. \A u \in V : at[u] \notin LinkPlaces
    BY <1>2, <1>4, <1>13 DEF Undisturbed, AtRest, Locking, LockedSleeps, LinkPlaces, Linking
  <2>2. \A u \in Threads \ {Main} : u \in exited' => at[u] \notin LinkPlaces
    BY <1>4, <1>13, <2>1, ExitedAre
  <2>3. at[Main] \notin LinkPlaces
    BY <1>4 DEF LinkPlaces, Linking
  <2> QED
    BY <1>1, <1>4, <1>7, <1>8, <1>9, <1>13, <2>2, <2>3, DeleteLinks
<1> QED
  BY <1>12, <1>13

LEMMA CreateLinks ==
    ASSUME TInv, PInv, NEW t \in Threads, Create(t) \/ NewTask(t)
    PROVE  PInv' /\ (LinkedOnce => LinkedOnce')
<1>1. TypeOK /\ Pooled /\ Joined /\ Outer
  BY DEF TInv, PInv
<1>2. at[t] = "go" /\ Op(t) \in {"create", "new_task"} /\ (Op(t) = "new_task" <=> ~Create(t))
  BY DEF Create, NewTask, Calls
<1>3. PICK u \in Threads \ {t} : u = Arg(t) /\ u # Parent
  BY <1>1, <1>2, AtCall, ThreadAssumption
<1>4. /\ at[u] = "none" /\ prog' = prog /\ queue' = queue
      /\ at' = [at EXCEPT ![u] = "new"] /\ ip' = [ip EXCEPT ![u] = 1, ![t] = @ + 1]
      /\ finished' = finished \ {u} /\ deleted' = deleted \ {u}
      /\ \E w \in BOOLEAN : waiting' = [waiting EXCEPT ![u] = w]
      /\ on' = on \/ on' = [on EXCEPT ![u] = TRUE]
  BY <1>3 DEF Create, NewTask, InPool, Initialised
<1>5. detached' \subseteq detached \cup {Main}
  BY <1>1, <1>3, AtCall DEF Create, NewTask, Calls
<1>6. /\ at \in [Threads -> Places] /\ ip \in [Threads -> Nat] /\ waiting \in [Threads -> BOOLEAN]
      /\ on \in [Threads -> BOOLEAN]
  BY <1>1 DEF TypeOK, SleepTypeOK
<1>7. /\ at'[u] = "new" /\ \A x \in Threads \ {u} : at'[x] = at[x]
      /\ \A x \in Threads \ {t, u} : ip'[x] = ip[x]
      /\ \A x \in Threads \ {u} : waiting'[x] = waiting[x] /\ on'[x] = on[x]
  BY <1>4, <1>6
<1>8. Pooled'
  BY <1>1, <1>4, <1>7 DEF Pooled
<1>9. Joined'
  <2> SUFFICES ASSUME NEW x \in Threads \ finished', at'[x] = "join"
               PROVE  at'[Arg(x)'] # "none" /\ Arg(x)' \notin deleted' \cup detached'
    BY DEF Joined
  <2>1. x \notin {t, u} /\ x \notin finished /\ at[x] = "join"
    BY <1>2, <1>4, <1>7
  <2>2. Arg(x)' = Arg(x) /\ Op(x) = "join"
    BY <1>4, <1>7, <2>1, SameCall DEF TInv, Fine, PlacedAt
  <2>3. Arg(x) \in Threads /\ Arg(x) # Main
    BY <1>1, <2>2, AtCall
  <2>4. at[Arg(x)] # "none" /\ Arg(x) \notin deleted \cup detached
    BY <1>1, <2>1 DEF Joined
  <2> QED
    BY <1>4, <1>5, <1>7, <2>2, <2>3, <2>4
<1>10. Outer'
  <2>1. detached' \subseteq Detachable'
    BY <1>1, <1>4, <1>5 DEF Outer, Detachable
  <2> QED
    BY <1>1, <1>4, <1>7, <2>1, ThreadAssumption DEF Outer
<1>11. ASSUME LinkedOnce PROVE LinkedOnce'
  <2>1. ASSUME NEW x \in Threads PROVE OwnLinks(x)'
    <3>1. OwnLinks(x)
      BY <1>11 DEF LinkedOnce
    <3>2. CASE x \in {t, u}
      BY <1>2, <1>4, <3>1, <3>2 DEF OwnLinks, LinkPlaces, Linking
    <3>3. CASE x \notin {t, u}
      <4>1. at'[x] = at[x] /\ ip'[x] = ip[x] /\ queue' = queue /\ prog' = prog
        BY <1>4, <1>7, <3>3
      <4>2. Spot(x)' = Spot(x)
        BY <4>1, SameCall DEF Spot
      <4> QED
        BY <3>1, <4>1, <4>2 DEF OwnLinks
    <3> QED
      BY <3>2, <3>3
  <2> QED
    BY <2>1 DEF LinkedOnce
<1> QED
  BY <1>8, <1>9, <1>10, <1>11 DEF PInv

LEMMA JoinWaitLinks ==
    ASSUME TInv, PInv, NEW t \in Threads, JoinWait(t)
    PROVE  PInv' /\ (LinkedOnce => LinkedOnce')
<1>1. TypeOK /\ Ended /\ Pooled /\ Joined /\ Outer
  BY DEF TInv, PInv
<1>2. at[t] = "go" /\ Op(t) = "join"
  BY DEF JoinWait, Calls
<1>3. PICK v \in Threads \ {t} : v = Arg(t)
  BY <1>1, <1>2, AtCall
<1>4. /\ at[v] # "none" /\ v \notin exited /\ Settle(t, TRUE, FALSE, {}) /\ Goto(t, "join")
      /\ prog' = prog /\ finished' = finished /\ queue' = queue
      /\ detached' = detached /\ deleted' = deleted
  BY <1>3 DEF JoinWait, InPool
<1>5. ip' = ip /\ at'[t] = "join" /\ \A u \in Threads \ {t} : at'[u] = at[u]
  BY <1>1, <1>4, GotoIs
<1>6. \A u \in Threads \ {t} : /\ waiting'[u] => waiting[u]
                               /\ on'[u] => on[u] \/ (waiting[u] /\ u \notin finished)
  BY <1>1, <1>4, SettleIs DEF Woken
<1>7. \A u : Arg(u)' = Arg(u) /\ Spot(u)' = IF at'[u] = at[u] THEN Spot(u) ELSE Spot(u)'
  BY <1>4, <1>5, SameCall DEF Spot
<1>8. Pooled'
  BY <1>1, <1>4, <1>5, <1>6 DEF Pooled
<1>9. Joined'
  <2> SUFFICES ASSUME NEW x \in Threads \ finished', at'[x] = "join"
               PROVE  at'[Arg(x)] # "none" /\ Arg(x) \notin deleted' \cup detached'
    BY <1>7 DEF Joined
  <2>1. CASE x = t
    BY <1>1, <1>2, <1>3, <1>4, <1>5, <2>1, JoinedIs DEF Ended, Outer
  <2>2. CASE x # t
    <3>1. x \notin finished /\ at[x] = "join"
      BY <1>4, <1>5, <2>2
    <3>2. Arg(x) \in Threads
      BY <1>1, <3>1, AtCall DEF TInv, Fine, PlacedAt
    <3> QED
      BY <1>1, <1>4, <1>5, <3>1, <3>2 DEF Joined
  <2> QED
    BY <2>1, <2>2
<1>10. Outer'
  <2>1. detached' \subseteq Detachable'
    BY <1>1, <1>4 DEF Outer, Detachable
  <2> QED
    BY <1>1, <1>2, <1>4, <1>5, <2>1, ThreadAssumption DEF Outer
<1>11. ASSUME LinkedOnce PROVE LinkedOnce'
  <2>1. ASSUME NEW x \in Threads PROVE OwnLinks(x)'
    BY <1>2, <1>4, <1>5, <1>7, <1>11 DEF LinkedOnce, OwnLinks, LinkPlaces, Linking
  <2> QED
    BY <2>1 DEF LinkedOnce
<1> QED
  BY <1>8, <1>9, <1>10, <1>11 DEF PInv

\* The other steps.
LEMMA OtherLinks ==
    ASSUME TInv, NEW t \in Threads,
           \/ CreateFails(t) \/ Launch(t) \/ Begin(t) \/ (t = Main /\ TaskLeave)
           \/ WaitPid(t) /\ ~(Collect(t) /\ UNCHANGED <<prog, finished, queue, exited, detached>>)
    PROVE  Wakes(t) /\ Relinks(t) /\ UNCHANGED threadVars
<1>1. TypeOK /\ Fine(t)
  BY DEF TInv
<1>2. CASE CreateFails(t) \/ Begin(t)
  <2>1. at[t] \in {"go", "relock", "new"} /\ queue' = queue /\ prog' = prog /\ finished' = finished
        /\ UNCHANGED <<on, waiting>> /\ UNCHANGED threadVars
    BY <1>2 DEF CreateFails, Begin, Calls, Inside
  <2>2. Goto(t, "go") \/ \E n : Return(t, n)
    BY <1>2 DEF CreateFails, Begin
  <2> QED
    BY <1>1, <2>1, <2>2, LinkFree
<1>3. CASE Launch(t)
  <2>1. at[t] = "go" /\ Op(t) = "launch" /\ queue' = queue /\ prog' = prog /\ finished' = finished
        /\ Return(t, 1) /\ Settle(t, waiting[t], on[t], {Arg(t)} \ exited) /\ UNCHANGED threadVars
    BY <1>3 DEF Launch, Calls
  <2>2. PICK v, o \in BOOLEAN : v = waiting[t] /\ o = on[t]
    BY <1>1 DEF TypeOK, SleepTypeOK
  <2>3. PICK S \in SUBSET Threads : S = {Arg(t)} \ exited
    BY <1>1, <2>1, AtCall
  <2>4. Settle(t, v, o, S)
    BY <2>1, <2>2, <2>3
  <2> QED
    BY <1>1, <2>1, <2>4, LinkFree
<1>4. CASE t = Main /\ TaskLeave
  <2>1. at[t] = "leaving" /\ Settle(t, TRUE, FALSE, {}) /\ Goto(t, "gone")
        /\ prog' = prog /\ finished' = finished /\ queue' = queue /\ UNCHANGED threadVars
    BY <1>4 DEF TaskLeave, Inside
  <2>2. ip' = ip /\ at'[t] = "gone" /\ \A u \in Threads \ {t} : at'[u] = at[u]
    BY <1>1, <2>1, GotoIs
  <2>3. \A u \in Threads \ {t} : /\ waiting'[u] => waiting[u]
                                 /\ on'[u] => on[u] \/ (waiting[u] /\ u \notin finished)
    BY <1>1, <2>1, SettleIs DEF Woken
  <2> QED
    BY <2>1, <2>2, <2>3 DEF Wakes, Relinks, LinkPlaces, Linking
<1>5. CASE WaitPid(t) /\ ~(Collect(t) /\ UNCHANGED <<prog, finished, queue, exited, detached>>)
  <2>1. Op(t) = "waitpid" /\ UNCHANGED threadVars
    BY <1>5 DEF WaitPid
  <2>2. PICK q : q = Children
    OBVIOUS
  <2>3. CASE Calls(t, {"waitpid"}) /\ Goto(t, "add") /\ UNCHANGED <<prog, on, waiting, finished, queue>>
    BY <1>1, <2>1, <2>3, LinkFree DEF Calls
  <2>4. CASE \/ WaitLoop(t, q)
             \/ /\ at[t] = "check" /\ Goto(t, "sleep")
                /\ UNCHANGED <<prog, finished, queue, on, waiting>>
             \/ at[t] = "out" /\ WaitCleanup(t, q, 1)
    BY <2>1, <2>2, <2>4, LoopLinks
  <2> QED
    BY <1>5, <2>2, <2>3, <2>4 DEF WaitPid, Inside
<1> QED
  BY <1>2, <1>3, <1>4, <1>5

-----------------------------------------------------------------------------
(* Freed threads and links: the theorems.                                    *)

LEMMA StepLinks ==
    ASSUME TInv, PInv, NEW t \in Threads, Step(t)
    PROVE  PInv' /\ (Undisturbed /\ LinkedOnce => LinkedOnce')
<1>1. ASSUME Wakes(t), Relinks(t), UNCHANGED threadVars
      PROVE  PInv' /\ (LinkedOnce => LinkedOnce')
  BY <1>1, WakesKeep, RelinksKeep
<1>2. CASE SyncStep(t) /\ UNCHANGED threadVars
  BY <1>1, <1>2, SyncLinks
<1>3. CASE ThreadStep(t)
  <2>1. CASE Create(t) \/ NewTask(t)
    BY <2>1, CreateLinks
  <2>2. CASE Exit(t)
    BY <2>2, ExitLinks
  <2>3. CASE Join(t) \/ JoinWoken(t)
    BY <2>3, JoinLinks
  <2>4. CASE JoinWait(t)
    BY <2>4, JoinWaitLinks
  <2>5. CASE Detach(t)
    BY <2>5, DetachLinks
  <2>6. CASE t = Main /\ TaskExit
    BY <2>6, TaskExitLinks
  <2>7. CASE Collect(t) /\ UNCHANGED <<prog, finished, queue, exited, detached>>
    BY <2>7, CollectLinks
  <2>8. CASE \/ CreateFails(t) \/ Launch(t) \/ Begin(t) \/ (t = Main /\ TaskLeave)
             \/ WaitPid(t) /\ ~(Collect(t) /\ UNCHANGED <<prog, finished, queue, exited, detached>>)
    BY <1>1, <2>8, OtherLinks
  <2> QED
    BY <1>3, <2>1, <2>2, <2>3, <2>4, <2>5, <2>6, <2>7, <2>8 DEF ThreadStep
<1> QED
  BY <1>2, <1>3 DEF Step

LEMMA NextLinks ==
    ASSUME TInv, PInv, [Next]_vars
    PROVE  PInv' /\ (Undisturbed /\ LinkedOnce => LinkedOnce')
<1>1. CASE UNCHANGED vars
  <2>1. /\ UNCHANGED <<prog, ip, at, on, waiting, finished, queue>>
        /\ UNCHANGED <<exited, detached, deleted, joining, zombies, status>>
    BY <1>1 DEF vars, sleepVars, threadVars
  <2>2. Pooled'
    BY <2>1 DEF PInv, Pooled
  <2>3. Joined'
    BY <2>1 DEF PInv, Joined, Arg
  <2>4. Outer'
    BY <2>1 DEF PInv, Outer, Detachable
  <2>5. LinkedOnce => LinkedOnce'
    BY <2>1 DEF LinkedOnce, OwnLinks, Spot, Arg, Op, AtEnd, Wanted
  <2> QED
    BY <2>2, <2>3, <2>4, <2>5 DEF PInv
<1>2. ASSUME NEW t \in Threads, Step(t) PROVE PInv' /\ (Undisturbed /\ LinkedOnce => LinkedOnce')
  BY <1>2, StepLinks
<1> QED
  BY <1>1, <1>2 DEF Next, Over

LEMMA InitLinks == Init => PInv /\ LinkedOnce
<1> SUFFICES ASSUME Init PROVE PInv /\ LinkedOnce
  OBVIOUS
<1>1. /\ at = [t \in Threads |-> IF t = Parent THEN "go" ELSE "none"]
      /\ on = [t \in Threads |-> t = Parent] /\ waiting = [t \in Threads |-> FALSE]
      /\ finished = {} /\ detached = {} /\ queue = [q \in Queues |-> <<>>]
  BY DEF Init
<1>2. Pooled /\ Joined /\ Outer
  BY <1>1 DEF Pooled, Joined, Outer
<1>3. \A q \in Queues : ToSet(queue[q]) = {}
  BY <1>1 DEF ToSet
<1> QED
  BY <1>2, <1>3 DEF PInv, LinkedOnce, OwnLinks

LEMMA PoolInv == Spec => []PInv
<1>1. TInv /\ PInv /\ [Next]_vars => PInv'
  BY NextLinks
<1> QED
  BY <1>1, InitLinks, ThreadsInv, PTL DEF Spec

\* In every program that keeps to the rules of the calls, and whatever its threads
\* are in the middle of when the task exits: what thread_delete() has given back to
\* the pool has no CPU on its stack, is not on the list of zombies, and is joined
\* by nobody.
THEOREM FreedIsAbandoned == Spec => [](\A u \in Threads : at[u] = "none" => Abandoned(u))
<1>1. TInv /\ PInv => \A u \in Threads : at[u] = "none" => Abandoned(u)
  <2> SUFFICES ASSUME TInv, PInv, NEW u \in Threads, at[u] = "none" PROVE Abandoned(u)
    OBVIOUS
  <2>1. ~on[u] /\ u \notin zombies
    BY DEF TInv, Ended, PInv, Pooled
  <2>2. \A t \in Live : at[t] = "join" => Arg(t) # u
    BY DEF PInv, Joined, Live
  <2> QED
    BY <2>1, <2>2 DEF Abandoned
<1> QED
  BY <1>1, ThreadsInv, PoolInv, PTL

LEMMA LinksInv == Spec /\ []Undisturbed => []LinkedOnce
<1>1. TInv /\ PInv /\ Undisturbed /\ LinkedOnce /\ [Next]_vars => LinkedOnce'
  BY NextLinks
<1> QED
  BY <1>1, InitLinks, ThreadsInv, PoolInv, PTL DEF Spec

\* In every such program whose task exits with its threads at rest, a thread goes
\* back to the pool only when it is not in use: it is on no wait queue either.
THEOREM FreedWhenUnusedHolds == Spec /\ []Undisturbed => []FreedWhenUnused
<1>1. LinkedOnce /\ (\A u \in Threads : at[u] = "none" => Abandoned(u)) => FreedWhenUnused
  BY DEF LinkedOnce, OwnLinks, LinkPlaces, Linking, FreedWhenUnused, NotInUse
<1> QED
  BY <1>1, LinksInv, FreedIsAbandoned, PTL

\* In every such program the single link of a thread is on one wait queue at most,
\* once, the queue of the wait the thread is in, whether the wait ends with its
\* condition, with a timeout or with a lock that was taken on the way.
THEOREM OneLinkHolds == Spec /\ []Undisturbed => []OneLink
<1>1. TInv /\ LinkedOnce => OneLink
  <2> SUFFICES ASSUME TInv, LinkedOnce, NEW t \in Live, NEW q \in Queues
               PROVE  /\ Cardinality({i \in DOMAIN queue[q] : queue[q][i] = t}) <= 1
                      /\ t \in ToSet(queue[q]) =>
                           q = IF at[t] \in {"cond", "barrier", "rw"} THEN Arg(t)
                               ELSE IF Op(t) = "waitpid" /\ at[t] # "go" THEN Children
                               ELSE IF at[t] \in Locking \cup {"out"} THEN Wanted(t) ELSE None
    BY DEF OneLink
  <2>1. Cardinality({i \in DOMAIN queue[q] : queue[q][i] = t}) <= 1
    <3>1. PICK s \in Seq(Threads) : s = queue[q]
      BY DEF TInv, TypeOK, SleepTypeOK
    <3>2. PICK I : I = {i \in DOMAIN queue[q] : queue[q][i] = t}
      OBVIOUS
    <3>3. \A i, j \in I : i = j
      BY <3>1, <3>2 DEF TInv, Single
    <3>4. CASE I = {}
      <4>1. Cardinality(I) = 0
        BY <3>4, FS_EmptySet
      <4> QED
        BY <3>2, <4>1
    <3>5. CASE I # {}
      <4>1. PICK i : i \in I
        BY <3>5
      <4>2. I = {i}
        BY <3>3, <4>1
      <4>3. Cardinality(I) = 1
        BY <4>2, FS_Singleton
      <4> QED
        BY <3>2, <4>3
    <3> QED
      BY <3>4, <3>5
  <2>2. ASSUME t \in ToSet(queue[q])
        PROVE  q = IF at[t] \in {"cond", "barrier", "rw"} THEN Arg(t)
                   ELSE IF Op(t) = "waitpid" /\ at[t] # "go" THEN Children
                   ELSE IF at[t] \in Locking \cup {"out"} THEN Wanted(t) ELSE None
    <3>1. at[t] \in LinkPlaces /\ q = Spot(t)
      BY <2>2 DEF LinkedOnce, OwnLinks, Live
    <3> QED
      BY <3>1 DEF LinkPlaces, Linking, Spot, Locking
  <2> QED
    BY <2>1, <2>2
<1> QED
  BY <1>1, LinksInv, ThreadsInv, PTL
=============================================================================
