------------------------------ MODULE SyncProofs ------------------------------
(***************************************************************************)
(* Proofs about the mutexes, read-write locks, barriers and deletions of   *)
(* Threads.                                                                *)
(***************************************************************************)
EXTENDS ThreadsProofs

-----------------------------------------------------------------------------
(* The invariants.                                                           *)

\* What t has of m, as the mutex says.
HeldBy(t, m) == IF holder[m] = t THEN depth[m] ELSE 0

\* A mutex is held as often as its holder has locked it, and not by a thread in
\* the pool.
Owns(t) == \A m \in Mutexes : IF at[t] = "none" THEN holder[m] # t ELSE Locked(t, m) = HeldBy(t, m)
\* A thread begins at its first call and leaves after the last.
StartEnd(t) == (at[t] = "new" => ip[t] = 1) /\ (at[t] \in {"leaving", "gone"} => AtEnd(t))
MutexInv ==
    /\ \A t \in Threads : Owns(t) /\ StartEnd(t)
    /\ \A m \in Mutexes : /\ holder[m] = None => depth[m] = 0
                          /\ holder[m] # None /\ Kind[m] # "recursive" => depth[m] = 1

\* Those inside a read-write lock are as many as it counts, and in the mode it is in.
InRw(k) == {t \in Live : Op(t) = "down" /\ Arg(t) = k}
RwInv ==
    \A k \in RwLocks :
        /\ rwCount[k] = Cardinality(InRw(k))
        /\ rwStatus[k] = "none" => rwCount[k] = 0
        /\ rwStatus[k] = "writing" => rwCount[k] = 1
        /\ rwStatus[k] = "reading" => \A t \in InRw(k) : prog[t][ip[t] - 1].op = "read"

\* Who is about to sleep for a mutex, or does, has made its holder inherit.
Covered(t) ==
    at[t] \in {"sleep", "asleep"} /\ Op(t) # "waitpid" /\ waiting[t] /\ t \notin finished =>
        LET h == holder[Wanted(t)] IN prio[h] >= Base[t] \/ UnlockedInside(h, Wanted(t))
Boosted(t) == prio[t] # Base[t] /\ at[t] # "none" => \E m \in Mutexes : holder[m] = t
BoostInv == \A t \in Threads : prio[t] >= Base[t] /\ Boosted(t) /\ Covered(t)

\* A thread that is deleted is parked or freed, and so is one that has exited and
\* been given up.
Reclaimed(u) == at[u] = "none" \/ u \in deleted
LeakInv ==
    /\ \A u \in deleted : at[u] # "none" => u \in zombies
    /\ \A u \in (exited \cap detached) \ {Main} : Reclaimed(u)
    /\ \A u \in Threads \ {Main, Parent} : OfMain(u) =>
        /\ GivenUp(u) => Reclaimed(u) \/ u \in detached
        /\ Main \in exited => Reclaimed(u)

\* Who has been created, or launched, was so by a call that was made.
CallMade(ops, u) ==
    \E t \in Threads : \E i \in 1..(ip[t] - 1) : prog[t][i].op \in ops /\ prog[t][i].arg = u
\* The thread that waits for x to exit waits for that and nothing else, until x has.
Awaited(x) ==
    LET u == joining[x]
    IN  u # None =>
        /\ u # Parent /\ CallMade({"create", "new_task"}, u)
        /\ u # Main => CallMade({"launch"}, u)
        /\ at[u] = "none" => u \in finished
        /\ \/ u \in finished \/ at[x] \in {"gone", "none"}
           \/ at[u] = "join" /\ Arg(u) = x /\ x \notin exited
OnceInv ==
    Meeting =>
        /\ \A u \in Threads \ {Parent} : at[u] # "none" \/ ip[u] # 1 => CallMade({"create", "new_task"}, u)
        /\ \A u \in Threads \ {Main, Parent} :
            at[u] \notin {"none", "new"} \/ on[u] => CallMade({"launch"}, u)
        /\ \A x \in Threads : Awaited(x)

\* Thread t sleeps at barrier b until the last party comes.
AsleepAt(t, b) == at[t] = "barrier" /\ Arg(t) = b /\ waiting[t]
\* All its users have entered b in n rounds, and the sleepers in the next one.
AtBarrier(b) ==
    /\ \E n \in Nat : \A t \in Users(b) : Entered(t, b) = IF AsleepAt(t, b) THEN n + 1 ELSE n
    /\ arrived[b] = Cardinality({t \in Threads : AsleepAt(t, b)})
    /\ \A t \in Threads : AsleepAt(t, b) => ~on[t]
BarrierInv == Meeting => \A b \in Barriers : AtBarrier(b)

-----------------------------------------------------------------------------
(* Counting calls.                                                           *)

\* One call more.
LEMMA CountNext ==
    ASSUME NEW s, NEW n \in Nat, NEW ops, NEW a
    PROVE  /\ Count(s, n, ops, a) \in Nat /\ Count(s, 0, ops, a) = 0
           /\ Count(s, n + 1, ops, a) =
                Count(s, n, ops, a) + (IF s[n + 1].op \in ops /\ s[n + 1].arg = a THEN 1 ELSE 0)
<1> DEFINE C(k) == {i \in 1..k : s[i].op \in ops /\ s[i].arg = a}
<1>1. IsFiniteSet(1..n)
  BY FS_Interval
<1>2. IsFiniteSet(C(n)) /\ Cardinality(C(n)) \in Nat
  BY <1>1, FS_Subset, FS_CardinalityType
<1>3. C(0) = {}
  OBVIOUS
<1>4. Cardinality(C(0)) = 0
  BY <1>3, FS_EmptySet
<1>5. n + 1 \notin C(n)
  OBVIOUS
<1>0. \A k : Count(s, k, ops, a) = Cardinality(C(k))
  BY DEF Count
<1>6. CASE s[n + 1].op \in ops /\ s[n + 1].arg = a
  <2>1. C(n + 1) = C(n) \cup {n + 1}
    BY <1>6
  <2>2. Cardinality(C(n) \cup {n + 1}) = Cardinality(C(n)) + 1
    BY <1>2, <1>5, FS_AddElement
  <2> HIDE DEF C
  <2> QED
    BY <1>0, <1>2, <1>4, <1>6, <2>1, <2>2
<1>7. CASE ~(s[n + 1].op \in ops /\ s[n + 1].arg = a)
  <2>1. C(n + 1) = C(n)
    BY <1>7
  <2> HIDE DEF C
  <2> QED
    BY <1>0, <1>2, <1>4, <1>7, <2>1
<1> QED
  BY <1>6, <1>7

\* A lock adds to the balance of its mutex, an unlock takes away.
LEMMA BalanceNext ==
    ASSUME NEW s, NEW n \in Nat, NEW m
    PROVE  /\ Balance(s, n, m) \in Int /\ Balance(s, 0, m) = 0
           /\ s[n + 1].arg # m \/ s[n + 1].op \notin Locks \cup {"unlock"} =>
                Balance(s, n + 1, m) = Balance(s, n, m)
           /\ s[n + 1].arg = m /\ s[n + 1].op \in Locks =>
                Balance(s, n + 1, m) = Balance(s, n, m) + 1
           /\ s[n + 1].arg = m /\ s[n + 1].op = "unlock" =>
                Balance(s, n + 1, m) = Balance(s, n, m) - 1
<1>1. "unlock" \notin Locks
  BY DEF Locks
<1> QED
  BY <1>1, CountNext DEF Balance

LEMMA BalanceZero ==
    ASSUME NEW s, NEW m
    PROVE  Balance(s, 0, m) = 0
<1>1. PICK n \in Nat : n = 0
  OBVIOUS
<1> QED
  BY <1>1, BalanceNext

-----------------------------------------------------------------------------
(* What the calls have locked.                                               *)

\* A program that keeps to the rules.
Good(t, s) == s \in Seq(Call(t)) /\ Pairs(s) /\ Disciplined(s)

LEMMA ProgramIs ==
    ASSUME TypeOK, NEW t \in Threads
    PROVE  /\ Good(t, prog[t]) /\ Len(prog[t]) \in Nat
           /\ ip[t] \in 1..(Len(prog[t]) + 1)
BY ProgramAssumption, AtCall DEF TypeOK, SleepTypeOK, Good

\* What a thread at the place w of its call number i has locked of m.
NextOp(s, i) == IF i > Len(s) THEN "end" ELSE s[i].op
Owed(s, i, w, m) ==
    LET guarded == NextOp(s, i) \in Awaits /\ Guards[s[i].arg] = m
        wanted == IF NextOp(s, i) \in Awaits THEN Guards[s[i].arg] ELSE s[i].arg
    IN  Balance(s, i - 1, m) + (IF w = "out" /\ wanted = m THEN 1 ELSE 0)
            - (IF guarded /\ w # "go" THEN 1 ELSE 0)

LEMMA LockedIs ==
    ASSUME NEW t, NEW m
    PROVE  /\ Locked(t, m) = Owed(prog[t], ip[t], at[t], m)
           /\ Locked(t, m)' = Owed(prog'[t], ip'[t], at'[t], m)
BY DEF Locked, Owed, NextOp, Wanted, Op, Arg, AtEnd

LEMMA OwedIs ==
    ASSUME NEW t \in Threads, NEW s, Good(t, s), NEW i \in 1..(Len(s) + 1), NEW m \in Mutexes, NEW w
    PROVE  LET op == NextOp(s, i)
               b == Balance(s, i - 1, m)
               x == Owed(s, i, w, m)
           IN  /\ b \in Int /\ x \in Int
               /\ w = "go" => x = b
               /\ op \notin Awaits /\ w # "out" => x = b
               /\ op \in Awaits /\ Guards[s[i].arg] # m => x = b
               /\ op \in Awaits /\ w = "out" => x = b
               /\ op \in Awaits /\ Guards[s[i].arg] = m => b = 1
               /\ op \in Awaits /\ Guards[s[i].arg] = m /\ w \notin {"go", "out"} => x = 0
               /\ w = "out" /\ op \in {"lock", "timedlock"} =>
                    x = b + (IF s[i].arg = m THEN 1 ELSE 0)
               /\ w = "out" /\ op = "waitpid" => x = b
<1>1. Len(s) \in Nat /\ i - 1 \in Nat
  BY DEF Good
<1>2. Balance(s, i - 1, m) \in Int
  BY <1>1, BalanceNext
<1>3. NextOp(s, i) \in {"lock", "timedlock", "waitpid"} => NextOp(s, i) \notin Awaits
  BY DEF Awaits
<1>4. NextOp(s, i) \in Awaits => i \in DOMAIN s /\ NextOp(s, i) = s[i].op
  BY DEF NextOp, Awaits, Good
<1>5. NextOp(s, i) \in Awaits /\ Guards[s[i].arg] = m => Balance(s, i - 1, m) = 1
  BY <1>4 DEF Good, Disciplined
<1>6. NextOp(s, i) = "waitpid" => s[i].arg # m
  <2>1. SUFFICES ASSUME NextOp(s, i) = "waitpid" PROVE s[i].arg # m
    OBVIOUS
  <2>2. i \in 1..Len(s) /\ s[i].op = "waitpid"
    BY <2>1 DEF NextOp, Good
  <2>3. s[i] \in Call(t)
    BY <2>2 DEF Good
  <2>4. PICK c \in Call(t) : c = s[i]
    BY <2>3
  <2>5. c.op = "waitpid" => c.arg = Main
    BY DEF Call, Locks, Awaits
  <2> QED
    BY <2>2, <2>4, <2>5, SyncAssumption, ThreadAssumption, ProgramAssumption
<1> QED
  BY <1>2, <1>3, <1>5, <1>6 DEF Owed

\* One call on, and past a lock that was refused with its unlock.
LEMMA BalanceOn ==
    ASSUME NEW t \in Threads, NEW s, Good(t, s), NEW i \in 1..Len(s), NEW m \in Mutexes
    PROVE  LET b == Balance(s, i - 1, m)
           IN  /\ b \in Int
               /\ s[i].op \notin Locks \cup {"unlock"} => Balance(s, i, m) = b
               /\ s[i].arg # m => Balance(s, i, m) = b
               /\ s[i].op \in Locks /\ s[i].arg = m => Balance(s, i, m) = b + 1
               /\ s[i].op = "unlock" /\ s[i].arg = m => b > 0 /\ Balance(s, i, m) = b - 1
               /\ s[i].op \in {"create", "new_task"} => b = 0
               /\ s[i].op \in Locks /\ s[i + 1] = [op |-> "unlock", arg |-> s[i].arg] =>
                    Balance(s, i + 1, m) = b
               /\ Balance(s, Len(s), m) = 0
<1>1. Len(s) \in Nat /\ i - 1 \in Nat /\ (i - 1) + 1 = i /\ i \in Nat /\ i \in DOMAIN s
  BY DEF Good
<1>2. /\ Balance(s, i - 1, m) \in Int
      /\ s[i].arg # m \/ s[i].op \notin Locks \cup {"unlock"} =>
           Balance(s, i, m) = Balance(s, i - 1, m)
      /\ s[i].arg = m /\ s[i].op \in Locks => Balance(s, i, m) = Balance(s, i - 1, m) + 1
      /\ s[i].arg = m /\ s[i].op = "unlock" => Balance(s, i, m) = Balance(s, i - 1, m) - 1
  BY <1>1, BalanceNext
<1>3. /\ s[i + 1].arg # m => Balance(s, i + 1, m) = Balance(s, i, m)
      /\ s[i + 1].arg = m /\ s[i + 1].op = "unlock" => Balance(s, i + 1, m) = Balance(s, i, m) - 1
  BY <1>1, BalanceNext
<1>4. s[i].op = "unlock" /\ s[i].arg = m => Balance(s, i - 1, m) > 0
  BY <1>1 DEF Good, Disciplined
<1>5. s[i].op \in {"create", "new_task"} => Balance(s, i - 1, m) = 0
  BY <1>1 DEF Good, Disciplined
<1>6. Balance(s, Len(s), m) = 0
  BY DEF Good, Disciplined
<1> QED
  BY <1>2, <1>3, <1>4, <1>5, <1>6

\* The call a thread is at.
LEMMA NextOpIs ==
    ASSUME TypeOK, NEW t \in Threads
    PROVE  /\ NextOp(prog[t], ip[t]) = Op(t)
           /\ Op(t) # "end" => /\ ip[t] \in 1..Len(prog[t]) /\ prog[t][ip[t]].op = Op(t)
                               /\ prog[t][ip[t]].arg = Arg(t)
           /\ Op(t) = "end" => AtEnd(t) /\ ip[t] = Len(prog[t]) + 1
<1>1. Op(t) = "end" => AtEnd(t)
  <2>1. SUFFICES ASSUME ~AtEnd(t) PROVE Op(t) # "end"
    OBVIOUS
  <2>2. ip[t] \in 1..Len(prog[t])
    BY <2>1, ProgramIs DEF AtEnd
  <2> QED
    BY <2>1, <2>2, CallIs DEF Op
<1> QED
  BY <1>1, ProgramIs, AtCall DEF NextOp, Op, AtEnd

\* The same in terms of the state.
LEMMA LockedAt ==
    ASSUME TypeOK, NEW t \in Threads, NEW m \in Mutexes
    PROVE  LET b == Balance(prog[t], ip[t] - 1, m)
           IN  /\ b \in Int /\ Locked(t, m) \in Int
               /\ at[t] = "go" => Locked(t, m) = b
               /\ Op(t) \notin Awaits /\ at[t] # "out" => Locked(t, m) = b
               /\ Op(t) \in Awaits /\ Wanted(t) # m => Locked(t, m) = b
               /\ Op(t) \in Awaits /\ at[t] = "out" => Locked(t, m) = b
               /\ Op(t) \in Awaits /\ Wanted(t) = m => b = 1
               /\ Op(t) \in Awaits /\ Wanted(t) = m /\ at[t] \notin {"go", "out"} => Locked(t, m) = 0
               /\ at[t] = "out" /\ Op(t) \in {"lock", "timedlock"} /\ Wanted(t) = m => Locked(t, m) = b + 1
               /\ at[t] = "out" /\ Op(t) \in {"lock", "timedlock"} /\ Wanted(t) # m => Locked(t, m) = b
               /\ at[t] = "out" /\ Op(t) = "waitpid" => Locked(t, m) = b
<1> DEFINE s == prog[t]
           i == ip[t]
<1>1. Good(t, s) /\ i \in 1..(Len(s) + 1) /\ NextOp(s, i) = Op(t)
  BY ProgramIs, NextOpIs
<1>2. Locked(t, m) = Owed(s, i, at[t], m)
  BY LockedIs
<1>3. Op(t) \in Awaits \cup {"lock", "timedlock"} =>
        Wanted(t) = IF Op(t) \in Awaits THEN Guards[s[i].arg] ELSE s[i].arg
  BY DEF Wanted, Arg
<1>4. Op(t) \in {"lock", "timedlock"} => Op(t) \notin Awaits
  BY DEF Awaits
<1> HIDE DEF s, i
<1> QED
  BY <1>1, <1>2, <1>3, <1>4, OwedIs DEF s, i

\* And of the next one.
LEMMA LockedThen ==
    ASSUME TypeOK, NEW t \in Threads, NEW m \in Mutexes, prog' = prog
    PROVE  /\ at'[t] = "go" /\ ip'[t] \in 1..(Len(prog[t]) + 1) =>
                Locked(t, m)' = Balance(prog[t], ip'[t] - 1, m)
           /\ ip'[t] = ip[t] /\ at'[t] = "out" =>
                LET b == Balance(prog[t], ip[t] - 1, m)
                IN  /\ Op(t) \in Awaits => Locked(t, m)' = b
                    /\ Op(t) \in {"lock", "timedlock"} /\ Wanted(t) = m => Locked(t, m)' = b + 1
                    /\ Op(t) \in {"lock", "timedlock"} /\ Wanted(t) # m => Locked(t, m)' = b
                    /\ Op(t) = "waitpid" => Locked(t, m)' = b
           /\ ip'[t] = ip[t] /\ at'[t] \notin {"go", "out"} =>
                LET b == Balance(prog[t], ip[t] - 1, m)
                IN  /\ Op(t) \notin Awaits \/ Wanted(t) # m => Locked(t, m)' = b
                    /\ Op(t) \in Awaits /\ Wanted(t) = m => Locked(t, m)' = 0
<1> DEFINE s == prog[t]
           i == ip[t]
<1>1. Good(t, s) /\ i \in 1..(Len(s) + 1) /\ NextOp(s, i) = Op(t)
  BY ProgramIs, NextOpIs
<1>2. Locked(t, m)' = Owed(s, ip'[t], at'[t], m)
  BY LockedIs
<1>3. Op(t) \in Awaits \cup {"lock", "timedlock"} =>
        Wanted(t) = IF Op(t) \in Awaits THEN Guards[s[i].arg] ELSE s[i].arg
  BY DEF Wanted, Arg
<1>4. Op(t) \in {"lock", "timedlock"} => Op(t) \notin Awaits
  BY DEF Awaits
<1> HIDE DEF s, i
<1>5. at'[t] = "go" /\ ip'[t] \in 1..(Len(s) + 1) => Locked(t, m)' = Balance(s, ip'[t] - 1, m)
  BY <1>1, <1>2, OwedIs
<1>6. ip'[t] = i /\ at'[t] = "out" =>
        LET b == Balance(s, i - 1, m)
        IN  /\ Op(t) \in Awaits => Locked(t, m)' = b
            /\ Op(t) \in {"lock", "timedlock"} /\ Wanted(t) = m => Locked(t, m)' = b + 1
            /\ Op(t) \in {"lock", "timedlock"} /\ Wanted(t) # m => Locked(t, m)' = b
            /\ Op(t) = "waitpid" => Locked(t, m)' = b
  BY <1>1, <1>2, <1>3, <1>4, OwedIs
<1>7. ip'[t] = i /\ at'[t] \notin {"go", "out"} =>
        LET b == Balance(s, i - 1, m)
        IN  /\ Op(t) \notin Awaits \/ Wanted(t) # m => Locked(t, m)' = b
            /\ Op(t) \in Awaits /\ Wanted(t) = m => Locked(t, m)' = 0
  BY <1>1, <1>2, <1>3, <1>4, OwedIs
<1> QED
  BY <1>5, <1>6, <1>7 DEF s, i

-----------------------------------------------------------------------------
(* Mutexes are held as the calls say.                                        *)

\* A thread that stays, and its mutexes with it.
LEMMA OwnsSame ==
    ASSUME NEW u \in Threads, Owns(u), StartEnd(u), prog' = prog, ip'[u] = ip[u], at'[u] = at[u],
           \A m \in Mutexes : \/ holder'[m] = holder[m] /\ depth'[m] = depth[m]
                              \/ holder[m] # u /\ holder'[m] # u
    PROVE  Owns(u)' /\ StartEnd(u)'
<1>1. \A m \in Mutexes : HeldBy(u, m)' = HeldBy(u, m)
  BY DEF HeldBy
<1>2. \A m \in Mutexes : Locked(u, m)' = Locked(u, m)
  BY LockedIs
<1> QED
  BY <1>1, <1>2, SameCall DEF Owns, StartEnd

\* What holds after a step of t in which the others stay where they are.
Trades(t, m) ==
    /\ holder[m] \in {None, t} /\ holder'[m] \in {None, t}
    /\ holder'[m] = None => depth'[m] = 0
    /\ holder'[m] # None /\ Kind[m] # "recursive" => depth'[m] = 1
LEMMA OwnsStep ==
    ASSUME TypeOK, MutexInv, NEW t \in Threads, prog' = prog,
           \A u \in Threads \ {t} : ip'[u] = ip[u] /\ at'[u] = at[u],
           \A m \in Mutexes : (holder'[m] = holder[m] /\ depth'[m] = depth[m]) \/ Trades(t, m),
           Owns(t)', StartEnd(t)'
    PROVE  MutexInv'
<1>1. ASSUME NEW u \in Threads \ {t} PROVE Owns(u)' /\ StartEnd(u)'
  <2>1. \A m \in Mutexes : \/ holder'[m] = holder[m] /\ depth'[m] = depth[m]
                           \/ holder[m] # u /\ holder'[m] # u
    BY SyncAssumption DEF Trades
  <2> QED
    BY <2>1, OwnsSame DEF MutexInv
<1> QED
  BY <1>1 DEF MutexInv, Trades

\* A move inside a call.
LEMMA OwnsMove ==
    ASSUME TypeOK, NEW t \in Threads, Owns(t), prog' = prog, ip'[t] = ip[t],
           at[t] # "none", at'[t] # "none", at[t] = "out" <=> at'[t] = "out",
           Op(t) \in Awaits => (at[t] = "go" <=> at'[t] = "go"),
           holder' = holder, depth' = depth
    PROVE  Owns(t)'
<1>1. \A m \in Mutexes : HeldBy(t, m)' = HeldBy(t, m)
  BY DEF HeldBy
<1>2. \A m \in Mutexes : Locked(t, m)' = Locked(t, m)
  BY SameCall DEF Locked
<1> QED
  BY <1>1, <1>2 DEF Owns

\* A call that is not about mutexes returns.
LEMMA OwnsNext ==
    ASSUME TypeOK, NEW t \in Threads, Owns(t), prog' = prog, ip'[t] = ip[t] + 1,
           at[t] # "none", at'[t] = "go",
           Op(t) \notin Locks \cup {"unlock", "end"},
           Op(t) \in Awaits => at[t] \in {"go", "out"}, at[t] = "out" => Op(t) \in Awaits \cup {"waitpid"},
           holder' = holder, depth' = depth
    PROVE  Owns(t)'
<1>1. \A m \in Mutexes : HeldBy(t, m)' = HeldBy(t, m)
  BY DEF HeldBy
<1>2. /\ Good(t, prog[t]) /\ ip[t] \in 1..Len(prog[t]) /\ prog[t][ip[t]].op = Op(t)
      /\ NextOp(prog[t], ip[t]) = Op(t) /\ Len(prog[t]) \in Nat
  BY ProgramIs, NextOpIs
<1>3. ASSUME NEW m \in Mutexes PROVE Locked(t, m)' = Locked(t, m)
  <2>1. Balance(prog[t], ip[t], m) = Balance(prog[t], ip[t] - 1, m)
    BY <1>2, BalanceOn
  <2>2. Locked(t, m) = Balance(prog[t], ip[t] - 1, m)
    <3>1. /\ Op(t) \notin Awaits /\ at[t] # "out" => Locked(t, m) = Balance(prog[t], ip[t] - 1, m)
          /\ at[t] = "go" => Locked(t, m) = Balance(prog[t], ip[t] - 1, m)
          /\ at[t] = "out" /\ Op(t) = "waitpid" => Locked(t, m) = Balance(prog[t], ip[t] - 1, m)
      BY <1>2, LockedIs, OwedIs
    <3>2. at[t] = "out" /\ Op(t) \in Awaits => Locked(t, m) = Balance(prog[t], ip[t] - 1, m)
      BY <1>2, LockedIs, OwedIs
    <3> QED
      BY <3>1, <3>2
  <2>3. Locked(t, m)' = Balance(prog[t], (ip[t] + 1) - 1, m)
    <3>1. ip[t] + 1 \in 1..(Len(prog[t]) + 1)
      BY <1>2
    <3> QED
      BY <1>2, <3>1, LockedIs, OwedIs
  <2> QED
    BY <1>2, <2>1, <2>2, <2>3
<1> QED
  BY <1>1, <1>3 DEF Owns

\* mutex_trylock() takes a mutex.
LEMMA TakeOwns ==
    ASSUME TInv, MutexInv, NEW t \in Threads, NEW m \in Mutexes, MayTake(t, m), Take(t, m)
    PROVE  /\ \A x \in Mutexes : (holder'[x] = holder[x] /\ depth'[x] = depth[x]) \/ Trades(t, x)
           /\ HeldBy(t, m)' = HeldBy(t, m) + 1 /\ HeldBy(t, m) \in Nat
           /\ \A x \in Mutexes \ {m} : HeldBy(t, x)' = HeldBy(t, x)
<1>1. holder \in [Mutexes -> Threads \cup {None}] /\ depth \in [Mutexes -> Nat] /\ t # None
  BY SyncAssumption DEF TInv, TypeOK
<1>2. /\ holder'[m] = t /\ depth'[m] = depth[m] + 1
      /\ \A x \in Mutexes \ {m} : holder'[x] = holder[x] /\ depth'[x] = depth[x]
  BY <1>1 DEF Take
<1>3. CASE holder[m] = None
  BY <1>1, <1>2, <1>3 DEF MutexInv, Trades, HeldBy
<1>4. CASE Kind[m] = "recursive" /\ holder[m] = t
  BY <1>1, <1>2, <1>4 DEF MutexInv, Trades, HeldBy
<1> QED
  BY <1>3, <1>4 DEF MayTake

\* A lock is refused: its unlock is left out.
LEMMA OwnsSkip ==
    ASSUME TypeOK, NEW t \in Threads, Owns(t), prog' = prog, ip'[t] = ip[t] + 2,
           at[t] \notin {"none", "out"}, at'[t] = "go", Op(t) \in Locks,
           Op(t) \in {"timedlock", "trylock"}
             \/ (Kind[Arg(t)] = "errorcheck" /\ Balance(prog[t], ip[t] - 1, Arg(t)) > 0),
           holder' = holder, depth' = depth
    PROVE  Owns(t)'
<1>1. \A m \in Mutexes : HeldBy(t, m)' = HeldBy(t, m)
  BY DEF HeldBy
<1>2. Op(t) \notin Awaits /\ Op(t) # "end"
  BY DEF Locks, Awaits
<1>3. /\ Good(t, prog[t]) /\ ip[t] \in 1..Len(prog[t]) /\ prog[t][ip[t]].op = Op(t)
      /\ prog[t][ip[t]].arg = Arg(t) /\ Arg(t) \in Mutexes
      /\ NextOp(prog[t], ip[t]) = Op(t) /\ Len(prog[t]) \in Nat /\ ip[t] \in DOMAIN prog[t]
  BY <1>2, ProgramIs, NextOpIs, AtCall DEF Good
<1>4. prog[t][ip[t] + 1] = [op |-> "unlock", arg |-> Arg(t)]
  <2>1. CASE Op(t) \in {"timedlock", "trylock"}
    BY <2>1, <1>3 DEF Good, Disciplined
  <2>2. CASE Op(t) = "lock" /\ Kind[Arg(t)] = "errorcheck" /\ Balance(prog[t], ip[t] - 1, Arg(t)) > 0
    BY <2>2, <1>3 DEF Good, Disciplined
  <2> QED
    BY <2>1, <2>2 DEF Locks
<1>5. ip[t] + 2 \in 1..(Len(prog[t]) + 1)
  <2>1. MayFail(prog[t][ip[t]])
    BY <1>3 DEF MayFail, Locks
  <2> QED
    <3>1. ip[t] + 1 \in DOMAIN prog[t] /\ DOMAIN prog[t] = 1..Len(prog[t])
      BY <1>3, <2>1 DEF Good, Pairs
    <3> QED
      BY <1>3, <3>1
<1>6. ASSUME NEW m \in Mutexes PROVE Locked(t, m)' = Locked(t, m)
  <2>1. Balance(prog[t], ip[t] + 1, m) = Balance(prog[t], ip[t] - 1, m)
    BY <1>3, <1>4, BalanceOn
  <2>2. Locked(t, m) = Balance(prog[t], ip[t] - 1, m)
    BY <1>2, LockedAt
  <2>3. Locked(t, m)' = Balance(prog[t], (ip[t] + 2) - 1, m)
    BY <1>5, LockedThen
  <2>4. (ip[t] + 2) - 1 = ip[t] + 1
    BY <1>3
  <2> QED
    BY <2>1, <2>2, <2>3, <2>4
<1> QED
  BY <1>1, <1>6 DEF Owns

\* A lock or cond_wait() gets the mutex.
LEMMA OwnsTaken ==
    ASSUME TypeOK, NEW t \in Threads, Owns(t), prog' = prog,
           Op(t) \in Locks \cup Awaits, at[t] \notin {"none", "out"},
           Op(t) \in Awaits => at[t] # "go",
           NEW m \in Mutexes, m = Wanted(t),
           HeldBy(t, m)' = HeldBy(t, m) + 1, HeldBy(t, m) \in Nat,
           \A x \in Mutexes \ {m} : HeldBy(t, x)' = HeldBy(t, x),
           \/ at'[t] = "out" /\ ip'[t] = ip[t] /\ Op(t) # "trylock"
           \/ at'[t] = "go" /\ ip'[t] = ip[t] + After(t)
    PROVE  Owns(t)'
<1>1. /\ Op(t) # "end" /\ (Op(t) \in Awaits <=> Op(t) \notin Locks)
      /\ Op(t) \in Awaits => Op(t) \notin Locks \cup {"unlock"}
      /\ Op(t) = "await" => Op(t) \in Awaits
      /\ Op(t) \in Locks /\ Op(t) # "trylock" => Op(t) \in {"lock", "timedlock"}
  BY DEF Locks, Awaits
<1>2. /\ Good(t, prog[t]) /\ ip[t] \in 1..Len(prog[t]) /\ prog[t][ip[t]].op = Op(t)
      /\ prog[t][ip[t]].arg = Arg(t) /\ ip[t] \in 1..(Len(prog[t]) + 1)
      /\ ip[t] + 1 \in 1..(Len(prog[t]) + 1) /\ (ip[t] + 1) - 1 = ip[t] /\ ip[t] + 0 = ip[t]
  BY <1>1, ProgramIs, NextOpIs
<1>3. at'[t] = "go" => ip'[t] = ip[t] \/ ip'[t] = ip[t] + 1
  BY <1>2 DEF After
<1>4. Op(t) \in Locks /\ at'[t] = "go" => ip'[t] = ip[t] + 1
  BY <1>1, <1>2 DEF After
<1>5. ASSUME NEW x \in Mutexes
      PROVE  /\ Locked(t, x) \in Int
             /\ x = m => Locked(t, x)' = Locked(t, x) + 1
             /\ x # m => Locked(t, x)' = Locked(t, x)
  <2> DEFINE b == Balance(prog[t], ip[t] - 1, x)
  <2>1. b \in Int /\ Locked(t, x) \in Int
    BY LockedAt
  <2>2. CASE Op(t) \in Awaits
    <3>1. Balance(prog[t], ip[t], x) = b
      BY <1>1, <1>2, <2>2, BalanceOn
    <3>2. Locked(t, x)' = b
      <4>1. CASE at'[t] = "out"
        BY <4>1, <2>2, LockedThen
      <4>2. CASE at'[t] = "go" /\ ip'[t] = ip[t]
        BY <4>2, <1>2, LockedThen
      <4>3. CASE at'[t] = "go" /\ ip'[t] = ip[t] + 1
        BY <4>3, <1>2, <3>1, LockedThen
      <4> QED
        BY <4>1, <4>2, <4>3, <1>3
    <3>3. /\ x # m => Locked(t, x) = b
          /\ x = m => b = 1 /\ Locked(t, x) = 0
      BY <2>2, LockedAt
    <3> QED
      BY <2>1, <3>2, <3>3
  <2>3. CASE Op(t) \in Locks
    <3>1. m = Arg(t)
      BY <1>1, <2>3 DEF Wanted
    <3>2. Locked(t, x) = b
      BY <1>1, <2>3, LockedAt
    <3>3. CASE at'[t] = "out"
      BY <1>1, <2>1, <2>3, <3>2, <3>3, LockedThen
    <3>4. CASE at'[t] = "go"
      <4>1. Locked(t, x)' = Balance(prog[t], ip[t], x)
        BY <1>2, <1>4, <2>3, <3>4, LockedThen
      <4>2. /\ x = m => Balance(prog[t], ip[t], x) = b + 1
            /\ x # m => Balance(prog[t], ip[t], x) = b
        <5>1. prog[t][ip[t]].op \in Locks /\ prog[t][ip[t]].arg = m
          BY <1>2, <2>3, <3>1
        <5>2. ASSUME x = m PROVE Balance(prog[t], ip[t], x) = b + 1
          <6>1. prog[t][ip[t]].op \in Locks /\ prog[t][ip[t]].arg = x
            BY <5>1, <5>2
          <6> HIDE <5>2
          <6> QED
            BY <1>2, <6>1, BalanceOn
        <5>3. x # m => Balance(prog[t], ip[t], x) = b
          BY <1>2, <5>1, BalanceOn
        <5> QED
          BY <5>2, <5>3
      <4> QED
        BY <2>1, <4>1, <4>2, <3>2
    <3> QED
      BY <3>3, <3>4
  <2> QED
    BY <2>2, <2>3
<1>6. ASSUME NEW x \in Mutexes PROVE Locked(t, x)' = HeldBy(t, x)'
  <2>1. Locked(t, x) = HeldBy(t, x)
    BY DEF Owns
  <2> QED
    BY <1>5, <2>1
<1> QED
  BY <1>6 DEF Owns

\* A step of t that leaves the mutexes alone.
LEMMA OwnsQuiet ==
    ASSUME TypeOK, MutexInv, NEW t \in Threads, Wakes(t), at'[t] \notin {"new", "leaving", "gone"},
           holder' = holder, depth' = depth, Owns(t)'
    PROVE  MutexInv'
<1>1. StartEnd(t)'
  BY DEF StartEnd
<1>2. prog' = prog /\ \A u \in Threads \ {t} : ip'[u] = ip[u] /\ at'[u] = at[u]
  BY DEF Wakes
<1> QED
  BY <1>1, <1>2, OwnsStep

\* A step of t that takes the mutex it wants.
LEMMA TakeKeeps ==
    ASSUME TInv, MutexInv, NEW t \in Threads, Wakes(t),
           Op(t) \in Locks \cup Awaits, at[t] # "out", Op(t) \in Awaits => at[t] # "go",
           NEW m \in Mutexes, m = Wanted(t), MayTake(t, m), Take(t, m),
           \/ at'[t] = "out" /\ ip'[t] = ip[t] /\ Op(t) # "trylock"
           \/ at'[t] = "go" /\ ip'[t] = ip[t] + After(t)
    PROVE  MutexInv'
<1>1. TypeOK /\ Owns(t) /\ at[t] # "none" /\ prog' = prog
      /\ \A u \in Threads \ {t} : ip'[u] = ip[u] /\ at'[u] = at[u]
  BY DEF TInv, MutexInv, Wakes
<1>2. /\ \A x \in Mutexes : (holder'[x] = holder[x] /\ depth'[x] = depth[x]) \/ Trades(t, x)
      /\ HeldBy(t, m)' = HeldBy(t, m) + 1 /\ HeldBy(t, m) \in Nat
      /\ \A x \in Mutexes \ {m} : HeldBy(t, x)' = HeldBy(t, x)
  BY TakeOwns
<1>3. Owns(t)'
  BY <1>1, <1>2, OwnsTaken
<1>4. StartEnd(t)'
  BY DEF StartEnd
<1> QED
  BY <1>1, <1>2, <1>3, <1>4, OwnsStep

LEMMA LockTryOwns ==
    ASSUME TInv, MutexInv, NEW t \in Threads, LockTry(t)
    PROVE  MutexInv'
<1> DEFINE m == Wanted(t)
<1>1. TypeOK /\ Fine(t) /\ Owns(t)
  BY DEF TInv, MutexInv
<1>2. Wakes(t) /\ at[t] # "none" /\ prog' = prog
  BY SyncLinks DEF SyncStep, Wakes
<1>3. \/ at[t] = "go" /\ Op(t) \in {"lock", "timedlock"} /\ Op(t) \in Locks /\ Op(t) \notin Awaits
      \/ at[t] = "relock" /\ Op(t) \in Awaits
  BY <1>1 DEF LockTry, Calls, Inside, Fine, PlacedAt, Locks, Awaits
<1>4. m \in Mutexes /\ (Op(t) \in Locks => m = Arg(t))
  <2>1. Op(t) \in Locks => Op(t) \notin Awaits
    BY DEF Locks, Awaits
  <2> QED
    BY <1>1, <1>3, <2>1, AtCall DEF Wanted
<1>5. CASE MayTake(t, m) /\ Take(t, m) /\ Return(t, After(t))
  <2>1. at'[t] = "go" /\ ip'[t] = ip[t] + After(t)
    BY <1>1, <1>5 DEF Return, TypeOK, SleepTypeOK
  <2> HIDE DEF m
  <2> QED
    BY <1>2, <1>3, <1>4, <1>5, <2>1, TakeKeeps DEF m
<1>6. CASE Deadlk(t, m) /\ Return(t, Skip) /\ UNCHANGED mutexVars
  <2>1. at'[t] = "go" /\ ip'[t] = ip[t] + 2 /\ holder' = holder /\ depth' = depth
    BY <1>1, <1>6 DEF Return, TypeOK, SleepTypeOK, Skip, mutexVars
  <2>2. Op(t) \in Locks /\ at[t] = "go"
    BY <1>1, <1>3, <1>6 DEF Fine, GivenBack, Deadlk, Wanted
  <2>3. HeldBy(t, m) >= 1
    BY <1>4, <1>6, SyncAssumption DEF Deadlk, TInv, Counted, HeldBy
  <2>4. Balance(prog[t], ip[t] - 1, m) = HeldBy(t, m)
    <3>1. Locked(t, m) = HeldBy(t, m)
      BY <1>1, <1>2, <1>4 DEF Owns
    <3> QED
      BY <1>1, <1>4, <2>2, <3>1, LockedAt
  <2>5. Kind[Arg(t)] = "errorcheck" /\ Balance(prog[t], ip[t] - 1, Arg(t)) > 0
    <3>1. Arg(t) = m /\ Kind[m] = "errorcheck"
      BY <1>4, <1>6, <2>2 DEF Deadlk
    <3>2. HeldBy(t, m) > 0
      <4>1. depth[m] \in Nat /\ 0 \in Nat
        BY <1>1, <1>4 DEF TypeOK
      <4>2. HeldBy(t, m) \in Nat
        BY <4>1 DEF HeldBy
      <4> QED
        BY <2>3, <4>2
    <3> QED
      BY <2>4, <3>1, <3>2
  <2>6. Owns(t)'
    BY <1>1, <1>2, <2>1, <2>2, <2>5, OwnsSkip
  <2> QED
    BY <1>1, <1>2, <2>1, <2>6, OwnsQuiet
<1>7. CASE ~MayTake(t, m) /\ Inherit(t, m) /\ Goto(t, "add")
  <2>1. at'[t] = "add" /\ ip'[t] = ip[t] /\ holder' = holder /\ depth' = depth
    BY <1>1, <1>7 DEF Goto, TypeOK, Inherit
  <2>2. Owns(t)'
    BY <1>1, <1>2, <1>3, <2>1, OwnsMove
  <2> QED
    BY <1>1, <1>2, <2>1, <2>2, OwnsQuiet
<1> QED
  BY <1>5, <1>6, <1>7 DEF LockTry

LEMMA LockCheckOwns ==
    ASSUME TInv, MutexInv, NEW t \in Threads, LockCheck(t)
    PROVE  MutexInv'
<1> DEFINE m == Wanted(t)
<1>1. TypeOK /\ Fine(t) /\ Owns(t)
  BY DEF TInv, MutexInv
<1>2. Wakes(t) /\ at[t] # "none" /\ prog' = prog
  BY SyncLinks DEF SyncStep, Wakes
<1>3. at[t] = "check" /\ Op(t) \in {"lock", "timedlock"} \cup Awaits
      /\ Op(t) \in Locks \cup Awaits /\ Op(t) # "trylock"
  BY DEF LockCheck, Inside, Locks, Awaits
<1>4. m \in Mutexes
  BY <1>1, <1>3, AtCall
<1>5. CASE MayTake(t, m) /\ Take(t, m) /\ Goto(t, "out")
  <2>1. at'[t] = "out" /\ ip'[t] = ip[t]
    BY <1>1, <1>5 DEF Goto, TypeOK
  <2> HIDE DEF m
  <2> QED
    BY <1>2, <1>3, <1>4, <1>5, <2>1, TakeKeeps DEF m
<1>6. CASE Inherit(t, m) /\ Goto(t, "sleep")
  <2>1. at'[t] = "sleep" /\ ip'[t] = ip[t] /\ holder' = holder /\ depth' = depth
    BY <1>1, <1>6 DEF Goto, TypeOK, Inherit
  <2>2. Owns(t)'
    BY <1>1, <1>2, <1>3, <2>1, OwnsMove
  <2> QED
    BY <1>1, <1>2, <2>1, <2>2, OwnsQuiet
<1> QED
  BY <1>5, <1>6 DEF LockCheck

LEMMA TryLockOwns ==
    ASSUME TInv, MutexInv, NEW t \in Threads, TryLock(t)
    PROVE  MutexInv'
<1> DEFINE m == Arg(t)
<1>1. TypeOK /\ Fine(t) /\ Owns(t)
  BY DEF TInv, MutexInv
<1>2. Wakes(t) /\ at[t] # "none" /\ prog' = prog
  BY SyncLinks DEF SyncStep, Wakes
<1>3. at[t] = "go" /\ Op(t) = "trylock" /\ Op(t) \in Locks /\ Op(t) \notin Awaits
  BY DEF TryLock, Calls, Locks, Awaits
<1>4. m \in Mutexes /\ m = Wanted(t)
  BY <1>1, <1>3, AtCall DEF Wanted
<1>5. CASE MayTake(t, m) /\ Take(t, m) /\ Return(t, 1)
  <2>1. at'[t] = "go" /\ ip'[t] = ip[t] + After(t)
    BY <1>1, <1>3, <1>5 DEF Return, TypeOK, SleepTypeOK, After
  <2> HIDE DEF m
  <2> QED
    BY <1>2, <1>3, <1>4, <1>5, <2>1, TakeKeeps
<1>6. CASE Return(t, Skip) /\ UNCHANGED mutexVars
  <2>1. at'[t] = "go" /\ ip'[t] = ip[t] + 2 /\ holder' = holder /\ depth' = depth
    BY <1>1, <1>6 DEF Return, TypeOK, SleepTypeOK, Skip, mutexVars
  <2>2. Owns(t)'
    BY <1>1, <1>2, <1>3, <2>1, OwnsSkip
  <2> QED
    BY <1>1, <1>2, <2>1, <2>2, OwnsQuiet
<1> QED
  BY <1>5, <1>6 DEF TryLock

\* The places of the loop of WAITQ_WAIT.
LEMMA LoopPlaces ==
    ASSUME TypeOK, NEW t \in Threads, NEW q, WaitLoop(t, q) \/ WaitTimeout(t)
    PROVE  /\ at[t] \in Locking \ {"relock", "fail"} /\ at'[t] \in Locking \ {"relock"}
           /\ ip' = ip
BY DEF WaitLoop, WaitAdd, WaitPrepare, WaitSchedule, WaitAgain, WaitTimeout, Inside, Goto, TypeOK,
       Locking

LEMMA LockWaitOwns ==
    ASSUME TInv, MutexInv, NEW t \in Threads, LockWait(t)
    PROVE  MutexInv'
<1>1. TypeOK /\ Fine(t) /\ Owns(t)
  BY DEF TInv, MutexInv
<1>2. Wakes(t) /\ at[t] # "none" /\ prog' = prog
  BY SyncLinks DEF SyncStep, Wakes
<1>3. Op(t) \in {"lock", "timedlock"} \cup Awaits /\ Op(t) # "end"
      /\ holder' = holder /\ depth' = depth
  BY DEF LockWait, syncVars, mutexVars, Awaits
<1>4. CASE WaitLoop(t, Wanted(t)) \/ WaitTimeout(t)
  <2>1. /\ at[t] \notin {"go", "out"}
        /\ at'[t] \notin {"none", "go", "out", "new", "leaving", "gone"} /\ ip'[t] = ip[t]
    BY <1>1, <1>4, LoopPlaces DEF Locking
  <2>2. Owns(t)'
    BY <1>1, <1>2, <1>3, <2>1, OwnsMove
  <2> QED
    BY <1>1, <1>2, <1>3, <2>1, <2>2, OwnsQuiet
<1>5. CASE Inside(t, "out") /\ WaitCleanup(t, Wanted(t), After(t))
  <2>1. at[t] = "out" /\ at'[t] = "go" /\ ip'[t] = ip[t] + After(t)
    BY <1>1, <1>5 DEF Inside, WaitCleanup, Return, TypeOK, SleepTypeOK
  <2>2. /\ Good(t, prog[t]) /\ ip[t] \in 1..Len(prog[t]) /\ prog[t][ip[t]].op = Op(t)
        /\ prog[t][ip[t]].arg = Arg(t) /\ ip[t] \in 1..(Len(prog[t]) + 1)
        /\ ip[t] + 1 \in 1..(Len(prog[t]) + 1) /\ (ip[t] + 1) - 1 = ip[t] /\ ip[t] + 0 = ip[t]
    BY <1>1, <1>3, ProgramIs, NextOpIs
  <2>3. ASSUME NEW x \in Mutexes PROVE Locked(t, x)' = Locked(t, x)
    <3> DEFINE b == Balance(prog[t], ip[t] - 1, x)
    <3>1. CASE Op(t) = "await"
      <4>1. ip'[t] = ip[t] /\ Op(t) \in Awaits
        BY <2>1, <2>2, <3>1 DEF After, Awaits
      <4>2. Locked(t, x) = b
        BY <1>1, <2>1, <4>1, LockedAt
      <4>3. Locked(t, x)' = b
        BY <1>1, <1>2, <2>1, <2>2, <4>1, LockedThen
      <4> QED
        BY <4>2, <4>3
    <3>2. CASE Op(t) = "timedawait"
      <4>1. ip'[t] = ip[t] + 1 /\ Op(t) \in Awaits /\ Op(t) \notin Locks \cup {"unlock"}
        BY <2>1, <2>2, <3>2 DEF After, Awaits, Locks
      <4>2. Locked(t, x) = b
        BY <1>1, <2>1, <4>1, LockedAt
      <4>3. Locked(t, x)' = Balance(prog[t], ip[t], x)
        BY <1>1, <1>2, <2>1, <2>2, <4>1, LockedThen
      <4>4. Balance(prog[t], ip[t], x) = b
        BY <2>2, <4>1, BalanceOn
      <4> QED
        BY <4>2, <4>3, <4>4
    <3>3. CASE Op(t) \in {"lock", "timedlock"}
      <4>1. ip'[t] = ip[t] + 1 /\ Op(t) \in Locks /\ Wanted(t) = Arg(t)
        BY <2>1, <2>2, <3>3 DEF After, Awaits, Locks, Wanted
      <4>2. Locked(t, x)' = Balance(prog[t], ip[t], x)
        BY <1>1, <1>2, <2>1, <2>2, <4>1, LockedThen
      <4>3. CASE x = Arg(t)
        <5>1. prog[t][ip[t]].op \in Locks /\ prog[t][ip[t]].arg = x /\ Wanted(t) = x
          BY <2>2, <4>1, <4>3
        <5>2. Locked(t, x) = b + 1
          BY <1>1, <2>1, <3>3, <5>1, LockedAt
        <5>3. Balance(prog[t], ip[t], x) = b + 1
          <6> HIDE <4>3
          <6> QED
            BY <2>2, <5>1, BalanceOn
        <5> QED
          BY <4>2, <5>2, <5>3
      <4>4. CASE x # Arg(t)
        <5>1. Locked(t, x) = b
          BY <1>1, <2>1, <3>3, <4>1, <4>4, LockedAt
        <5>2. Balance(prog[t], ip[t], x) = b
          BY <2>2, <4>4, BalanceOn
        <5> QED
          BY <4>2, <5>1, <5>2
      <4> QED
        BY <4>3, <4>4
    <3> QED
      BY <1>3, <3>1, <3>2, <3>3 DEF Awaits
  <2>4. Owns(t)'
    BY <1>1, <1>2, <1>3, <2>1, <2>3 DEF Owns, HeldBy
  <2> QED
    BY <1>1, <1>2, <1>3, <2>1, <2>4, OwnsQuiet
<1>6. CASE Inside(t, "fail") /\ WaitCleanup(t, Wanted(t), Skip)
  <2>1. at[t] = "fail" /\ at'[t] = "go" /\ ip'[t] = ip[t] + 2 /\ Op(t) = "timedlock" /\ Op(t) \in Locks
    BY <1>1, <1>6 DEF Inside, WaitCleanup, Return, TypeOK, SleepTypeOK, Skip, Fine, PlacedAt, Locks
  <2>2. Owns(t)'
    BY <1>1, <1>2, <1>3, <2>1, OwnsSkip
  <2> QED
    BY <1>1, <1>2, <1>3, <2>1, <2>2, OwnsQuiet
<1> QED
  BY <1>4, <1>5, <1>6 DEF LockWait

\* mutex_unlock_schedee() by the holder.
LEMMA ReleaseTrades ==
    ASSUME TInv, MutexInv, NEW t \in Threads, NEW m \in Mutexes, Release(t, m), holder[m] = t
    PROVE  /\ \A x \in Mutexes : (holder'[x] = holder[x] /\ depth'[x] = depth[x]) \/ Trades(t, x)
           /\ HeldBy(t, m)' = 0 /\ \A x \in Mutexes \ {m} : HeldBy(t, x)' = HeldBy(t, x)
<1>1. holder \in [Mutexes -> Threads \cup {None}] /\ depth \in [Mutexes -> Nat] /\ t # None
  BY SyncAssumption DEF TInv, TypeOK
<1>2. /\ holder'[m] = None /\ depth'[m] = 0
      /\ \A x \in Mutexes \ {m} : holder'[x] = holder[x] /\ depth'[x] = depth[x]
  BY <1>1 DEF Release
<1> QED
  BY <1>1, <1>2 DEF Trades, HeldBy

LEMMA UnlockOwns ==
    ASSUME TInv, MutexInv, NEW t \in Threads, Unlock(t)
    PROVE  MutexInv'
<1>0. PICK m : m = Arg(t)
  OBVIOUS
<1>1. TypeOK /\ Fine(t) /\ Owns(t)
  BY DEF TInv, MutexInv
<1>2. /\ Wakes(t) /\ at[t] # "none" /\ prog' = prog
      /\ \A u \in Threads \ {t} : ip'[u] = ip[u] /\ at'[u] = at[u]
  BY SyncLinks DEF SyncStep, Wakes
<1>3. at[t] = "go" /\ Op(t) = "unlock" /\ Op(t) # "end" /\ at'[t] = "go" /\ ip'[t] = ip[t] + 1
  BY <1>1 DEF Unlock, Calls, Return, TypeOK, SleepTypeOK
<1>4. m \in Mutexes
  BY <1>0, <1>1, <1>3, AtCall
<1>5. /\ Good(t, prog[t]) /\ ip[t] \in 1..Len(prog[t]) /\ prog[t][ip[t]].op = "unlock"
      /\ prog[t][ip[t]].arg = m /\ ip[t] \in 1..(Len(prog[t]) + 1)
      /\ ip[t] + 1 \in 1..(Len(prog[t]) + 1) /\ (ip[t] + 1) - 1 = ip[t]
  BY <1>0, <1>1, <1>3, ProgramIs, NextOpIs
<1>6. /\ Locked(t, m) = Balance(prog[t], ip[t] - 1, m) /\ Locked(t, m) \in Int /\ Locked(t, m) > 0
      /\ Locked(t, m)' = Locked(t, m) - 1
  <2>1. Locked(t, m) = Balance(prog[t], ip[t] - 1, m) /\ Locked(t, m) \in Int
    BY <1>1, <1>3, <1>4, LockedAt
  <2>2. Locked(t, m)' = Balance(prog[t], ip[t], m)
    BY <1>1, <1>2, <1>3, <1>4, <1>5, LockedThen
  <2>3. Balance(prog[t], ip[t], m) = Balance(prog[t], ip[t] - 1, m) - 1
        /\ Balance(prog[t], ip[t] - 1, m) > 0
    BY <1>4, <1>5, BalanceOn
  <2> QED
    BY <2>1, <2>2, <2>3
<1>7. ASSUME NEW x \in Mutexes, x # m PROVE Locked(t, x)' = Locked(t, x)
  <2>1. Locked(t, x) = Balance(prog[t], ip[t] - 1, x)
    BY <1>1, <1>3, LockedAt
  <2>2. Locked(t, x)' = Balance(prog[t], ip[t], x)
    BY <1>1, <1>2, <1>3, <1>5, LockedThen
  <2>3. Balance(prog[t], ip[t], x) = Balance(prog[t], ip[t] - 1, x)
    BY <1>5, <1>7, BalanceOn
  <2> QED
    BY <2>1, <2>2, <2>3
<1>8. holder[m] = t /\ depth[m] = Locked(t, m) /\ HeldBy(t, m) = Locked(t, m)
  <2>1. HeldBy(t, m) = Locked(t, m)
    BY <1>1, <1>2, <1>4 DEF Owns
  <2> QED
    BY <1>6, <2>1 DEF HeldBy
<1>9. CASE LastUnlock(t, m) /\ Release(t, m)
  <2>1. /\ \A x \in Mutexes : (holder'[x] = holder[x] /\ depth'[x] = depth[x]) \/ Trades(t, x)
        /\ HeldBy(t, m)' = 0 /\ \A x \in Mutexes \ {m} : HeldBy(t, x)' = HeldBy(t, x)
    BY <1>4, <1>8, <1>9, ReleaseTrades
  <2>2. depth[m] = 1
    <3>1. t # None /\ Kind[m] \in {"normal", "recursive", "errorcheck"}
      BY <1>4, SyncAssumption
    <3> QED
      BY <1>4, <1>8, <1>9, <3>1 DEF LastUnlock, MutexInv
  <2>3. Owns(t)'
    <3>1. Locked(t, m)' = HeldBy(t, m)'
      BY <1>6, <1>8, <2>1, <2>2
    <3>2. ASSUME NEW x \in Mutexes, x # m PROVE Locked(t, x)' = HeldBy(t, x)'
      BY <3>2, <1>1, <1>2, <1>7, <2>1 DEF Owns
    <3> QED
      BY <1>3, <3>1, <3>2 DEF Owns
  <2> QED
    BY <1>1, <1>2, <1>3, <2>1, <2>3, OwnsStep DEF StartEnd
<1>10. CASE /\ ~LastUnlock(t, m) /\ UNCHANGED holder
            /\ depth' = [depth EXCEPT ![m] = IF holder[m] = t THEN @ - 1 ELSE @]
  <2>1. t # None /\ Kind[m] = "recursive" /\ depth[m] # 1
    BY <1>4, <1>8, <1>10, SyncAssumption DEF LastUnlock
  <2>2. /\ depth'[m] = depth[m] - 1 /\ holder'[m] = t
        /\ \A x \in Mutexes \ {m} : holder'[x] = holder[x] /\ depth'[x] = depth[x]
    BY <1>1, <1>4, <1>8, <1>10 DEF TypeOK
  <2>3. \A x \in Mutexes : (holder'[x] = holder[x] /\ depth'[x] = depth[x]) \/ Trades(t, x)
    BY <1>8, <2>1, <2>2 DEF Trades
  <2>4. Owns(t)'
    <3>1. Locked(t, m)' = HeldBy(t, m)'
      BY <1>6, <1>8, <2>2 DEF HeldBy
    <3>2. ASSUME NEW x \in Mutexes, x # m PROVE Locked(t, x)' = HeldBy(t, x)'
      BY <3>2, <1>1, <1>2, <1>7, <2>2 DEF Owns, HeldBy
    <3> QED
      BY <1>3, <3>1, <3>2 DEF Owns
  <2> QED
    BY <1>1, <1>2, <1>3, <2>3, <2>4, OwnsStep DEF StartEnd
<1> QED
  BY <1>0, <1>9, <1>10 DEF Unlock

LEMMA CondWaitOwns ==
    ASSUME TInv, MutexInv, NEW t \in Threads, CondWait(t)
    PROVE  MutexInv'
<1>0. PICK m : m = Guards[Arg(t)]
  OBVIOUS
<1>1. TypeOK /\ Fine(t) /\ Owns(t)
  BY DEF TInv, MutexInv
<1>2. /\ Wakes(t) /\ at[t] # "none" /\ prog' = prog
      /\ \A u \in Threads \ {t} : ip'[u] = ip[u] /\ at'[u] = at[u]
  BY SyncLinks DEF SyncStep, Wakes
<1>3. at[t] = "go" /\ Op(t) \in Awaits /\ at'[t] = "cond" /\ ip'[t] = ip[t] /\ Release(t, m)
  BY <1>0, <1>1 DEF CondWait, CondPrepare, Calls, Goto, TypeOK
<1>4. m \in Mutexes /\ m = Wanted(t)
  BY <1>0, <1>1, <1>3, AtCall DEF Wanted
<1>5. Locked(t, m) = 1 /\ Locked(t, m)' = 0
  BY <1>1, <1>2, <1>3, <1>4, LockedAt, LockedThen
<1>6. ASSUME NEW x \in Mutexes, x # m PROVE Locked(t, x)' = Locked(t, x)
  BY <1>6, <1>1, <1>2, <1>3, <1>4, LockedAt, LockedThen
<1>7. holder[m] = t
  <2>1. HeldBy(t, m) = Locked(t, m)
    BY <1>1, <1>2, <1>4 DEF Owns
  <2> QED
    BY <1>5, <2>1 DEF HeldBy
<1>8. /\ \A x \in Mutexes : (holder'[x] = holder[x] /\ depth'[x] = depth[x]) \/ Trades(t, x)
      /\ HeldBy(t, m)' = 0 /\ \A x \in Mutexes \ {m} : HeldBy(t, x)' = HeldBy(t, x)
  BY <1>3, <1>4, <1>7, ReleaseTrades
<1>9. Owns(t)'
  <2>1. ASSUME NEW x \in Mutexes, x # m PROVE Locked(t, x)' = HeldBy(t, x)'
    BY <2>1, <1>1, <1>2, <1>6, <1>8 DEF Owns
  <2> QED
    BY <1>3, <1>5, <1>8, <2>1 DEF Owns
<1> QED
  BY <1>1, <1>2, <1>3, <1>8, <1>9, OwnsStep DEF StartEnd

\* The other steps of Sync.
LEMMA OtherOwns ==
    ASSUME TInv, MutexInv, NEW t \in Threads,
           \/ AwaitDone(t) \/ CondTimeout(t) \/ CondWoken(t) \/ Happen(t) \/ Signal(t)
           \/ BarrierWait(t) \/ BarrierWoken(t) \/ RwUp(t) \/ RwDown(t)
    PROVE  MutexInv'
<1>1. TypeOK /\ Fine(t) /\ Owns(t)
  BY DEF TInv, MutexInv
<1>2. Wakes(t) /\ at[t] # "none" /\ prog' = prog
  BY SyncLinks DEF SyncStep, Wakes
<1>3. holder' = holder /\ depth' = depth
  BY DEF AwaitDone, CondTimeout, CondWoken, Happen, Signal, BarrierWait, BarrierWoken, RwUp, RwDown,
         syncVars, mutexVars
<1>4. CASE CondTimeout(t)
  <2>1. at'[t] = "cond" /\ at[t] = "cond" /\ ip'[t] = ip[t]
    BY <1>4 DEF CondTimeout
  <2> QED
    BY <1>1, <1>2, <1>3, <2>1, OwnsMove, OwnsQuiet
<1>5. CASE CondWoken(t)
  <2>1. at'[t] = "relock" /\ at[t] = "cond" /\ ip'[t] = ip[t]
    BY <1>1, <1>5 DEF CondWoken, Inside, Goto, TypeOK
  <2> QED
    BY <1>1, <1>2, <1>3, <2>1, OwnsMove, OwnsQuiet
<1>6. CASE Calls(t, {"barrier"}) /\ Goto(t, "barrier")
  <2>1. at'[t] = "barrier" /\ at[t] = "go" /\ ip'[t] = ip[t] /\ Op(t) \notin Awaits
    BY <1>1, <1>6 DEF Calls, Goto, TypeOK, Awaits
  <2> QED
    BY <1>1, <1>2, <1>3, <2>1, OwnsMove, OwnsQuiet
<1>7. CASE (Calls(t, {"read", "write"}) \/ Inside(t, "rw")) /\ Goto(t, "rw")
  <2>1. at'[t] = "rw" /\ at[t] \in {"go", "rw"} /\ ip'[t] = ip[t] /\ Op(t) \notin Awaits
    BY <1>1, <1>7 DEF Calls, Inside, Fine, PlacedAt, Goto, TypeOK, Awaits
  <2> QED
    BY <1>1, <1>2, <1>3, <2>1, OwnsMove, OwnsQuiet
<1>8. CASE /\ Calls(t, Awaits \cup {"happen", "signal", "barrier", "read", "write", "down"})
              \/ Inside(t, "barrier") \/ Inside(t, "rw")
           /\ Return(t, 1)
  <2>1. at'[t] = "go" /\ ip'[t] = ip[t] + 1
    BY <1>1, <1>8 DEF Return, TypeOK, SleepTypeOK
  <2>2. /\ at[t] \in {"go", "barrier", "rw"} /\ Op(t) \notin Locks \cup {"unlock", "end"}
        /\ Op(t) \in Awaits => at[t] = "go"
    BY <1>1, <1>8 DEF Calls, Inside, Fine, PlacedAt, Locks, Awaits
  <2> QED
    BY <1>1, <1>2, <1>3, <2>1, <2>2, OwnsNext, OwnsQuiet
<1>9. AwaitDone(t) \/ Happen(t) \/ Signal(t) =>
        Calls(t, Awaits \cup {"happen", "signal", "barrier", "read", "write", "down"}) /\ Return(t, 1)
  BY DEF AwaitDone, Happen, Signal, Calls
<1>10. RwDown(t) \/ BarrierWait(t) =>
        /\ Calls(t, Awaits \cup {"happen", "signal", "barrier", "read", "write", "down"})
        /\ Return(t, 1) \/ (Calls(t, {"barrier"}) /\ Goto(t, "barrier"))
  BY DEF RwDown, BarrierWait, Calls
<1>11. BarrierWoken(t) => Inside(t, "barrier") /\ Return(t, 1)
  BY DEF BarrierWoken, WaitCleanup
<1>12. RwUp(t) =>
        /\ Calls(t, {"read", "write"}) \/ Inside(t, "rw")
        /\ Return(t, 1) \/ Goto(t, "rw")
  BY DEF RwUp, WaitCleanup
<1>13. Calls(t, {"read", "write"}) =>
        Calls(t, Awaits \cup {"happen", "signal", "barrier", "read", "write", "down"})
  BY DEF Calls
<1> QED
  BY <1>4, <1>5, <1>6, <1>7, <1>8, <1>9, <1>10, <1>11, <1>12, <1>13

LEMMA SyncOwns ==
    ASSUME TInv, MutexInv, NEW t \in Threads, SyncStep(t)
    PROVE  MutexInv'
BY LockTryOwns, LockCheckOwns, LockWaitOwns, TryLockOwns, UnlockOwns, CondWaitOwns, OtherOwns
   DEF SyncStep

\* A thread at its end holds nothing.
LEMMA EndHolds ==
    ASSUME TInv, MutexInv, NEW t \in Threads, AtEnd(t), at[t] \notin {"none", "out"}
    PROVE  \A m \in Mutexes : holder[m] # t
<1> SUFFICES ASSUME NEW m \in Mutexes PROVE holder[m] # t
  OBVIOUS
<1>1. TypeOK /\ Op(t) = "end" /\ Op(t) \notin Awaits
  BY DEF TInv, Op, Awaits
<1>2. Good(t, prog[t]) /\ ip[t] - 1 = Len(prog[t])
  BY <1>1, ProgramIs, NextOpIs
<1>3. Balance(prog[t], ip[t] - 1, m) = 0
  BY <1>2 DEF Good, Disciplined
<1>4. HeldBy(t, m) = 0
  BY <1>1, <1>3, LockedAt DEF MutexInv, Owns
<1> QED
  BY <1>4, SyncAssumption DEF HeldBy, TInv, Counted

\* A thread that has finished holds nothing.
LEMMA FinishedHold ==
    ASSUME TInv, PInv, MutexInv, Undisturbed, NEW u \in finished
    PROVE  \A m \in Mutexes : holder[m] # u
<1>1. u \in Threads /\ u # Parent
  BY DEF TInv, TypeOK, SleepTypeOK, PInv, Outer
<1>2. CASE u # Main
  BY <1>1, <1>2 DEF Undisturbed, AtRest
<1>3. CASE u = Main
  <2>1. at[u] \in {"none", "leaving", "gone"}
    BY <1>3 DEF PInv, Outer
  <2>2. CASE at[u] = "none"
    BY <1>1, <2>2 DEF MutexInv, Owns
  <2>3. CASE at[u] \in {"leaving", "gone"}
    BY <1>1, <2>3, EndHolds DEF MutexInv, StartEnd
  <2> QED
    BY <2>1, <2>2, <2>3
<1> QED
  BY <1>2, <1>3

\* thread_delete() frees what holds nothing.
LEMMA DeleteOwns ==
    ASSUME TInv, MutexInv, NEW t \in Threads, on[t], NEW D, D \subseteq Threads,
           Fresh(D) \subseteq exited', exited \subseteq exited',
           NEW where \in Places \ {"none", "new"}, NEW n \in Nat, Delete(t, D, where, n),
           prog' = prog, holder' = holder, depth' = depth,
           \A u \in Threads \ {t} : u \in exited' => \A m \in Mutexes : holder[m] # u,
           at'[t] = where => Owns(t)', where \in {"leaving", "gone"} => AtEnd(t) /\ n = 0
    PROVE  MutexInv'
<1>1. /\ at'[t] = where /\ ip'[t] = ip[t] + n
      /\ \A u \in Threads \ {t} : at'[u] = at[u] \/ (at'[u] = "none" /\ u \in exited')
      /\ \A u \in Threads \ {t} : ip'[u] = ip[u]
  BY DeleteIs
<1>2. Owns(t)'
  BY <1>1
<1>3. StartEnd(t)'
  <2>1. ip[t] \in Nat
    BY DEF TInv, TypeOK, SleepTypeOK
  <2>2. where \in {"leaving", "gone"} => ip'[t] = ip[t]
    BY <1>1, <2>1
  <2> QED
    BY <1>1, <2>2, SameCall DEF StartEnd
<1>4. ASSUME NEW u \in Threads \ {t} PROVE Owns(u)' /\ StartEnd(u)'
  <2>1. Owns(u) /\ StartEnd(u)
    BY DEF MutexInv
  <2>2. CASE at'[u] = at[u]
    BY <1>1, <2>1, <2>2, OwnsSame
  <2>3. CASE at'[u] = "none" /\ u \in exited'
    BY <2>3 DEF Owns, StartEnd
  <2> QED
    BY <1>1, <2>2, <2>3
<1> QED
  BY <1>2, <1>3, <1>4 DEF MutexInv

LEMMA ExitOwns ==
    ASSUME TInv, PInv, MutexInv, Undisturbed, NEW t \in Threads, Exit(t), holder' = holder, depth' = depth
    PROVE  MutexInv'
<1> DEFINE D == {t} \cap detached
<1>1. TypeOK /\ Fine(t) /\ Owns(t) /\ Ended
  BY DEF TInv, MutexInv
<1>2. /\ on[t] /\ at[t] = "go" /\ Op(t) = "end" /\ Op(t) \notin Awaits /\ prog' = prog
      /\ exited' = exited \cup {t} /\ Delete(t, D, "gone", 0)
  BY DEF Exit, Calls, Awaits
<1>3. \A u \in Threads \ {t} : u \in exited' => \A m \in Mutexes : holder[m] # u
  BY <1>1, <1>2, FinishedHold DEF Ended
<1>4. D \subseteq Threads /\ Fresh(D) \subseteq exited' /\ exited \subseteq exited'
  BY <1>2 DEF Fresh
<1>5. "gone" \in Places \ {"none", "new"} /\ 0 \in Nat
  BY DEF Places
<1>6. at'[t] = "gone" => Owns(t)'
  <2>1. ip'[t] = ip[t]
    BY <1>1, <1>2 DEF Delete, TypeOK, SleepTypeOK
  <2> QED
    BY <1>1, <1>2, <2>1, OwnsMove
<1>7. AtEnd(t)
  BY <1>1, <1>2, NextOpIs
<1> HIDE DEF D
<1> QED
  BY <1>2, <1>3, <1>4, <1>5, <1>6, <1>7, DeleteOwns

\* Steps that delete threads that have exited.
LEMMA ReapOwns ==
    ASSUME TInv, PInv, MutexInv, Undisturbed, NEW t \in Threads,
           Join(t) \/ JoinWoken(t) \/ Detach(t)
             \/ (Collect(t) /\ UNCHANGED <<prog, exited>>),
           holder' = holder, depth' = depth
    PROVE  MutexInv'
<1>1. TypeOK /\ Fine(t) /\ Owns(t) /\ Ended
  BY DEF TInv, MutexInv
<1>2. prog' = prog /\ exited' = exited /\ on[t] /\ at[t] \in {"go", "join", "check"}
      /\ Op(t) \in {"join", "detach", "waitpid"} /\ Op(t) \notin Awaits \cup Locks \cup {"unlock", "end"}
  BY <1>1 DEF Join, JoinWoken, Detach, Collect, Calls, Inside, Fine, PlacedAt, Awaits, Locks
<1>3. \A u \in Threads \ {t} : u \in exited' => \A m \in Mutexes : holder[m] # u
  BY <1>1, <1>2, FinishedHold DEF Ended
<1>4. Arg(t) \in Threads
  BY <1>1, <1>2, AtCall, ThreadAssumption
<1>5. ASSUME NEW D, D \subseteq Threads, Fresh(D) \subseteq exited, Delete(t, D, "go", 1)
      PROVE  MutexInv'
  <2>1. "go" \in Places \ {"none", "new"} /\ 1 \in Nat
    BY DEF Places
  <2>2. at'[t] = "go" => Owns(t)'
    <3>1. ip'[t] = ip[t] + 1
      BY <1>1, <1>5 DEF Delete, TypeOK, SleepTypeOK
    <3> QED
      BY <1>1, <1>2, <3>1, OwnsNext
  <2> QED
    BY <1>2, <1>3, <1>5, <2>1, <2>2, DeleteOwns
<1>6. ASSUME NEW D, D \subseteq Threads, Fresh(D) \subseteq exited, Delete(t, D, "out", 0),
             at[t] = "check", Op(t) = "waitpid"
      PROVE  MutexInv'
  <2>1. "out" \in Places \ {"none", "new"} /\ 0 \in Nat
    BY DEF Places
  <2>2. at'[t] = "out" => Owns(t)'
    <3>1. ip'[t] = ip[t]
      BY <1>1, <1>6 DEF Delete, TypeOK, SleepTypeOK
    <3>2. ASSUME NEW m \in Mutexes, at'[t] = "out" PROVE Locked(t, m)' = Locked(t, m)
      <4>1. Locked(t, m) = Balance(prog[t], ip[t] - 1, m)
        BY <1>1, <1>2, <1>6, LockedAt
      <4>2. Locked(t, m)' = Balance(prog[t], ip[t] - 1, m)
        BY <1>1, <1>2, <1>6, <3>1, <3>2, LockedThen
      <4> QED
        BY <4>1, <4>2
    <3> QED
      BY <1>1, <1>6, <3>2 DEF Owns, HeldBy
  <2> QED
    BY <1>2, <1>3, <1>6, <2>1, <2>2, DeleteOwns
<1>7. CASE Join(t) \/ JoinWoken(t)
  <2>1. Delete(t, {Arg(t)}, "go", 1) /\ (InPool(Arg(t)) \/ Arg(t) \in exited)
    BY <1>7 DEF Join, JoinWoken
  <2>2. Fresh({Arg(t)}) \subseteq exited
    BY <2>1 DEF Fresh
  <2> QED
    BY <1>4, <1>5, <2>1, <2>2
<1>8. CASE Detach(t)
  <2>1. Delete(t, DetachDeletes(Arg(t)), "go", 1)
    BY <1>8 DEF Detach
  <2>2. Fresh(DetachDeletes(Arg(t))) \subseteq exited /\ DetachDeletes(Arg(t)) \subseteq Threads
    BY <1>4 DEF Fresh, DetachDeletes
  <2> QED
    BY <1>5, <2>1, <2>2
<1>9. CASE Collect(t)
  <2>1. status /\ {Main} \subseteq Threads /\ Fresh({Main}) \subseteq exited
    BY <1>1, <1>9, ThreadAssumption DEF Collect, Fresh, Ended
  <2>2. CASE Delete(t, {Main}, "go", 1)
    BY <1>5, <2>1, <2>2
  <2>3. CASE Delete(t, {Main}, "out", 0) /\ Inside(t, "check") /\ Op(t) = "waitpid"
    BY <1>6, <2>1, <2>3 DEF Inside
  <2> QED
    BY <1>9, <2>2, <2>3 DEF Collect
<1> QED
  BY <1>7, <1>8, <1>9

LEMMA TaskExitOwns ==
    ASSUME TInv, PInv, MutexInv, Undisturbed, TaskExit, holder' = holder, depth' = depth
    PROVE  MutexInv'
<1> DEFINE D == {u \in Threads \ {Main, Parent} : ~InPool(u) /\ u \notin deleted}
<1>1. TypeOK /\ Owns(Main) /\ Ended /\ Main \in Threads /\ Parent \notin finished
  BY ThreadAssumption DEF TInv, MutexInv, PInv, Outer
<1>2. /\ on[Main] /\ at[Main] = "go" /\ Op(Main) = "end" /\ Op(Main) \notin Awaits /\ prog' = prog
      /\ exited' = exited \cup D \cup {Main} /\ Delete(Main, D, "leaving", 0)
      /\ Calls(Main, {"end"})
  BY DEF TaskExit, Calls, Awaits
<1>3. ASSUME NEW u \in Threads \ {Main}, u \in exited' PROVE \A m \in Mutexes : holder[m] # u
  <2>1. u # Parent
    BY <1>1, <1>2, <1>3 DEF Ended
  <2> QED
    BY <1>2, <2>1 DEF Undisturbed, AtRest
<1>4. D \subseteq Threads /\ Fresh(D) \subseteq exited' /\ exited \subseteq exited'
  BY <1>2 DEF Fresh
<1>5. "leaving" \in Places \ {"none", "new"} /\ 0 \in Nat
  BY DEF Places
<1>6. at'[Main] = "leaving" => Owns(Main)'
  <2>1. ip'[Main] = ip[Main]
    BY <1>1, <1>2 DEF Delete, TypeOK, SleepTypeOK
  <2> QED
    BY <1>1, <1>2, <2>1, OwnsMove
<1>7. AtEnd(Main)
  BY <1>1, <1>2, NextOpIs
<1> HIDE DEF D
<1> QED
  BY <1>1, <1>2, <1>3, <1>4, <1>5, <1>6, <1>7, DeleteOwns

\* A thread that is created begins with nothing.
LEMMA CreateOwns ==
    ASSUME TInv, MutexInv, NEW t \in Threads, Create(t) \/ NewTask(t), holder' = holder, depth' = depth
    PROVE  MutexInv'
<1>0. PICK u : u = Arg(t)
  OBVIOUS
<1>1. TypeOK /\ Owns(t) /\ prog' = prog
  BY DEF TInv, MutexInv, Create, NewTask
<1>2. /\ at[t] = "go" /\ Op(t) \in {"create", "new_task"}
      /\ Op(t) \notin Awaits \cup Locks \cup {"unlock", "end"} /\ at[u] = "none" /\ Initialised(t, u)
  BY <1>0 DEF Create, NewTask, Calls, InPool, Awaits, Locks
<1>3. u \in Threads /\ u # t
  BY <1>0, <1>1, <1>2, AtCall, ThreadAssumption
<1>4. /\ at' = [at EXCEPT ![u] = "new"] /\ ip'[u] = 1 /\ ip'[t] = ip[t] + 1
      /\ \A v \in Threads \ {t, u} : ip'[v] = ip[v]
  BY <1>1, <1>2, <1>3 DEF Initialised, TypeOK, SleepTypeOK
<1>5. Owns(t)'
  <2>1. at'[t] = "go"
    BY <1>1, <1>2, <1>3, <1>4 DEF TypeOK
  <2> QED
    BY <1>1, <1>2, <1>4, <2>1, OwnsNext
<1>6. Owns(u)'
  <2>1. at'[u] = "new"
    BY <1>1, <1>3, <1>4 DEF TypeOK
  <2>2. ASSUME NEW m \in Mutexes PROVE Locked(u, m)' = HeldBy(u, m)'
    <3>1. HeldBy(u, m)' = 0
      BY <1>2, <1>3 DEF MutexInv, Owns, HeldBy
    <3>2. Good(u, prog[u]) /\ Len(prog[u]) \in Nat
      BY <1>1, <1>3, ProgramIs
    <3>3. PICK i \in 1..(Len(prog[u]) + 1) : i = 1 /\ i - 1 = 0
      BY <3>2
    <3>4. Balance(prog[u], i - 1, m) = 0
      BY <3>3, BalanceZero
    <3>5. Owed(prog[u], i, "new", m) = 0
      <4>1. /\ NextOp(prog[u], i) \in Awaits /\ Guards[prog[u][i].arg] = m => Balance(prog[u], i - 1, m) = 1
            /\ NextOp(prog[u], i) \in Awaits /\ Guards[prog[u][i].arg] # m =>
                 Owed(prog[u], i, "new", m) = Balance(prog[u], i - 1, m)
            /\ NextOp(prog[u], i) \notin Awaits => Owed(prog[u], i, "new", m) = Balance(prog[u], i - 1, m)
        BY <1>3, <3>2, OwedIs
      <4> QED
        BY <3>4, <4>1
    <3> QED
      BY <1>1, <1>4, <2>1, <3>1, <3>3, <3>5, LockedIs
  <2> QED
    BY <2>1, <2>2 DEF Owns
<1>7. StartEnd(t)' /\ StartEnd(u)'
  BY <1>1, <1>2, <1>3, <1>4 DEF StartEnd, TypeOK
<1>8. ASSUME NEW v \in Threads \ {t, u} PROVE Owns(v)' /\ StartEnd(v)'
  <2>1. at'[v] = at[v] /\ ip'[v] = ip[v]
    BY <1>1, <1>4 DEF TypeOK
  <2> QED
    BY <1>1, <2>1, OwnsSame DEF MutexInv
<1> QED
  BY <1>5, <1>6, <1>7, <1>8 DEF MutexInv

\* The other steps of threads.
LEMMA LifeOwns ==
    ASSUME TInv, MutexInv, NEW t \in Threads,
           CreateFails(t) \/ Launch(t) \/ Begin(t) \/ JoinWait(t) \/ (t = Main /\ TaskLeave)
             \/ (WaitPid(t) /\ ~(Collect(t) /\ UNCHANGED <<prog, finished, queue, exited, detached>>)),
           holder' = holder, depth' = depth
    PROVE  MutexInv'
<1>1. TypeOK /\ Fine(t) /\ Owns(t) /\ StartEnd(t)
  BY DEF TInv, MutexInv
<1>2. /\ at[t] # "none" /\ prog' = prog
      /\ \A u \in Threads \ {t} : ip'[u] = ip[u] /\ at'[u] = at[u]
  <2>1. CASE JoinWait(t)
    BY <1>1, <2>1 DEF JoinWait, Goto, Calls, TypeOK
  <2>2. CASE ~JoinWait(t)
    BY <2>2, OtherLinks DEF Wakes
  <2> QED
    BY <2>1, <2>2
<1>3. SUFFICES Owns(t)' /\ StartEnd(t)'
  BY <1>1, <1>2, OwnsStep
<1>4. CASE CreateFails(t)
  <2>1. /\ at[t] = "go" /\ at'[t] = "go" /\ ip'[t] = ip[t] + (Len(prog[t]) + 1 - ip[t])
        /\ Op(t) \in {"create", "new_task"} /\ Op(t) # "end"
    BY <1>1, <1>4 DEF CreateFails, Calls, Return, TypeOK, SleepTypeOK
  <2>2. /\ Good(t, prog[t]) /\ ip[t] \in 1..Len(prog[t]) /\ prog[t][ip[t]].op = Op(t)
        /\ ip'[t] = Len(prog[t]) + 1 /\ Len(prog[t]) \in Nat /\ ip'[t] \in 1..(Len(prog[t]) + 1)
        /\ ip'[t] - 1 = Len(prog[t])
    <3>1. /\ Good(t, prog[t]) /\ ip[t] \in 1..Len(prog[t]) /\ prog[t][ip[t]].op = Op(t)
          /\ Len(prog[t]) \in Nat
      BY <1>1, <2>1, ProgramIs, NextOpIs
    <3>2. ip'[t] = Len(prog[t]) + 1
      BY <2>1, <3>1
    <3> QED
      BY <3>1, <3>2
  <2>3. ASSUME NEW m \in Mutexes PROVE Locked(t, m)' = Locked(t, m)
    <3>1. Balance(prog[t], ip[t] - 1, m) = 0 /\ Balance(prog[t], Len(prog[t]), m) = 0
      BY <2>1, <2>2, BalanceOn
    <3>2. Locked(t, m) = Balance(prog[t], ip[t] - 1, m)
      BY <1>1, <2>1, LockedAt
    <3>3. Locked(t, m)' = Balance(prog[t], ip'[t] - 1, m)
      BY <1>1, <1>2, <2>1, <2>2, LockedThen
    <3> QED
      BY <2>2, <3>1, <3>2, <3>3
  <2> QED
    BY <1>1, <2>1, <2>3 DEF Owns, HeldBy, StartEnd
<1>5. CASE Launch(t)
  <2>1. /\ at[t] = "go" /\ at'[t] = "go" /\ ip'[t] = ip[t] + 1 /\ Op(t) = "launch"
        /\ Op(t) \notin Locks \cup {"unlock", "end"} \cup Awaits
    BY <1>1, <1>5 DEF Launch, Calls, Return, TypeOK, SleepTypeOK, Locks, Awaits
  <2> QED
    BY <1>1, <1>2, <2>1, OwnsNext DEF StartEnd
<1>6. CASE Begin(t)
  <2>1. at[t] = "new" /\ at'[t] = "go" /\ ip'[t] = ip[t] /\ ip[t] = 1
    BY <1>1, <1>6 DEF Begin, Inside, Goto, TypeOK, StartEnd
  <2>2. Op(t) \notin Awaits
    <3>1. SUFFICES ASSUME Op(t) \in Awaits PROVE FALSE
      OBVIOUS
    <3>2. Wanted(t) \in Mutexes
      BY <1>1, <3>1, AtCall
    <3>3. Balance(prog[t], ip[t] - 1, Wanted(t)) = 1
      BY <1>1, <3>1, <3>2, LockedAt
    <3>4. Balance(prog[t], 0, Wanted(t)) = 0 /\ ip[t] - 1 = 0
      BY <2>1, BalanceZero
    <3> QED
      BY <3>3, <3>4
  <2> QED
    BY <1>1, <1>2, <2>1, <2>2, OwnsMove DEF StartEnd
<1>7. CASE JoinWait(t)
  <2>1. at[t] = "go" /\ at'[t] = "join" /\ ip'[t] = ip[t] /\ Op(t) \notin Awaits
    BY <1>1, <1>7 DEF JoinWait, Calls, Goto, TypeOK, Awaits
  <2> QED
    BY <1>1, <1>2, <2>1, OwnsMove DEF StartEnd
<1>8. CASE t = Main /\ TaskLeave
  <2>1. at[t] = "leaving" /\ at'[t] = "gone" /\ ip'[t] = ip[t] /\ AtEnd(t)
    BY <1>1, <1>8 DEF TaskLeave, Inside, Goto, TypeOK, StartEnd
  <2>2. Owns(t)'
    BY <1>1, <1>2, <2>1, OwnsMove
  <2> QED
    BY <1>2, <2>1, <2>2, SameCall DEF StartEnd
<1>9. CASE /\ Op(t) = "waitpid"
           /\ \/ Calls(t, {"waitpid"}) /\ Goto(t, "add")
              \/ Inside(t, "check") /\ Goto(t, "sleep")
              \/ WaitLoop(t, Children)
              \/ Inside(t, "out") /\ WaitCleanup(t, Children, 1)
  <2>1. Op(t) \notin Awaits \cup Locks \cup {"unlock", "end"}
    BY <1>9 DEF Awaits, Locks
  <2>2. CASE Inside(t, "out") /\ WaitCleanup(t, Children, 1)
    <3>1. at[t] = "out" /\ at'[t] = "go" /\ ip'[t] = ip[t] + 1
      BY <1>1, <2>2 DEF Inside, WaitCleanup, Return, TypeOK, SleepTypeOK
    <3> QED
      BY <1>1, <1>2, <1>9, <2>1, <3>1, OwnsNext DEF StartEnd
  <2>3. CASE \/ Calls(t, {"waitpid"}) /\ Goto(t, "add")
             \/ Inside(t, "check") /\ Goto(t, "sleep")
             \/ WaitLoop(t, Children)
    <3>1. /\ at[t] # "out" /\ at'[t] \notin {"out", "none", "new", "leaving", "gone"} /\ ip'[t] = ip[t]
      <4>1. CASE WaitLoop(t, Children)
        BY <1>1, <4>1, LoopPlaces DEF Locking
      <4>2. CASE ~WaitLoop(t, Children)
        BY <1>1, <2>3, <4>2 DEF Calls, Inside, Goto, TypeOK
      <4> QED
        BY <4>1, <4>2
    <3> QED
      BY <1>1, <1>2, <2>1, <3>1, OwnsMove DEF StartEnd
  <2> QED
    BY <1>9, <2>2, <2>3
<1>10. WaitPid(t) /\ ~(Collect(t) /\ UNCHANGED <<prog, finished, queue, exited, detached>>) =>
        /\ Op(t) = "waitpid"
        /\ \/ Calls(t, {"waitpid"}) /\ Goto(t, "add")
           \/ Inside(t, "check") /\ Goto(t, "sleep")
           \/ WaitLoop(t, Children)
           \/ Inside(t, "out") /\ WaitCleanup(t, Children, 1)
  BY DEF WaitPid
<1> QED
  BY <1>4, <1>5, <1>6, <1>7, <1>8, <1>9, <1>10

LEMMA NextOwns ==
    ASSUME TInv, PInv, MutexInv, Undisturbed, [Next]_vars
    PROVE  MutexInv'
<1>1. ASSUME NEW t \in Threads, Step(t) PROVE MutexInv'
  <2>1. CASE SyncStep(t)
    BY <2>1, SyncOwns
  <2>2. CASE ThreadStep(t) /\ holder' = holder /\ depth' = depth
    <3>1. CASE Create(t) \/ NewTask(t)
      BY <2>2, <3>1, CreateOwns
    <3>2. CASE Exit(t)
      BY <2>2, <3>2, ExitOwns
    <3>3. CASE Join(t) \/ JoinWoken(t) \/ Detach(t)
      BY <2>2, <3>3, ReapOwns
    <3>4. CASE WaitPid(t)
      BY <2>2, <3>4, ReapOwns, LifeOwns
    <3>5. CASE t = Main /\ TaskExit
      BY <2>2, <3>5, TaskExitOwns
    <3>6. CASE CreateFails(t) \/ Launch(t) \/ Begin(t) \/ JoinWait(t) \/ (t = Main /\ TaskLeave)
      BY <2>2, <3>6, LifeOwns
    <3> QED
      BY <2>2, <3>1, <3>2, <3>3, <3>4, <3>5, <3>6 DEF ThreadStep
  <2> QED
    BY <1>1, <2>1, <2>2 DEF Step
<1>2. ASSUME UNCHANGED vars PROVE MutexInv'
  <2>1. prog' = prog /\ ip' = ip /\ at' = at /\ holder' = holder /\ depth' = depth
    BY <1>2 DEF vars, sleepVars, syncVars, mutexVars
  <2>2. \A u \in Threads : Owns(u)' /\ StartEnd(u)'
    BY <2>1, OwnsSame DEF MutexInv
  <2> QED
    BY <2>1, <2>2 DEF MutexInv
<1> QED
  BY <1>1, <1>2 DEF Next, Over

LEMMA InitOwns == Init => MutexInv
<1> SUFFICES ASSUME Init PROVE MutexInv
  OBVIOUS
<1>1. TypeOK
  BY InitHolds DEF TInv
<1>2. /\ holder = [m \in Mutexes |-> None] /\ depth = [m \in Mutexes |-> 0]
      /\ ip = [t \in Threads |-> 1] /\ at = [t \in Threads |-> IF t = Parent THEN "go" ELSE "none"]
  BY DEF Init
<1>3. ASSUME NEW t \in Threads PROVE Owns(t) /\ StartEnd(t)
  <2>1. StartEnd(t)
    BY <1>2 DEF StartEnd
  <2>2. \A m \in Mutexes : holder[m] # t
    BY <1>2, SyncAssumption
  <2>3. ASSUME NEW m \in Mutexes, at[t] # "none" PROVE Locked(t, m) = HeldBy(t, m)
    <3>1. at[t] = "go" /\ ip[t] - 1 = 0
      BY <1>2, <2>3
    <3>2. Locked(t, m) = Balance(prog[t], ip[t] - 1, m)
      BY <1>1, <3>1, LockedAt
    <3>3. Balance(prog[t], 0, m) = 0
      BY BalanceZero
    <3> QED
      BY <2>2, <3>1, <3>2, <3>3 DEF HeldBy
  <2> QED
    BY <2>1, <2>2, <2>3 DEF Owns
<1> QED
  BY <1>2, <1>3 DEF MutexInv

\* A mutex is held as often as its holder has locked it.
LEMMA MutexesInv == Spec /\ []Undisturbed => []MutexInv
<1>1. Init => MutexInv
  BY InitOwns
<1>2. TInv /\ PInv /\ MutexInv /\ Undisturbed /\ [Next]_vars => MutexInv'
  BY NextOwns
<1> QED
  BY <1>1, <1>2, ThreadsInv, PoolInv, PTL DEF Spec

-----------------------------------------------------------------------------
(* Read-write locks are counted as the calls say.                            *)

\* A read-write lock is given back by the call after the one that takes it.
LEMMA AfterUp ==
    ASSUME NEW t \in Threads, NEW s, Good(t, s), NEW i \in 1..(Len(s) + 1)
    PROVE  /\ NextOp(s, i) = "down" =>
                /\ i \in 1..Len(s) /\ i - 1 \in 1..Len(s)
                /\ s[i - 1].op \in {"read", "write"} /\ s[i - 1].arg = s[i].arg
           /\ i > 1 /\ s[i - 1].op \in {"read", "write"} =>
                /\ i \in 1..Len(s)
                /\ NextOp(s, i) = "down" /\ s[i].op = "down" /\ s[i].arg = s[i - 1].arg
<1>1. Len(s) \in Nat /\ DOMAIN s = 1..Len(s)
  BY DEF Good
<1>2. ASSUME NextOp(s, i) = "down"
      PROVE  /\ i \in 1..Len(s) /\ i - 1 \in 1..Len(s)
             /\ s[i - 1].op \in {"read", "write"} /\ s[i - 1].arg = s[i].arg
  <2>1. i \in DOMAIN s /\ s[i].op = "down"
    BY <1>1, <1>2 DEF NextOp
  <2> QED
    BY <1>1, <2>1 DEF Good, Pairs
<1>3. ASSUME i > 1, s[i - 1].op \in {"read", "write"}
      PROVE  /\ i \in 1..Len(s)
             /\ NextOp(s, i) = "down" /\ s[i].op = "down" /\ s[i].arg = s[i - 1].arg
  <2>1. i - 1 \in DOMAIN s /\ (i - 1) + 1 = i
    BY <1>1, <1>3
  <2>2. i \in DOMAIN s /\ s[i] = [op |-> "down", arg |-> s[i - 1].arg]
    BY <1>3, <2>1 DEF Good, Pairs
  <2> QED
    BY <1>1, <2>2 DEF NextOp
<1> QED
  BY <1>2, <1>3

\* A thread that is not inside, and does not enter.
LEMMA NotDown ==
    ASSUME TypeOK, NEW t \in Threads, prog' = prog, Advances(t), Op(t) # "down"
    PROVE  Op(t)' # "down"
<1>1. /\ Good(t, prog[t]) /\ ip[t] \in 1..(Len(prog[t]) + 1) /\ Len(prog[t]) \in Nat
      /\ ip'[t] \in 1..(Len(prog[t]) + 1)
  BY ProgramIs, AdvanceIs
<1>2. PICK s, i : s = prog[t] /\ i = ip'[t]
  OBVIOUS
<1>3. Op(t)' = NextOp(s, i)
  BY <1>2 DEF Op, NextOp, AtEnd
<1>4. Good(t, s) /\ i \in 1..(Len(s) + 1)
  BY <1>1, <1>2
<1>5. NextOp(s, i) = "down" => i \in 1..Len(s) /\ i - 1 \in 1..Len(s) /\ s[i - 1].op \in {"read", "write"}
  BY <1>4, AfterUp
<1>6. CASE ip'[t] = ip[t]
  BY <1>6, SameCall
<1>7. CASE ip'[t] = 1
  BY <1>2, <1>3, <1>5, <1>7
<1>8. CASE ip'[t] = ip[t] + 1 /\ Op(t) \notin {"read", "write", "end"}
  <2>1. prog[t][ip[t]].op = Op(t) /\ i - 1 = ip[t]
    BY <1>1, <1>2, <1>8, NextOpIs
  <2> QED
    BY <1>2, <1>3, <1>5, <1>8, <2>1
<1>9. CASE ip'[t] = ip[t] + 2 /\ Op(t) # "end" /\ MayFail(prog[t][ip[t]])
  <2>1. prog[t][ip[t] + 1].op \notin {"read", "write"} /\ i - 1 = ip[t] + 1
    BY <1>1, <1>2, <1>9, SkipIs
  <2> QED
    BY <1>2, <1>3, <1>5, <2>1
<1>10. CASE ip'[t] = Len(prog[t]) + 1
  BY <1>1, <1>2, <1>3, <1>5, <1>10
<1> QED
  BY <1>6, <1>7, <1>8, <1>9, <1>10 DEF Advances

\* Nobody enters or leaves.
LEMMA RwSame ==
    ASSUME RwInv, prog' = prog, rwCount' = rwCount, rwStatus' = rwStatus,
           \A u \in Threads : u \in Live /\ Op(u) = "down" => u \in Live' /\ ip'[u] = ip[u],
           \A u \in Threads : u \in Live' /\ Op(u)' = "down" => u \in Live /\ ip'[u] = ip[u]
    PROVE  RwInv'
<1>1. Live \subseteq Threads /\ Live' \subseteq Threads
  BY DEF Live
<1>2. ASSUME NEW k PROVE InRw(k)' = InRw(k) /\ \A u \in InRw(k) : ip'[u] = ip[u] /\ u \in Threads
  <2>1. ASSUME NEW u \in InRw(k) PROVE u \in InRw(k)' /\ ip'[u] = ip[u] /\ u \in Threads
    <3>1. u \in Live /\ u \in Threads /\ Op(u) = "down" /\ Arg(u) = k
      BY <1>1 DEF InRw
    <3>2. ip'[u] = ip[u] /\ u \in Live'
      BY <3>1
    <3> QED
      BY <3>1, <3>2, SameCall DEF InRw
  <2>2. ASSUME NEW u \in InRw(k)' PROVE u \in InRw(k)
    <3>1. u \in Live' /\ u \in Threads /\ Op(u)' = "down" /\ Arg(u)' = k
      BY <1>1 DEF InRw
    <3>2. ip'[u] = ip[u] /\ u \in Live
      BY <3>1
    <3> QED
      BY <3>1, <3>2, SameCall DEF InRw
  <2> QED
    BY <2>1, <2>2
<1>3. ASSUME NEW k \in RwLocks
      PROVE  /\ rwCount'[k] = Cardinality(InRw(k)')
             /\ rwStatus'[k] = "none" => rwCount'[k] = 0
             /\ rwStatus'[k] = "writing" => rwCount'[k] = 1
             /\ rwStatus'[k] = "reading" => \A u \in InRw(k)' : prog'[u][ip'[u] - 1].op = "read"
  BY <1>2 DEF RwInv
<1> QED
  BY <1>3 DEF RwInv

LEMMA RwWakes ==
    ASSUME TypeOK, RwInv, NEW t \in Threads, Wakes(t), UNCHANGED rwVars, Op(t) # "down", Advances(t)
    PROVE  RwInv'
<1>1. /\ prog' = prog /\ finished' = finished
      /\ \A u \in Threads \ {t} : ip'[u] = ip[u] /\ at'[u] = at[u]
  BY DEF Wakes
<1>2. Op(t)' # "down"
  BY <1>1, NotDown
<1>3. \A u \in Threads \ {t} : (u \in Live' <=> u \in Live)
  BY <1>1 DEF Live
<1>4. rwCount' = rwCount /\ rwStatus' = rwStatus
  BY DEF rwVars
<1> QED
  BY <1>1, <1>2, <1>3, <1>4, RwSame

\* The calls of Sync but for those of read-write locks.
LEMMA SyncAdvances ==
    ASSUME TInv, NEW t \in Threads, SyncStep(t), ~RwDown(t), rwVars' = rwVars
    PROVE  Op(t) # "down" /\ Advances(t)
<1>1. TypeOK /\ Fine(t)
  BY DEF TInv
<1>2. CASE LockTry(t)
  <2>1. Op(t) \in {"lock", "timedlock"} \cup Awaits
    BY <1>1, <1>2 DEF LockTry, Calls, Inside, Fine, PlacedAt
  <2>2. Op(t) \notin {"down", "read", "write", "end"}
    BY <2>1 DEF Awaits
  <2>3. CASE Return(t, After(t))
    <3>1. PICK n \in {0, 1} : Return(t, n)
      BY <2>3 DEF After
    <3> QED
      BY <1>1, <2>2, <3>1, ReturnIs
  <2>4. CASE Deadlk(t, Wanted(t)) /\ Return(t, 2)
    <3>1. Op(t) \notin Awaits
      BY <1>1, <1>2, <2>4 DEF LockTry, Calls, Inside, Fine, PlacedAt, GivenBack, Deadlk, Wanted, Awaits
    <3>2. MayFail(prog[t][ip[t]])
      BY <1>1, <2>1, <2>2, <2>4, <3>1, NextOpIs DEF MayFail, Deadlk, Wanted
    <3> QED
      BY <1>1, <2>2, <2>4, <3>2, ReturnIs
  <2>5. CASE Goto(t, "add")
    BY <1>1, <2>2, <2>5, GotoIs
  <2> QED
    BY <1>2, <2>3, <2>4, <2>5 DEF LockTry, Skip
<1>3. CASE LockCheck(t)
  <2>1. Op(t) # "down" /\ (Goto(t, "out") \/ Goto(t, "sleep"))
    BY <1>3 DEF LockCheck, Awaits
  <2> QED
    BY <1>1, <2>1, GotoIs
<1>4. CASE LockWait(t)
  <2>1. Op(t) \in {"lock", "timedlock"} \cup Awaits
    BY <1>4 DEF LockWait
  <2>2. Op(t) \notin {"down", "read", "write", "end"}
    BY <2>1 DEF Awaits
  <2>3. CASE WaitLoop(t, Wanted(t)) \/ WaitTimeout(t)
    BY <1>1, <2>2, <2>3, LoopPlaces DEF Advances
  <2>4. CASE Inside(t, "out") /\ WaitCleanup(t, Wanted(t), After(t))
    <3>1. PICK n \in {0, 1} : Return(t, n)
      BY <2>4 DEF After, WaitCleanup
    <3> QED
      BY <1>1, <2>2, <3>1, ReturnIs
  <2>5. CASE Inside(t, "fail") /\ WaitCleanup(t, Wanted(t), Skip)
    <3>1. Op(t) = "timedlock" /\ Return(t, 2)
      BY <1>1, <2>5 DEF Inside, Fine, PlacedAt, WaitCleanup, Skip
    <3>2. MayFail(prog[t][ip[t]])
      BY <1>1, <3>1, NextOpIs DEF MayFail
    <3> QED
      BY <1>1, <2>2, <3>1, <3>2, ReturnIs
  <2> QED
    BY <1>4, <2>3, <2>4, <2>5 DEF LockWait
<1>5. CASE TryLock(t)
  <2>1. Op(t) = "trylock" /\ (Return(t, 1) \/ Return(t, 2))
    BY <1>5 DEF TryLock, Calls, Skip
  <2>2. MayFail(prog[t][ip[t]])
    BY <1>1, <2>1, NextOpIs DEF MayFail
  <2> QED
    BY <1>1, <2>1, <2>2, ReturnIs
<1>6. CASE Unlock(t) \/ AwaitDone(t) \/ Happen(t) \/ Signal(t)
  <2>1. Op(t) \in {"unlock", "happen", "signal"} \cup Awaits /\ Return(t, 1)
    BY <1>6 DEF Unlock, AwaitDone, Happen, Signal, Calls
  <2>2. Op(t) \notin {"down", "read", "write", "end"}
    BY <2>1 DEF Awaits
  <2> QED
    BY <1>1, <2>1, <2>2, ReturnIs
<1>7. CASE CondWait(t) \/ CondTimeout(t) \/ CondWoken(t)
  <2>1. Op(t) \in Awaits
    BY <1>1, <1>7 DEF CondWait, CondTimeout, CondWoken, Calls, Inside, Fine, PlacedAt
  <2>2. ip' = ip
    BY <1>7 DEF CondWait, CondTimeout, CondWoken, CondPrepare, Goto
  <2> QED
    BY <2>1, <2>2 DEF Awaits, Advances
<1>8. CASE BarrierWait(t) \/ BarrierWoken(t)
  <2>1. Op(t) = "barrier" /\ (Return(t, 1) \/ Goto(t, "barrier"))
    BY <1>1, <1>8 DEF BarrierWait, BarrierWoken, WaitCleanup, Calls, Inside, Fine, PlacedAt
  <2> QED
    BY <1>1, <2>1, ReturnIs, GotoIs
<1>9. CASE RwUp(t)
  <2>1. Op(t) \in {"read", "write"}
    BY <1>1, <1>9 DEF RwUp, Calls, Inside, Fine, PlacedAt
  <2>2. Arg(t) \in RwLocks
    BY <1>1, <2>1, AtCall
  <2>3. ~(rwCount' = [rwCount EXCEPT ![Arg(t)] = @ + 1])
    <3>1. rwCount' = rwCount /\ rwCount[Arg(t)] \in Nat
      BY <1>1, <2>2 DEF rwVars, TypeOK
    <3> QED
      BY <1>1, <2>2, <3>1 DEF TypeOK
  <2>4. Goto(t, "rw")
    BY <1>9, <2>3 DEF RwUp
  <2> QED
    BY <1>1, <2>1, <2>4, GotoIs
<1> QED
  BY <1>2, <1>3, <1>4, <1>5, <1>6, <1>7, <1>8, <1>9 DEF SyncStep

LEMMA InRwIs ==
    ASSUME NEW k
    PROVE  /\ IsFiniteSet(InRw(k)) /\ Cardinality(InRw(k)) \in Nat /\ InRw(k) \subseteq Threads
           /\ InRw(k)' \subseteq Threads
<1>1. InRw(k) \subseteq Threads /\ InRw(k)' \subseteq Threads
  BY DEF InRw, Live
<1> QED
  BY <1>1, ProgramAssumption, FS_Subset, FS_CardinalityType

\* The other threads stay inside, or outside.
LEMMA RwOthers ==
    ASSUME NEW t \in Threads, Wakes(t), NEW u \in Threads \ {t}, NEW k
    PROVE  (u \in InRw(k)' <=> u \in InRw(k)) /\ ip'[u] = ip[u]
<1>1. prog' = prog /\ finished' = finished /\ ip'[u] = ip[u] /\ at'[u] = at[u]
  BY DEF Wakes
<1>2. Op(u)' = Op(u) /\ Arg(u)' = Arg(u)
  BY <1>1, SameCall
<1> QED
  BY <1>1, <1>2 DEF InRw, Live

LEMMA RwElsewhere ==
    ASSUME NEW t \in Threads, Wakes(t), NEW k, t \notin InRw(k), t \notin InRw(k)'
    PROVE  InRw(k)' = InRw(k) /\ \A u \in InRw(k) : ip'[u] = ip[u]
BY InRwIs, RwOthers

\* A reader or a writer gets in: it has not been terminated.
LEMMA RwEnters ==
    ASSUME TInv, PInv, RwInv, NEW t \in Threads, Wakes(t), Undisturbed',
           on[t] /\ at[t] \in {"go", "rw"}, Op(t) \in {"read", "write"},
           NEW k \in RwLocks, k = Arg(t), MayEnter(t, k),
           rwStatus' = [rwStatus EXCEPT ![k] = Mode(t)],
           rwCount' = [rwCount EXCEPT ![k] = @ + 1], Return(t, 1)
    PROVE  RwInv'
<1>1. TypeOK /\ prog' = prog /\ finished' = finished
  BY DEF TInv, Wakes
<1>2. /\ Good(t, prog[t]) /\ ip[t] \in 1..Len(prog[t]) /\ prog[t][ip[t]].op = Op(t)
      /\ prog[t][ip[t]].arg = k /\ Len(prog[t]) \in Nat
  BY <1>1, ProgramIs, NextOpIs
<1>3. at'[t] = "go" /\ ip'[t] = ip[t] + 1
  BY <1>1 DEF Return, TypeOK, SleepTypeOK
<1>4. PICK i \in 1..(Len(prog[t]) + 1) : i = ip[t] + 1 /\ i - 1 = ip[t] /\ i > 1
  BY <1>2
<1>5. NextOp(prog[t], i) = "down" /\ prog[t][i].arg = k
  BY <1>2, <1>4, AfterUp
<1>6. Op(t)' = "down" /\ Arg(t)' = k
  BY <1>1, <1>3, <1>4, <1>5 DEF Op, Arg, AtEnd, NextOp
<1>7. t \notin finished
  <2>1. CASE t \in {Main, Parent}
    BY <2>1 DEF PInv, Outer
  <2>2. CASE t \notin {Main, Parent}
    BY <1>1, <1>6, <2>2 DEF Undisturbed, AtRest
  <2> QED
    BY <2>1, <2>2
<1>8. t \in InRw(k)' /\ \A x : t \in InRw(x)' => x = k
  BY <1>1, <1>3, <1>6, <1>7 DEF InRw, Live
<1>9. \A x : t \notin InRw(x)
  BY DEF InRw
<1>10. PICK A, B : A = InRw(k) /\ B = InRw(k)'
  OBVIOUS
<1>11. A \subseteq Threads /\ B \subseteq Threads /\ IsFiniteSet(A) /\ Cardinality(A) \in Nat
  BY <1>10, InRwIs
<1>12. B = A \cup {t} /\ t \notin A
  <2>1. \A u \in Threads \ {t} : u \in B <=> u \in A
    BY <1>10, RwOthers
  <2> QED
    BY <1>8, <1>9, <1>10, <1>11, <2>1
<1>13. Cardinality(B) = Cardinality(A) + 1
  BY <1>11, <1>12, FS_AddElement
<1>14. rwCount[k] = Cardinality(A) /\ rwCount'[k] = Cardinality(B)
  BY <1>1, <1>10, <1>13 DEF RwInv, TypeOK
<1>15. rwStatus'[k] = Mode(t) /\ Mode(t) \in {"reading", "writing"}
  BY <1>1 DEF TypeOK, Mode
<1>16. rwStatus'[k] = "writing" => rwCount'[k] = 1
  <2>1. Mode(t) = "writing" => rwStatus[k] = "none"
    BY DEF MayEnter
  <2>2. rwStatus[k] = "none" => Cardinality(A) = 0
    BY <1>14 DEF RwInv
  <2> QED
    BY <1>13, <1>14, <1>15, <2>1, <2>2
<1>17. rwStatus'[k] = "reading" => \A u \in B : prog'[u][ip'[u] - 1].op = "read"
  <2>1. SUFFICES ASSUME rwStatus'[k] = "reading", NEW u \in B PROVE prog'[u][ip'[u] - 1].op = "read"
    OBVIOUS
  <2>2. Op(t) = "read"
    BY <1>15, <2>1 DEF Mode
  <2>3. CASE u = t
    BY <1>1, <1>2, <1>3, <2>2, <2>3
  <2>4. CASE u # t
    <3>1. u \in A /\ u \in Threads \ {t}
      BY <1>11, <1>12, <2>4
    <3>2. ip'[u] = ip[u]
      BY <3>1, RwOthers
    <3>3. rwStatus[k] = "reading"
      <4>1. rwStatus[k] # "none"
        <5>1. SUFFICES ASSUME rwStatus[k] = "none" PROVE FALSE
          OBVIOUS
        <5>2. Cardinality(A) = 0
          BY <1>14, <5>1 DEF RwInv
        <5> QED
          BY <1>11, <3>1, <5>2, FS_EmptySet
      <4> QED
        BY <4>1 DEF MayEnter
    <3>4. prog[u][ip[u] - 1].op = "read"
      BY <1>10, <3>1, <3>3 DEF RwInv
    <3> QED
      BY <1>1, <3>2, <3>4
  <2> QED
    BY <2>3, <2>4
<1>18. ASSUME NEW x \in RwLocks, x # k
       PROVE  /\ rwCount'[x] = Cardinality(InRw(x)')
              /\ rwStatus'[x] = "none" => rwCount'[x] = 0
              /\ rwStatus'[x] = "writing" => rwCount'[x] = 1
              /\ rwStatus'[x] = "reading" => \A u \in InRw(x)' : prog'[u][ip'[u] - 1].op = "read"
  <2>1. rwCount'[x] = rwCount[x] /\ rwStatus'[x] = rwStatus[x]
    BY <1>1, <1>18 DEF TypeOK
  <2>2. InRw(x)' = InRw(x) /\ \A u \in InRw(x) : ip'[u] = ip[u]
    <3>1. t \notin InRw(x) /\ t \notin InRw(x)'
      BY <1>8, <1>9, <1>18
    <3> QED
      BY <3>1, RwElsewhere
  <2> QED
    BY <1>1, <2>1, <2>2 DEF RwInv
<1>19. /\ rwCount'[k] = Cardinality(InRw(k)')
       /\ rwStatus'[k] = "none" => rwCount'[k] = 0
       /\ rwStatus'[k] = "writing" => rwCount'[k] = 1
       /\ rwStatus'[k] = "reading" => \A u \in InRw(k)' : prog'[u][ip'[u] - 1].op = "read"
  BY <1>10, <1>14, <1>15, <1>16, <1>17
<1> QED
  BY <1>18, <1>19 DEF RwInv

\* One gets out: it has not been terminated either.
LEMMA RwLeaves ==
    ASSUME TInv, PInv, RwInv, NEW t \in Threads, Undisturbed, RwDown(t)
    PROVE  RwInv'
<1>0. PICK k : k = Arg(t)
  OBVIOUS
<1>1. TypeOK /\ Wakes(t) /\ prog' = prog /\ finished' = finished
  BY SyncLinks DEF TInv, Wakes, SyncStep
<1>2. /\ at[t] = "go" /\ Op(t) = "down" /\ Op(t) # "end" /\ at'[t] = "go" /\ ip'[t] = ip[t] + 1
      /\ rwCount' = [rwCount EXCEPT ![k] = @ - 1]
      /\ \/ rwCount[k] = 1 /\ rwStatus' = [rwStatus EXCEPT ![k] = "none"]
         \/ rwCount[k] # 1 /\ rwStatus' = rwStatus
  BY <1>0, <1>1 DEF RwDown, Calls, Return, TypeOK, SleepTypeOK
<1>3. k \in RwLocks
  BY <1>0, <1>1, <1>2, AtCall
<1>4. t \notin finished
  <2>1. CASE t \in {Main, Parent}
    BY <1>2, <2>1 DEF PInv, Outer
  <2>2. CASE t \notin {Main, Parent}
    BY <1>2, <2>2 DEF Undisturbed, AtRest
  <2> QED
    BY <2>1, <2>2
<1>5. t \in InRw(k) /\ \A x : t \in InRw(x) => x = k
  BY <1>0, <1>2, <1>4 DEF InRw, Live
<1>6. \A x : t \notin InRw(x)'
  <2>1. /\ Good(t, prog[t]) /\ ip[t] \in 1..Len(prog[t]) /\ prog[t][ip[t]].op = "down"
        /\ Len(prog[t]) \in Nat
    BY <1>1, <1>2, ProgramIs, NextOpIs
  <2>2. PICK i \in 1..(Len(prog[t]) + 1) : i = ip[t] + 1 /\ i - 1 = ip[t]
    BY <2>1
  <2>3. NextOp(prog[t], i) # "down"
    BY <2>1, <2>2, AfterUp
  <2>4. Op(t)' # "down"
    BY <1>1, <1>2, <2>2, <2>3 DEF Op, AtEnd, NextOp
  <2> QED
    BY <2>4 DEF InRw
<1>7. PICK A, B : A = InRw(k) /\ B = InRw(k)'
  OBVIOUS
<1>8. A \subseteq Threads /\ B \subseteq Threads /\ IsFiniteSet(A) /\ Cardinality(A) \in Nat
  BY <1>7, InRwIs
<1>9. B = A \ {t} /\ t \in A
  <2>1. \A u \in Threads \ {t} : u \in B <=> u \in A
    BY <1>1, <1>7, RwOthers
  <2> QED
    BY <1>5, <1>6, <1>7, <1>8, <2>1
<1>10. Cardinality(B) = Cardinality(A) - 1
  BY <1>8, <1>9, FS_RemoveElement
<1>11. rwCount[k] = Cardinality(A) /\ rwCount'[k] = Cardinality(B)
  BY <1>1, <1>2, <1>3, <1>7, <1>10 DEF RwInv, TypeOK
<1>12. ASSUME NEW x \in RwLocks, x # k
       PROVE  /\ rwCount'[x] = Cardinality(InRw(x)')
              /\ rwStatus'[x] = "none" => rwCount'[x] = 0
              /\ rwStatus'[x] = "writing" => rwCount'[x] = 1
              /\ rwStatus'[x] = "reading" => \A u \in InRw(x)' : prog'[u][ip'[u] - 1].op = "read"
  <2>1. rwCount'[x] = rwCount[x] /\ rwStatus'[x] = rwStatus[x]
    BY <1>1, <1>2, <1>12 DEF TypeOK
  <2>2. InRw(x)' = InRw(x) /\ \A u \in InRw(x) : ip'[u] = ip[u]
    BY <1>1, <1>5, <1>6, <1>12, InRwIs, RwOthers
  <2> QED
    BY <1>1, <2>1, <2>2 DEF RwInv
<1>13. /\ rwStatus'[k] = "none" => Cardinality(B) = 0
       /\ rwStatus'[k] = "writing" => Cardinality(B) = 1
       /\ rwStatus'[k] = "reading" => \A u \in B : prog'[u][ip'[u] - 1].op = "read"
  <2>1. CASE rwCount[k] = 1 /\ rwStatus' = [rwStatus EXCEPT ![k] = "none"]
    BY <1>1, <1>3, <1>10, <1>11, <2>1 DEF TypeOK
  <2>2. CASE rwCount[k] # 1 /\ rwStatus' = rwStatus
    <3>1. rwStatus[k] # "none"
      <4>1. SUFFICES ASSUME rwStatus[k] = "none" PROVE FALSE
        OBVIOUS
      <4>2. Cardinality(A) = 0
        BY <1>3, <1>11, <4>1 DEF RwInv
      <4> QED
        BY <1>8, <1>9, <4>2, FS_EmptySet
    <3>2. rwStatus[k] # "writing"
      BY <1>3, <2>2 DEF RwInv
    <3>3. ASSUME rwStatus[k] = "reading", NEW u \in B PROVE prog'[u][ip'[u] - 1].op = "read"
      <4>1. u \in A /\ u \in Threads \ {t}
        BY <1>8, <1>9
      <4>2. ip'[u] = ip[u]
        BY <1>1, <4>1, RwOthers
      <4>3. prog[u][ip[u] - 1].op = "read"
        BY <1>3, <1>7, <3>3, <4>1 DEF RwInv
      <4> QED
        BY <1>1, <4>2, <4>3
    <3> QED
      BY <2>2, <3>1, <3>2, <3>3
  <2> QED
    BY <1>2, <2>1, <2>2
<1> QED
  BY <1>7, <1>11, <1>12, <1>13 DEF RwInv

\* A step of a thread that is not inside.
LEMMA RwThread ==
    ASSUME TypeOK, RwInv, NEW t \in Threads, prog' = prog, rwVars' = rwVars, Op(t) # "down", Advances(t),
           \A u \in Threads \ {t} : u \in Live /\ Op(u) = "down" => u \in Live' /\ ip'[u] = ip[u],
           \A u \in Threads \ {t} : u \in Live' /\ Op(u)' = "down" => u \in Live /\ ip'[u] = ip[u]
    PROVE  RwInv'
<1>1. Op(t)' # "down"
  BY NotDown
<1>2. rwCount' = rwCount /\ rwStatus' = rwStatus
  BY DEF rwVars
<1> QED
  BY <1>1, <1>2, RwSame

\* thread_delete() of threads that are not inside.
LEMMA RwDelete ==
    ASSUME TInv, RwInv, NEW t \in Threads, on[t], NEW D, D \subseteq Threads,
           Fresh(D) \subseteq exited', exited \subseteq exited', exited' = finished',
           NEW where \in Places \ {"none"}, NEW n \in {0, 1}, Delete(t, D, where, n),
           n = 1 => Op(t) \notin {"read", "write", "end"}, Op(t) # "down",
           prog' = prog, rwVars' = rwVars,
           \A u \in Threads \ {t} : u \in finished' /\ u \notin finished => Op(u) # "down"
    PROVE  RwInv'
<1>1. TypeOK /\ exited = finished /\ n \in Nat
  BY DEF TInv, Ended
<1>2. /\ ip'[t] = ip[t] + n
      /\ \A u \in Threads \ {t} : at'[u] = at[u] \/ (at'[u] = "none" /\ u \in exited')
      /\ \A u \in Threads \ {t} : ip'[u] = ip[u]
  BY <1>1, DeleteIs
<1>3. Advances(t)
  BY <1>1, <1>2 DEF Advances, TypeOK, SleepTypeOK
<1>4. ASSUME NEW u \in Threads \ {t}, u \in Live, Op(u) = "down" PROVE u \in Live' /\ ip'[u] = ip[u]
  BY <1>1, <1>2, <1>4 DEF Live
<1>5. ASSUME NEW u \in Threads \ {t}, u \in Live' PROVE u \in Live /\ ip'[u] = ip[u]
  BY <1>1, <1>2, <1>5 DEF Live
<1> QED
  BY <1>1, <1>3, <1>4, <1>5, RwThread

LEMMA ReapRw ==
    ASSUME TInv, RwInv, NEW t \in Threads, rwVars' = rwVars,
           Join(t) \/ JoinWoken(t) \/ Detach(t)
             \/ (Collect(t) /\ UNCHANGED <<prog, finished, exited>>)
    PROVE  RwInv'
<1>1. TypeOK /\ Fine(t) /\ Ended
  BY DEF TInv
<1>2. prog' = prog /\ exited' = exited /\ finished' = finished /\ on[t]
      /\ Op(t) \in {"join", "detach", "waitpid"}
  BY <1>1 DEF Join, JoinWoken, Detach, Collect, Calls, Inside, Fine, PlacedAt
<1>3. Arg(t) \in Threads /\ exited' = finished'
  BY <1>1, <1>2, AtCall, ThreadAssumption DEF Ended
<1>4. ASSUME NEW D, D \subseteq Threads, Fresh(D) \subseteq exited,
             NEW where \in {"go", "out"}, NEW n \in {0, 1}, Delete(t, D, where, n)
      PROVE  RwInv'
  <2>1. where \in Places \ {"none"}
    BY DEF Places
  <2> QED
    BY <1>2, <1>3, <1>4, <2>1, RwDelete
<1>5. CASE Join(t) \/ JoinWoken(t)
  <2>1. Delete(t, {Arg(t)}, "go", 1) /\ (InPool(Arg(t)) \/ Arg(t) \in exited)
    BY <1>5 DEF Join, JoinWoken
  <2>2. Fresh({Arg(t)}) \subseteq exited
    BY <2>1 DEF Fresh
  <2> QED
    BY <1>3, <1>4, <2>1, <2>2
<1>6. CASE Detach(t)
  <2>1. Delete(t, DetachDeletes(Arg(t)), "go", 1)
    BY <1>6 DEF Detach
  <2>2. Fresh(DetachDeletes(Arg(t))) \subseteq exited /\ DetachDeletes(Arg(t)) \subseteq Threads
    BY <1>3 DEF Fresh, DetachDeletes
  <2> QED
    BY <1>4, <2>1, <2>2
<1>7. CASE Collect(t)
  <2>1. status /\ {Main} \subseteq Threads /\ Fresh({Main}) \subseteq exited
    BY <1>1, <1>7, ThreadAssumption DEF Collect, Fresh, Ended
  <2> QED
    BY <1>4, <1>7, <2>1 DEF Collect
<1> QED
  BY <1>5, <1>6, <1>7

LEMMA ExitRw ==
    ASSUME TInv, RwInv, Undisturbed, PInv, NEW t \in Threads, rwVars' = rwVars, Exit(t) \/ (t = Main /\ TaskExit)
    PROVE  RwInv'
<1>1. TypeOK /\ Fine(t) /\ Ended /\ Parent \notin finished
  BY DEF TInv, PInv, Outer
<1>2. CASE Exit(t)
  <2> DEFINE D == {t} \cap detached
  <2>1. /\ on[t] /\ Op(t) = "end" /\ prog' = prog /\ exited' = exited \cup {t}
        /\ finished' = finished \cup {t} /\ Delete(t, D, "gone", 0)
    BY <1>2 DEF Exit, Calls
  <2>2. /\ D \subseteq Threads /\ Fresh(D) \subseteq exited' /\ exited \subseteq exited'
        /\ exited' = finished' /\ "gone" \in Places \ {"none"}
    BY <1>1, <2>1 DEF Fresh, Places, Ended
  <2> HIDE DEF D
  <2> QED
    BY <2>1, <2>2, RwDelete
<1>3. CASE t = Main /\ TaskExit
  <2> DEFINE D == {u \in Threads \ {Main, Parent} : ~InPool(u) /\ u \notin deleted}
  <2>1. /\ on[t] /\ Op(t) = "end" /\ prog' = prog /\ exited' = exited \cup D \cup {Main}
        /\ finished' = finished \cup D \cup {Main} /\ Delete(t, D, "leaving", 0)
        /\ Calls(Main, {"end"})
    BY <1>3 DEF TaskExit, Calls
  <2>2. /\ D \subseteq Threads /\ Fresh(D) \subseteq exited' /\ exited \subseteq exited'
        /\ exited' = finished' /\ "leaving" \in Places \ {"none"}
    BY <1>1, <2>1 DEF Fresh, Places, Ended
  <2>3. ASSUME NEW u \in Threads \ {t}, u \in finished', u \notin finished PROVE Op(u) # "down"
    <3>1. u \in Threads \ {Main, Parent}
      BY <1>1, <1>3, <2>1, <2>3
    <3> QED
      BY <2>1, <3>1 DEF Undisturbed, AtRest
  <2> HIDE DEF D
  <2> QED
    BY <2>1, <2>2, <2>3, RwDelete
<1> QED
  BY <1>2, <1>3

LEMMA LifeRw ==
    ASSUME TInv, RwInv, MutexInv, NEW t \in Threads, rwVars' = rwVars,
           CreateFails(t) \/ Launch(t) \/ Begin(t) \/ (t = Main /\ TaskLeave)
             \/ (WaitPid(t) /\ ~(Collect(t) /\ UNCHANGED <<prog, finished, queue, exited, detached>>))
    PROVE  RwInv'
<1>1. TypeOK /\ Fine(t) /\ StartEnd(t) /\ Wakes(t)
  BY OtherLinks DEF TInv, MutexInv
<1>2. CASE CreateFails(t)
  <2>1. ip'[t] = ip[t] + (Len(prog[t]) + 1 - ip[t]) /\ Op(t) # "down"
    BY <1>1, <1>2 DEF CreateFails, Calls, Return, TypeOK, SleepTypeOK
  <2>2. ip'[t] = Len(prog[t]) + 1
    <3>1. ip[t] \in Nat /\ Len(prog[t]) \in Nat
      BY <1>1, ProgramIs
    <3> QED
      BY <2>1, <3>1
  <2> QED
    BY <1>1, <2>1, <2>2, RwWakes DEF Advances
<1>3. CASE Launch(t)
  <2>1. Return(t, 1) /\ Op(t) = "launch"
    BY <1>3 DEF Launch, Calls
  <2> QED
    BY <1>1, <2>1, ReturnIs, RwWakes
<1>4. CASE Begin(t)
  <2>1. ip' = ip /\ ip[t] = 1
    BY <1>1, <1>4 DEF Begin, Inside, Goto, StartEnd
  <2>2. Op(t) # "down"
    <3>1. Good(t, prog[t]) /\ ip[t] \in 1..(Len(prog[t]) + 1) /\ NextOp(prog[t], ip[t]) = Op(t)
      BY <1>1, ProgramIs, NextOpIs
    <3>2. Op(t) = "down" => ip[t] - 1 \in 1..Len(prog[t])
      BY <3>1, AfterUp
    <3> QED
      BY <2>1, <3>2
  <2> QED
    BY <1>1, <2>1, <2>2, RwWakes DEF Advances
<1>5. CASE t = Main /\ TaskLeave
  <2>1. ip' = ip /\ Op(t) = "end"
    BY <1>1, <1>5 DEF TaskLeave, Inside, Goto, StartEnd, Op
  <2> QED
    BY <1>1, <2>1, RwWakes DEF Advances
<1>6. CASE WaitPid(t) /\ ~(Collect(t) /\ UNCHANGED <<prog, finished, queue, exited, detached>>)
  <2>1. /\ Op(t) = "waitpid"
        /\ \/ Goto(t, "add")
           \/ Goto(t, "sleep")
           \/ WaitLoop(t, Children)
           \/ Return(t, 1)
    BY <1>6 DEF WaitPid, WaitCleanup
  <2>2. Advances(t)
    <3>1. CASE WaitLoop(t, Children)
      BY <1>1, <3>1, LoopPlaces DEF Advances
    <3>2. CASE ~WaitLoop(t, Children)
      BY <1>1, <2>1, <3>2, GotoIs, ReturnIs
    <3> QED
      BY <3>1, <3>2
  <2> QED
    BY <1>1, <2>1, <2>2, RwWakes
<1> QED
  BY <1>2, <1>3, <1>4, <1>5, <1>6

LEMMA JoinWaitRw ==
    ASSUME TInv, RwInv, NEW t \in Threads, rwVars' = rwVars, JoinWait(t)
    PROVE  RwInv'
<1>1. TypeOK
  BY DEF TInv
<1>2. Goto(t, "join") /\ Op(t) = "join" /\ prog' = prog /\ finished' = finished
  BY DEF JoinWait, Calls
<1>3. Advances(t) /\ \A u \in Threads \ {t} : ip'[u] = ip[u] /\ at'[u] = at[u]
  BY <1>1, <1>2, GotoIs
<1>4. \A u \in Threads \ {t} : u \in Live' <=> u \in Live
  BY <1>2, <1>3 DEF Live
<1> QED
  BY <1>1, <1>2, <1>3, <1>4, RwThread

LEMMA CreateRw ==
    ASSUME TInv, RwInv, NEW t \in Threads, rwVars' = rwVars, Create(t) \/ NewTask(t)
    PROVE  RwInv'
<1>0. PICK v : v = Arg(t)
  OBVIOUS
<1>1. TypeOK /\ prog' = prog
  BY DEF TInv, Create, NewTask
<1>2. Op(t) \in {"create", "new_task"} /\ at[v] = "none" /\ Initialised(t, v)
  BY <1>0 DEF Create, NewTask, Calls, InPool
<1>3. v \in Threads /\ v # t
  BY <1>0, <1>1, <1>2, AtCall, ThreadAssumption
<1>4. /\ at' = [at EXCEPT ![v] = "new"] /\ ip'[v] = 1 /\ ip'[t] = ip[t] + 1
      /\ finished' = finished \ {v}
      /\ \A u \in Threads \ {t, v} : ip'[u] = ip[u]
  BY <1>1, <1>2, <1>3 DEF Initialised, TypeOK, SleepTypeOK
<1>5. Advances(t)
  BY <1>2, <1>4 DEF Advances
<1>6. \A u \in Threads \ {t, v} : u \in Live' <=> u \in Live
  BY <1>1, <1>4 DEF Live, TypeOK
<1>7. v \notin Live /\ Op(v)' # "down"
  <2>1. Good(v, prog[v]) /\ Len(prog[v]) \in Nat
    BY <1>1, <1>3, ProgramIs
  <2>2. PICK i \in 1..(Len(prog[v]) + 1) : i = 1
    BY <2>1
  <2>3. NextOp(prog[v], i) = "down" => i - 1 \in 1..Len(prog[v])
    BY <1>3, <2>1, AfterUp
  <2>4. NextOp(prog[v], i) # "down"
    BY <2>2, <2>3
  <2> QED
    BY <1>1, <1>2, <1>4, <2>2, <2>4 DEF Live, Op, AtEnd, NextOp
<1> QED
  BY <1>1, <1>2, <1>4, <1>5, <1>6, <1>7, RwThread

LEMMA NextRw ==
    ASSUME TInv, PInv, MutexInv, RwInv, Undisturbed, Undisturbed', [Next]_vars
    PROVE  RwInv'
<1>1. ASSUME NEW t \in Threads, Step(t) PROVE RwInv'
  <2>1. CASE SyncStep(t)
    <3>1. Wakes(t) /\ TypeOK
      BY <2>1, SyncLinks DEF TInv
    <3>2. CASE RwDown(t)
      BY <3>2, RwLeaves
    <3>3. CASE ~RwDown(t) /\ rwVars' = rwVars
      BY <2>1, <3>1, <3>3, SyncAdvances, RwWakes
    <3>4. CASE RwUp(t)
      <4>1. PICK k : k = Arg(t)
        OBVIOUS
      <4>2. on[t] /\ at[t] \in {"go", "rw"} /\ Op(t) \in {"read", "write"}
        BY <3>4 DEF RwUp, Calls, Inside, TInv, Fine, PlacedAt
      <4>3. k \in RwLocks
        BY <3>1, <4>1, <4>2, AtCall
      <4>4. CASE /\ MayEnter(t, k)
                 /\ rwStatus' = [rwStatus EXCEPT ![k] = Mode(t)]
                 /\ rwCount' = [rwCount EXCEPT ![k] = @ + 1]
                 /\ WaitCleanup(t, k, 1)
        <5>1. Return(t, 1)
          BY <4>4 DEF WaitCleanup
        <5> QED
          BY <3>1, <4>1, <4>2, <4>3, <4>4, <5>1, RwEnters
      <4>5. CASE rwVars' = rwVars
        <5>1. ~RwDown(t)
          BY <4>2 DEF RwDown, Calls
        <5> QED
          BY <3>3, <4>5, <5>1
      <4> QED
        BY <3>4, <4>1, <4>4, <4>5 DEF RwUp
    <3>5. RwUp(t) \/ RwDown(t) \/ rwVars' = rwVars
      BY <2>1 DEF SyncStep, LockTry, LockCheck, LockWait, TryLock, Unlock, AwaitDone, CondWait,
                  CondTimeout, CondWoken, Happen, Signal, BarrierWait, BarrierWoken, syncVars, rwVars
    <3> QED
      BY <3>2, <3>3, <3>4, <3>5
  <2>2. CASE ThreadStep(t) /\ rwVars' = rwVars
    <3>1. CASE Create(t) \/ NewTask(t)
      BY <2>2, <3>1, CreateRw
    <3>2. CASE Exit(t) \/ (t = Main /\ TaskExit)
      BY <2>2, <3>2, ExitRw
    <3>3. CASE Join(t) \/ JoinWoken(t) \/ Detach(t)
      BY <2>2, <3>3, ReapRw
    <3>4. CASE WaitPid(t)
      BY <2>2, <3>4, ReapRw, LifeRw
    <3>5. CASE CreateFails(t) \/ Launch(t) \/ Begin(t) \/ (t = Main /\ TaskLeave)
      BY <2>2, <3>5, LifeRw
    <3>6. CASE JoinWait(t)
      BY <2>2, <3>6, JoinWaitRw
    <3> QED
      BY <2>2, <3>1, <3>2, <3>3, <3>4, <3>5, <3>6 DEF ThreadStep
  <2> QED
    BY <1>1, <2>1, <2>2 DEF Step
<1>2. ASSUME UNCHANGED vars PROVE RwInv'
  <2>1. /\ prog' = prog /\ ip' = ip /\ at' = at /\ finished' = finished
        /\ rwCount' = rwCount /\ rwStatus' = rwStatus
    BY <1>2 DEF vars, sleepVars, syncVars, rwVars
  <2>2. Live' = Live
    BY <2>1 DEF Live
  <2>3. \A u \in Threads : Op(u)' = Op(u)
    BY <2>1, SameCall
  <2> QED
    BY <2>1, <2>2, <2>3, RwSame
<1> QED
  BY <1>1, <1>2 DEF Next, Over

LEMMA InitRw == Init => RwInv
<1> SUFFICES ASSUME Init PROVE RwInv
  OBVIOUS
<1>1. TypeOK
  BY InitHolds DEF TInv
<1>2. /\ rwStatus = [k \in RwLocks |-> "none"] /\ rwCount = [k \in RwLocks |-> 0]
      /\ ip = [t \in Threads |-> 1]
  BY DEF Init
<1>3. ASSUME NEW t \in Threads PROVE Op(t) # "down"
  <2>1. Good(t, prog[t]) /\ ip[t] \in 1..(Len(prog[t]) + 1) /\ NextOp(prog[t], ip[t]) = Op(t)
    BY <1>1, ProgramIs, NextOpIs
  <2>2. Op(t) = "down" => ip[t] - 1 \in 1..Len(prog[t])
    BY <2>1, AfterUp
  <2> QED
    BY <1>2, <2>2
<1>4. \A k : InRw(k) = {}
  BY <1>3 DEF InRw, Live
<1>5. Cardinality({}) = 0
  BY FS_EmptySet
<1> QED
  BY <1>2, <1>4, <1>5 DEF RwInv

\* A read-write lock is held by as many as it counts.
LEMMA RwLocksInv == Spec /\ []Undisturbed => []RwInv
<1>1. Init => RwInv
  BY InitRw
<1>2. TInv /\ PInv /\ MutexInv /\ RwInv /\ Undisturbed /\ Undisturbed' /\ [Next]_vars => RwInv'
  BY NextRw
<1> QED
  BY <1>1, <1>2, ThreadsInv, PoolInv, MutexesInv, PTL DEF Spec

LEMMA CountZero ==
    ASSUME NEW s, NEW ops, NEW a
    PROVE  Count(s, 0, ops, a) = 0
<1>1. {i \in 1..0 : s[i].op \in ops /\ s[i].arg = a} = {}
  OBVIOUS
<1> QED
  BY <1>1, FS_EmptySet DEF Count

\* The calls say so too: only between a lock and the call after it is one more lock
\* than unlock made.
LEMMA UpsAndDowns ==
    ASSUME NEW t \in Threads, NEW s, Good(t, s), NEW k
    PROVE  \A n \in 0..Len(s) :
                Count(s, n, {"read", "write"}, k) - Count(s, n, {"down"}, k) =
                    IF n > 0 /\ s[n].op \in {"read", "write"} /\ s[n].arg = k THEN 1 ELSE 0
<1> DEFINE ups(n) == Count(s, n, {"read", "write"}, k)
           downs(n) == Count(s, n, {"down"}, k)
           up(n) == s[n].op \in {"read", "write"} /\ s[n].arg = k
           down(n) == s[n].op = "down" /\ s[n].arg = k
           Q(n) == ups(n) - downs(n) = IF n > 0 /\ up(n) THEN 1 ELSE 0
           S == {n \in Nat : n \in 0..Len(s) => Q(n)}
<1>1. Len(s) \in Nat /\ DOMAIN s = 1..Len(s)
  BY DEF Good
<1>2. ASSUME NEW n \in Nat
      PROVE  /\ ups(n) \in Nat /\ downs(n) \in Nat
             /\ up(n + 1) => ups(n + 1) = ups(n) + 1
             /\ ~up(n + 1) => ups(n + 1) = ups(n)
             /\ down(n + 1) => downs(n + 1) = downs(n) + 1
             /\ ~down(n + 1) => downs(n + 1) = downs(n)
  <2>1. /\ ups(n) \in Nat
        /\ ups(n + 1) = ups(n) + (IF up(n + 1) THEN 1 ELSE 0)
    BY CountNext
  <2>2. /\ downs(n) \in Nat
        /\ downs(n + 1) =
             downs(n) + (IF s[n + 1].op \in {"down"} /\ s[n + 1].arg = k THEN 1 ELSE 0)
    BY CountNext
  <2>3. (s[n + 1].op \in {"down"} /\ s[n + 1].arg = k) <=> down(n + 1)
    OBVIOUS
  <2> HIDE DEF ups, downs, up, down
  <2> QED
    BY <2>1, <2>2, <2>3
<1>3. ups(0) = 0 /\ downs(0) = 0
  BY CountZero
<1>4. ASSUME NEW n \in 0..(Len(s) - 1)
      PROVE  /\ down(n + 1) <=> n > 0 /\ up(n)
             /\ ~(up(n + 1) /\ down(n + 1))
  <2>1. n + 1 \in DOMAIN s /\ n \in Nat /\ (n + 1) - 1 = n
    BY <1>1
  <2>2. ASSUME down(n + 1) PROVE n > 0 /\ up(n)
    <3>1. n \in DOMAIN s /\ s[n].op \in {"read", "write"} /\ s[n].arg = s[n + 1].arg
      BY <2>1, <2>2 DEF Good, Pairs
    <3> QED
      BY <1>1, <2>2, <3>1
  <2>3. ASSUME n > 0, up(n) PROVE down(n + 1)
    <3>1. n \in DOMAIN s
      BY <1>1, <2>1, <2>3
    <3>2. s[n + 1] = [op |-> "down", arg |-> s[n].arg]
      BY <2>3, <3>1 DEF Good, Pairs
    <3> QED
      BY <2>3, <3>2
  <2> QED
    BY <2>2, <2>3
<1> HIDE DEF ups, downs, up, down
<1>5. Q(0)
  BY <1>3
<1>6. ASSUME NEW n \in Nat, n \in 0..Len(s) => Q(n), n + 1 \in 0..Len(s) PROVE Q(n + 1)
  <2>1. n \in 0..(Len(s) - 1) /\ n \in 0..Len(s) /\ n + 1 > 0
    BY <1>1, <1>6
  <2>2. ups(n) - downs(n) = IF n > 0 /\ up(n) THEN 1 ELSE 0
    BY <1>6, <2>1
  <2>3. (down(n + 1) <=> n > 0 /\ up(n)) /\ ~(up(n + 1) /\ down(n + 1))
    BY <1>4, <2>1
  <2>4. /\ ups(n) \in Nat /\ downs(n) \in Nat
        /\ up(n + 1) => ups(n + 1) = ups(n) + 1
        /\ ~up(n + 1) => ups(n + 1) = ups(n)
        /\ down(n + 1) => downs(n + 1) = downs(n) + 1
        /\ ~down(n + 1) => downs(n + 1) = downs(n)
    BY <1>2
  <2>5. CASE down(n + 1)
    BY <2>1, <2>2, <2>3, <2>4, <2>5
  <2>6. CASE ~down(n + 1)
    BY <2>1, <2>2, <2>3, <2>4, <2>6
  <2> QED
    BY <2>5, <2>6
<1>7. 0 \in S /\ \A n \in S : n + 1 \in S
  BY <1>5, <1>6
<1>8. S = Nat
  <2>1. S \subseteq Nat
    OBVIOUS
  <2> HIDE DEF S
  <2> QED
    BY <1>7, <2>1, NatSetInduction
<1>9. \A n \in 0..Len(s) : Q(n)
  BY <1>1, <1>8
<1> QED
  BY <1>9 DEF ups, downs, up

LEMMA InsideIs ==
    ASSUME TypeOK, NEW t \in Threads, NEW k
    PROVE  Made(t, {"read", "write"}, k) > Made(t, {"down"}, k) <=> Op(t) = "down" /\ Arg(t) = k
<1>1. /\ Good(t, prog[t]) /\ ip[t] \in 1..(Len(prog[t]) + 1) /\ Len(prog[t]) \in Nat
      /\ NextOp(prog[t], ip[t]) = Op(t)
  BY ProgramIs, NextOpIs
<1>2. PICK s, i : s = prog[t] /\ i = ip[t] /\ i \in 1..(Len(s) + 1)
  BY <1>1
<1>3. i - 1 \in 0..Len(s) /\ i - 1 \in Nat
  BY <1>1, <1>2
<1>4. PICK a, b \in Nat : a = Count(s, i - 1, {"read", "write"}, k) /\ b = Count(s, i - 1, {"down"}, k)
  BY <1>3, CountNext
<1>5. a - b = IF i - 1 > 0 /\ s[i - 1].op \in {"read", "write"} /\ s[i - 1].arg = k THEN 1 ELSE 0
  BY <1>1, <1>2, <1>3, <1>4, UpsAndDowns
<1>6. a > b <=> i > 1 /\ s[i - 1].op \in {"read", "write"} /\ s[i - 1].arg = k
  BY <1>2, <1>4, <1>5
<1>7. i > 1 /\ s[i - 1].op \in {"read", "write"} => Op(t) = "down" /\ s[i].arg = s[i - 1].arg
  BY <1>1, <1>2, AfterUp
<1>8. Op(t) = "down" => i > 1 /\ s[i - 1].op \in {"read", "write"} /\ s[i].arg = s[i - 1].arg
  BY <1>1, <1>2, AfterUp
<1>9. Arg(t) = s[i].arg
  BY <1>2 DEF Arg
<1>10. Op(t) = "down" /\ Arg(t) = k <=> i > 1 /\ s[i - 1].op \in {"read", "write"} /\ s[i - 1].arg = k
  BY <1>7, <1>8, <1>9
<1> QED
  BY <1>2, <1>4, <1>6, <1>10 DEF Made

\* In every program that keeps to the rules of the calls, and whose task exits with
\* its threads at rest, a mutex belongs to the thread whose calls have locked it and
\* not yet unlocked it, as often as its count says, and to no other, through every
\* timeout, recursive lock and cond_wait(), and a read-write lock is held by as many
\* threads as rwlock.count says, by a writer alone.
THEOREM HolderHasLockedHolds == Spec /\ []Undisturbed => []HolderHasLocked
<1>1. ASSUME TInv, MutexInv, RwInv PROVE HolderHasLocked
  <2>1. TypeOK
    BY <1>1 DEF TInv
  <2>2. ASSUME NEW m \in Mutexes, NEW t \in Live
        PROVE  Locked(t, m) = IF holder[m] = t THEN depth[m] ELSE 0
    <3>1. t \in Threads /\ at[t] # "none"
      BY DEF Live
    <3> QED
      BY <1>1, <3>1 DEF MutexInv, Owns, HeldBy
  <2>3. ASSUME NEW k \in RwLocks, NEW In, NEW Writers,
               In = {t \in Live : Made(t, {"read", "write"}, k) > Made(t, {"down"}, k)},
               Writers = {t \in In : prog[t][ip[t] - 1].op = "write"}
        PROVE  rwCount[k] = Cardinality(In) /\ (Writers # {} => Cardinality(In) = 1)
    <3>1. In = InRw(k)
      <4>1. \A t \in Live : Made(t, {"read", "write"}, k) > Made(t, {"down"}, k) <=> Op(t) = "down" /\ Arg(t) = k
        BY <2>1, InsideIs DEF Live
      <4> QED
        BY <2>3, <4>1 DEF InRw
    <3>2. rwCount[k] = Cardinality(In)
      BY <1>1, <3>1 DEF RwInv
    <3>3. ASSUME NEW t \in Writers PROVE Cardinality(In) = 1
      <4>1. t \in InRw(k) /\ prog[t][ip[t] - 1].op = "write"
        BY <2>3, <3>1
      <4>2. rwStatus[k] # "reading"
        BY <1>1, <4>1 DEF RwInv
      <4>3. rwStatus[k] # "none"
        <5>1. rwStatus[k] = "none" => Cardinality(InRw(k)) = 0
          BY <1>1 DEF RwInv
        <5>2. Cardinality(InRw(k)) # 0
          BY <4>1, InRwIs, FS_EmptySet
        <5> QED
          BY <5>1, <5>2
      <4>4. rwStatus[k] = "writing"
        BY <2>1, <4>2, <4>3 DEF TypeOK
      <4> QED
        BY <1>1, <3>2, <4>4 DEF RwInv
    <3> QED
      BY <3>2, <3>3
  <2>4. \A m \in Mutexes, t \in Live : Locked(t, m) = IF holder[m] = t THEN depth[m] ELSE 0
    BY <2>2
  <2>5. \A k \in RwLocks :
          LET In == {t \in Live : Made(t, {"read", "write"}, k) > Made(t, {"down"}, k)}
              Writers == {t \in In : prog[t][ip[t] - 1].op = "write"}
          IN  rwCount[k] = Cardinality(In) /\ (Writers # {} => Cardinality(In) = 1)
    BY <2>3
  <2> QED
    BY <2>4, <2>5 DEF HolderHasLocked
<1> QED
  BY <1>1, ThreadsInv, MutexesInv, RwLocksInv, PTL

-----------------------------------------------------------------------------
(* Priority inheritance.                                                     *)

\* A thread goes on by a call, or by two when a lock was refused.
Onward(t) ==
    \/ ip'[t] = ip[t]
    \/ at'[t] = "go" /\ ip'[t] = ip[t] + 1
    \/ /\ at'[t] = "go" /\ ip'[t] = ip[t] + 2 /\ at[t] # "out"
       /\ Op(t) \in Locks /\ MayFail(prog[t][ip[t]])

LEMMA SyncOnward ==
    ASSUME TInv, NEW t \in Threads, SyncStep(t)
    PROVE  Onward(t)
<1>1. TypeOK /\ Fine(t) /\ After(t) \in {0, 1} /\ ip[t] \in Nat /\ at \in [Threads -> Places]
      /\ ip \in [Threads -> Nat]
  BY AtCall DEF TInv, TypeOK, SleepTypeOK, After
<1>2. ASSUME NEW n, Return(t, n) PROVE at'[t] = "go" /\ ip'[t] = ip[t] + n
  BY <1>1, <1>2 DEF Return
<1>3. ASSUME NEW n \in {0, 1}, Return(t, n) PROVE Onward(t)
  <2>1. at'[t] = "go" /\ ip'[t] = ip[t] + n
    BY <1>2, <1>3
  <2> QED
    BY <1>1, <2>1 DEF Onward
<1>4. ASSUME Return(t, Skip), at[t] # "out",
             Op(t) \in {"timedlock", "trylock"} \/ (Op(t) = "lock" /\ Kind[Arg(t)] = "errorcheck")
      PROVE  Onward(t)
  <2>1. at'[t] = "go" /\ ip'[t] = ip[t] + 2
    BY <1>2, <1>4 DEF Skip
  <2>2. Op(t) \in Locks /\ MayFail(prog[t][ip[t]])
    <3>1. Op(t) # "end" /\ Op(t) \in Locks
      BY <1>4 DEF Locks
    <3> QED
      BY <1>1, <1>4, <3>1, AtCall DEF MayFail
  <2> QED
    BY <1>4, <2>1, <2>2 DEF Onward
<1>5. ASSUME NEW w, Goto(t, w) PROVE Onward(t)
  BY <1>5 DEF Goto, Onward
<1>6. CASE LockTry(t)
  <2>1. CASE Return(t, After(t))
    BY <1>1, <1>3, <2>1
  <2>2. CASE Deadlk(t, Wanted(t)) /\ Return(t, Skip)
    <3>1. at[t] # "relock"
      BY <1>1, <2>2 DEF Fine, GivenBack, PlacedAt, Deadlk, Wanted
    <3>2. Op(t) \in {"lock", "timedlock"} /\ at[t] # "out"
      BY <1>6, <3>1 DEF LockTry, Calls, Inside
    <3>3. Kind[Arg(t)] = "errorcheck"
      BY <2>2, <3>2 DEF Deadlk, Wanted, Awaits
    <3> QED
      BY <1>4, <2>2, <3>2, <3>3
  <2>3. CASE Goto(t, "add")
    BY <1>5, <2>3
  <2> QED
    BY <1>6, <2>1, <2>2, <2>3 DEF LockTry
<1>7. CASE LockCheck(t)
  BY <1>5, <1>7 DEF LockCheck
<1>8. CASE LockWait(t)
  <2>1. CASE WaitLoop(t, Wanted(t)) \/ WaitTimeout(t)
    <3>1. ip' = ip
      BY <1>1, <2>1, LoopPlaces
    <3> QED
      BY <3>1 DEF Onward
  <2>2. CASE WaitCleanup(t, Wanted(t), After(t))
    BY <1>1, <1>3, <2>2 DEF WaitCleanup
  <2>3. CASE Inside(t, "fail") /\ WaitCleanup(t, Wanted(t), Skip)
    <3>1. Op(t) = "timedlock" /\ at[t] # "out"
      BY <1>1, <2>3 DEF Fine, PlacedAt, Inside
    <3> QED
      BY <1>4, <2>3, <3>1 DEF WaitCleanup
  <2> QED
    BY <1>8, <2>1, <2>2, <2>3 DEF LockWait
<1>9. CASE TryLock(t)
  <2>1. Op(t) = "trylock" /\ at[t] # "out"
    BY <1>9 DEF TryLock, Calls
  <2> QED
    BY <1>3, <1>4, <1>9, <2>1 DEF TryLock
<1>10. CASE Unlock(t) \/ AwaitDone(t) \/ Happen(t) \/ Signal(t) \/ RwDown(t)
  BY <1>3, <1>10 DEF Unlock, AwaitDone, Happen, Signal, RwDown
<1>11. CASE CondWait(t) \/ CondTimeout(t) \/ CondWoken(t)
  BY <1>5, <1>11 DEF CondWait, CondPrepare, CondTimeout, CondWoken, Onward
<1>12. CASE BarrierWait(t) \/ BarrierWoken(t) \/ RwUp(t)
  BY <1>3, <1>5, <1>12 DEF BarrierWait, BarrierWoken, RwUp, WaitCleanup
<1> QED
  BY <1>6, <1>7, <1>8, <1>9, <1>10, <1>11, <1>12 DEF SyncStep

\* What t has given back inside a mutex stays given back while t keeps the mutex.
InsideKept(t) ==
    \A m \in Mutexes : holder[m] = t /\ holder'[m] = t /\ UnlockedInside(t, m) =>
        UnlockedInside(t, m)'

LEMMA InsideStays ==
    ASSUME TypeOK, NEW t \in Threads, NEW m, prog' = prog, ip'[t] \in Nat, ip'[t] >= ip[t],
           \A k \in ip[t]..(ip'[t] - 1) : Balance(prog[t], k, m) > 0,
           UnlockedInside(t, m)
    PROVE  UnlockedInside(t, m)'
<1>1. ip[t] \in Nat
  BY DEF TypeOK, SleepTypeOK
<1>2. PICK j \in 1..ip[t] :
        /\ j < ip[t] \/ Op(t) \in Awaits
        /\ Drops(prog[t][j], m)
        /\ \A k \in j..(ip[t] - 1) : Balance(prog[t], k, m) > 0
  BY DEF UnlockedInside
<1>3. j \in 1..ip'[t] /\ \A k \in j..(ip'[t] - 1) : Balance(prog[t], k, m) > 0
  <2>1. \A k \in j..(ip'[t] - 1) : k \in j..(ip[t] - 1) \/ k \in ip[t]..(ip'[t] - 1)
    BY <1>1
  <2> QED
    BY <1>1, <1>2, <2>1
<1>4. j < ip'[t] \/ Op(t)' \in Awaits
  <2>1. CASE ip'[t] = ip[t]
    BY <1>2, <2>1, SameCall
  <2>2. CASE ip'[t] # ip[t]
    BY <1>1, <2>2
  <2> QED
    BY <2>1, <2>2
<1>5. Drops(prog[t][j], m)' <=> Drops(prog[t][j], m)
  BY DEF Drops
<1> QED
  BY <1>2, <1>3, <1>4, <1>5 DEF UnlockedInside

LEMMA OnwardKeeps ==
    ASSUME TInv, MutexInv, TInv', MutexInv', NEW t \in Threads, prog' = prog, Onward(t)
    PROVE  InsideKept(t)
<1> SUFFICES ASSUME NEW m \in Mutexes, holder[m] = t, holder'[m] = t, UnlockedInside(t, m)
             PROVE  UnlockedInside(t, m)'
  BY DEF InsideKept
<1>1. TypeOK /\ TypeOK' /\ ip[t] \in Nat /\ ip'[t] \in Nat /\ ip[t] >= 1
      /\ ip[t] \in 1..(Len(prog[t]) + 1) /\ ip'[t] \in 1..(Len(prog[t]) + 1)
  <2>1. TypeOK /\ TypeOK'
    BY DEF TInv
  <2>2. ip[t] \in Nat /\ ip[t] \in 1..(Len(prog[t]) + 1)
    BY <2>1 DEF TypeOK, SleepTypeOK
  <2>3. ip'[t] \in Nat /\ ip'[t] \in 1..(Len(prog[t]) + 1)
    BY <2>1 DEF TypeOK, SleepTypeOK
  <2> QED
    BY <2>1, <2>2, <2>3
<1>2. depth[m] >= 1 /\ depth'[m] >= 1 /\ depth[m] \in Nat /\ depth'[m] \in Nat
  BY <1>1, SyncAssumption DEF TInv, Counted, TypeOK
<1>0. at[t] # "none"
  BY DEF MutexInv, Owns
<1>3. at'[t] = "go" => Balance(prog[t], ip'[t] - 1, m) > 0
  <2>1. SUFFICES ASSUME at'[t] = "go" PROVE Balance(prog[t], ip'[t] - 1, m) > 0
    OBVIOUS
  <2>2. Locked(t, m)' = depth'[m]
    BY <2>1 DEF MutexInv, Owns, HeldBy
  <2>3. Locked(t, m)' = Balance(prog[t], ip'[t] - 1, m)
    BY <1>1, <2>1, LockedThen
  <2> QED
    BY <1>2, <2>2, <2>3
<1>4. Op(t) \in Locks /\ at[t] # "out" => Balance(prog[t], ip[t], m) > 0
  <2>1. SUFFICES ASSUME Op(t) \in Locks, at[t] # "out" PROVE Balance(prog[t], ip[t], m) > 0
    OBVIOUS
  <2>2. Locked(t, m) = depth[m]
    BY <1>0 DEF MutexInv, Owns, HeldBy
  <2>3. Op(t) \notin Awaits /\ Op(t) # "end"
    BY <2>1 DEF Locks, Awaits
  <2>4. Locked(t, m) = Balance(prog[t], ip[t] - 1, m)
    BY <1>1, <2>1, <2>3, LockedAt
  <2>5. PICK s, i : s = prog[t] /\ i = ip[t]
    OBVIOUS
  <2>6. Good(t, s) /\ i \in 1..Len(s) /\ s[i].op \in Locks
    BY <1>1, <2>1, <2>3, <2>5, ProgramIs, NextOpIs
  <2>7. /\ Balance(s, i - 1, m) \in Int
        /\ s[i].arg # m => Balance(s, i, m) = Balance(s, i - 1, m)
        /\ s[i].arg = m => Balance(s, i, m) = Balance(s, i - 1, m) + 1
    BY <2>6, BalanceOn
  <2> QED
    BY <1>2, <2>2, <2>4, <2>5, <2>7
<1>5. CASE ip'[t] = ip[t]
  <2>1. ip[t]..(ip'[t] - 1) = {}
    BY <1>1, <1>5
  <2> QED
    BY <1>1, <1>5, <2>1, InsideStays
<1>6. CASE at'[t] = "go" /\ ip'[t] = ip[t] + 1
  <2>1. \A k \in ip[t]..(ip'[t] - 1) : k = ip'[t] - 1
    BY <1>1, <1>6
  <2> QED
    BY <1>1, <1>3, <1>6, <2>1, InsideStays
<1>7. CASE at'[t] = "go" /\ ip'[t] = ip[t] + 2 /\ Op(t) \in Locks /\ at[t] # "out"
  <2>1. \A k \in ip[t]..(ip'[t] - 1) : k = ip'[t] - 1 \/ k = ip[t]
    BY <1>1, <1>7
  <2> QED
    BY <1>1, <1>3, <1>4, <1>7, <2>1, InsideStays
<1> QED
  BY <1>5, <1>6, <1>7 DEF Onward

\* Who sleeps for a mutex.
Pending(t) == at[t] \in {"sleep", "asleep"} /\ Op(t) # "waitpid" /\ waiting[t] /\ t \notin finished
LEMMA PendingIs ==
    ASSUME TInv, NEW t \in Threads, Pending(t)
    PROVE  /\ Wanted(t) \in Mutexes /\ holder[Wanted(t)] \in Threads
           /\ t \in ToSet(queue[Wanted(t)])
           /\ at[t] \in {"sleep", "asleep"} /\ Op(t) # "waitpid" /\ waiting[t] /\ t \notin finished
<1>1. Fine(t) /\ TypeOK
  BY DEF TInv
<1>2. Op(t) \in {"lock", "timedlock"} \cup Awaits
  BY <1>1 DEF Fine, PlacedAt, Loop, Waits, Pending
<1>3. Wanted(t) \in Mutexes
  BY <1>1, <1>2, AtCall
<1>4. Spot(t) = Wanted(t)
  BY DEF Spot, Pending
<1>5. t \in ToSet(queue[Wanted(t)])
  BY <1>1, <1>4 DEF Fine, LinkedAt, Pending, Linking
<1>6. holder[Wanted(t)] # None
  BY <1>1 DEF Fine, Reason, Pending
<1> QED
  BY <1>1, <1>3, <1>5, <1>6 DEF TypeOK, Pending

LEMMA CoveredStays ==
    ASSUME TInv, NEW t \in Threads, Covered(t), prog' = prog,
           Pending(t)' => Pending(t) /\ ip'[t] = ip[t],
           \A m \in Mutexes : holder[m] # None => holder'[m] = holder[m],
           \A h \in Threads : at[h] # "none" => prio'[h] >= prio[h],
           \A h \in Threads : InsideKept(h), MutexInv, prio' \in [Threads -> Int]
    PROVE  Covered(t)'
<1> SUFFICES ASSUME Pending(t)'
             PROVE  Covered(t)'
  BY DEF Covered, Pending
<1>1. Pending(t) /\ ip'[t] = ip[t]
  OBVIOUS
<1>2. PICK m : m = Wanted(t)
  OBVIOUS
<1>3. m \in Mutexes /\ holder[m] \in Threads
  BY <1>1, <1>2, PendingIs
<1>4. PICK h \in Threads : h = holder[m]
  BY <1>3
<1>5. Wanted(t)' = m
  BY <1>1, <1>2, SameCall
<1>6. holder'[m] = h
  BY <1>3, <1>4, SyncAssumption
<1>7. at[h] # "none"
  BY <1>3, <1>4 DEF MutexInv, Owns
<1>8. prio[h] >= Base[t] \/ UnlockedInside(h, m)
  BY <1>1, <1>2, <1>4 DEF Covered, Pending
<1>9. prio'[h] >= prio[h] /\ prio[h] \in Int /\ prio'[h] \in Int /\ Base[t] \in Int
  BY <1>7, SyncAssumption DEF TInv, TypeOK
<1>10. UnlockedInside(h, m) => UnlockedInside(h, m)'
  BY <1>3, <1>4, <1>6 DEF InsideKept
<1>11. prio'[h] >= Base[t] \/ UnlockedInside(h, m)'
  BY <1>8, <1>9, <1>10
<1> QED
  BY <1>5, <1>6, <1>11 DEF Covered

LEMMA BoostStep ==
    ASSUME TInv, MutexInv, BoostInv, prog' = prog, prio' \in [Threads -> Int],
           \A h \in Threads : InsideKept(h),
           \A m \in Mutexes : holder[m] # None => holder'[m] = holder[m],
           \A h \in Threads : at[h] # "none" => prio'[h] >= prio[h],
           \A h \in Threads : \/ prio'[h] = Base[h]
                              \/ prio'[h] = prio[h] /\ (at[h] = "none" => at'[h] = "none")
                              \/ prio'[h] >= prio[h] /\ \E m \in Mutexes : holder'[m] = h,
           \A u \in Threads : Covered(u)' \/ (Pending(u)' => Pending(u) /\ ip'[u] = ip[u])
    PROVE  BoostInv'
<1> SUFFICES ASSUME NEW u \in Threads PROVE prio'[u] >= Base[u] /\ Boosted(u)' /\ Covered(u)'
  BY DEF BoostInv
<1>1. Covered(u)'
  <2>1. Covered(u)
    BY DEF BoostInv
  <2> QED
    BY <2>1, CoveredStays
<1>2. prio[u] >= Base[u] /\ Boosted(u) /\ prio[u] \in Int /\ prio'[u] \in Int /\ Base[u] \in Int
  BY SyncAssumption DEF BoostInv, TInv, TypeOK
<1>3. prio'[u] >= Base[u]
  BY <1>2
<1>4. Boosted(u)'
  BY <1>2, SyncAssumption DEF Boosted
<1> QED
  BY <1>1, <1>3, <1>4

LEMMA BoostSync ==
    ASSUME TInv, MutexInv, BoostInv, TInv', MutexInv', NEW t \in Threads, SyncStep(t),
           \A m \in Mutexes : holder[m] # None => holder'[m] = holder[m],
           \A h \in Threads : prio'[h] >= prio[h],
           \A h \in Threads : prio'[h] = prio[h] \/ \E m \in Mutexes : holder'[m] = h,
           Covered(t)' \/ (Pending(t)' => Pending(t) /\ ip'[t] = ip[t])
    PROVE  BoostInv'
<1>1. Wakes(t) /\ Onward(t)
  BY SyncLinks, SyncOnward
<1>2. prog' = prog /\ finished' = finished /\ prio' \in [Threads -> Int]
  BY <1>1 DEF Wakes, TInv, TypeOK
<1>3. ASSUME NEW u \in Threads \ {t} PROVE Onward(u) /\ (Pending(u)' => Pending(u) /\ ip'[u] = ip[u])
  <2>1. ip'[u] = ip[u] /\ at'[u] = at[u] /\ (waiting'[u] => waiting[u])
    BY <1>1 DEF Wakes
  <2>2. Op(u)' = Op(u)
    BY <1>2, <2>1, SameCall
  <2> QED
    BY <1>2, <2>1, <2>2 DEF Onward, Pending
<1>4. \A h \in Threads : Onward(h)
  BY <1>1, <1>3
<1>5. \A h \in Threads : InsideKept(h)
  BY <1>2, <1>4, OnwardKeeps
<1>6. \A u \in Threads : Covered(u)' \/ (Pending(u)' => Pending(u) /\ ip'[u] = ip[u])
  BY <1>3
<1>7. \A h \in Threads : at[h] = "none" => at'[h] = "none"
  BY <1>1 DEF Wakes
<1> QED
  BY <1>2, <1>5, <1>6, <1>7, BoostStep

\* Only a thread that has looked at the mutex, and one that slept already, sleeps.
LEMMA NotPending ==
    ASSUME NEW t \in Threads, at'[t] \notin {"sleep", "asleep"}
    PROVE  ~Pending(t)'
BY DEF Pending

LEMMA TakeBoost ==
    ASSUME TInv, MutexInv, BoostInv, TInv', MutexInv', NEW t \in Threads, SyncStep(t),
           NEW m \in Mutexes, MayTake(t, m), Take(t, m), at'[t] \notin {"sleep", "asleep"}
    PROVE  BoostInv'
<1>1. \A x \in Mutexes : holder[x] # None => holder'[x] = holder[x]
  BY DEF Take, MayTake, TInv, TypeOK
<1>2. \A h \in Threads : prio'[h] = prio[h] /\ prio'[h] >= prio[h]
  BY DEF Take, TInv, TypeOK
<1> QED
  BY <1>1, <1>2, NotPending, BoostSync

LEMMA InheritBoost ==
    ASSUME TInv, MutexInv, BoostInv, TInv', MutexInv', NEW t \in Threads, SyncStep(t),
           NEW m \in Mutexes, m = Wanted(t), ~MayTake(t, m), Inherit(t, m), prog' = prog, ip' = ip
    PROVE  BoostInv'
<1>1. holder' = holder /\ holder[m] # None
  BY InheritIs
<1>2. PICK h \in Threads : h = holder[m]
  BY <1>1 DEF TInv, TypeOK
<1>3. /\ prio \in [Threads -> Int] /\ Base[t] \in Int /\ prio[t] >= Base[t]
      /\ prio' = [prio EXCEPT ![h] = IF prio[t] > @ THEN prio[t] ELSE @]
  BY <1>2, SyncAssumption DEF TInv, TypeOK, BoostInv, Inherit
<1>4. \A u \in Threads : prio'[u] >= prio[u] /\ (u # h => prio'[u] = prio[u])
  BY <1>3
<1>5. prio'[h] >= Base[t]
  BY <1>3
<1>6. Wanted(t)' = m
  BY SameCall
<1>7. Covered(t)'
  BY <1>1, <1>2, <1>5, <1>6 DEF Covered
<1>8. \A u \in Threads : prio'[u] = prio[u] \/ \E x \in Mutexes : holder'[x] = u
  BY <1>1, <1>2, <1>4
<1> QED
  BY <1>1, <1>4, <1>7, <1>8, BoostSync

LEMMA IdleBoost ==
    ASSUME TInv, MutexInv, BoostInv, TInv', MutexInv', NEW t \in Threads, SyncStep(t),
           holder' = holder, prio' = prio,
           at'[t] \notin {"sleep", "asleep"} \/ (Pending(t)' => Pending(t) /\ ip'[t] = ip[t])
    PROVE  BoostInv'
<1>1. \A h \in Threads : prio'[h] >= prio[h]
  BY DEF TInv, TypeOK
<1> QED
  BY <1>1, NotPending, BoostSync

LEMMA LockBoost ==
    ASSUME TInv, MutexInv, BoostInv, TInv', MutexInv', NEW t \in Threads, UNCHANGED threadVars,
           LockTry(t) \/ LockCheck(t) \/ TryLock(t)
    PROVE  BoostInv'
<1>1. TypeOK /\ SyncStep(t) /\ at \in [Threads -> Places]
  BY DEF TInv, TypeOK, SyncStep
<1>2. CASE LockTry(t)
  <2>1. Op(t) \in {"lock", "timedlock"} \cup Awaits
    BY <1>2 DEF LockTry, Calls, Inside, TInv, Fine, PlacedAt
  <2>2. PICK m \in Mutexes : m = Wanted(t)
    BY <1>1, <2>1, AtCall
  <2>3. CASE MayTake(t, m) /\ Take(t, m) /\ Return(t, After(t))
    <3>1. at'[t] = "go"
      BY <1>1, <2>3 DEF Return
    <3> QED
      BY <1>1, <2>3, <3>1, TakeBoost
  <2>4. CASE Return(t, Skip) /\ UNCHANGED mutexVars
    <3>1. at'[t] = "go"
      BY <1>1, <2>4 DEF Return
    <3> QED
      BY <1>1, <2>4, <3>1, IdleBoost DEF mutexVars
  <2>5. CASE ~MayTake(t, m) /\ Inherit(t, m) /\ Goto(t, "add")
    <3>1. ip' = ip /\ prog' = prog
      BY <1>2, <2>5 DEF Goto, LockTry
    <3> QED
      BY <1>1, <2>2, <2>5, <3>1, InheritBoost
  <2> QED
    BY <1>2, <2>2, <2>3, <2>4, <2>5 DEF LockTry
<1>3. CASE LockCheck(t)
  <2>1. Op(t) \in {"lock", "timedlock"} \cup Awaits
    BY <1>3 DEF LockCheck
  <2>2. PICK m \in Mutexes : m = Wanted(t)
    BY <1>1, <2>1, AtCall
  <2>3. CASE MayTake(t, m) /\ Take(t, m) /\ Goto(t, "out")
    <3>1. at'[t] = "out"
      BY <1>1, <2>3 DEF Goto
    <3> QED
      BY <1>1, <2>3, <3>1, TakeBoost
  <2>4. CASE ~MayTake(t, m) /\ Inherit(t, m) /\ Goto(t, "sleep")
    <3>1. ip' = ip /\ prog' = prog
      BY <1>3, <2>4 DEF Goto, LockCheck
    <3> QED
      BY <1>1, <2>2, <2>4, <3>1, InheritBoost
  <2> QED
    BY <1>3, <2>2, <2>3, <2>4 DEF LockCheck
<1>4. CASE TryLock(t)
  <2>1. PICK m \in Mutexes : m = Arg(t)
    BY <1>1, <1>4, AtCall DEF TryLock, Calls, Locks
  <2>2. CASE MayTake(t, m) /\ Take(t, m) /\ Return(t, 1)
    <3>1. at'[t] = "go"
      BY <1>1, <2>2 DEF Return
    <3> QED
      BY <1>1, <2>2, <3>1, TakeBoost
  <2>3. CASE Return(t, Skip) /\ UNCHANGED mutexVars
    <3>1. at'[t] = "go"
      BY <1>1, <2>3 DEF Return
    <3> QED
      BY <1>1, <2>3, <3>1, IdleBoost DEF mutexVars
  <2> QED
    BY <1>4, <2>1, <2>2, <2>3 DEF TryLock
<1> QED
  BY <1>2, <1>3, <1>4

LEMMA LockWaitBoost ==
    ASSUME TInv, MutexInv, BoostInv, TInv', MutexInv', NEW t \in Threads, LockWait(t)
    PROVE  BoostInv'
<1>1. TypeOK /\ SyncStep(t) /\ at \in [Threads -> Places] /\ holder' = holder /\ prio' = prio
  BY DEF TInv, TypeOK, SyncStep, LockWait, syncVars, mutexVars
<1>2. at'[t] \notin {"sleep", "asleep"} \/ (Pending(t)' => Pending(t) /\ ip'[t] = ip[t])
  <2>1. CASE Inside(t, "sleep") /\ waiting[t] /\ Goto(t, "asleep")
    <3>1. CASE t \notin finished
      <4>1. Op(t) # "waitpid"
        BY DEF LockWait, Awaits
      <4> QED
        BY <2>1, <3>1, <4>1 DEF Pending, Inside, Goto
    <3>2. CASE t \in finished
      <4>1. finished' = finished
        BY <1>1, SyncLinks DEF Wakes
      <4> QED
        BY <3>2, <4>1 DEF Pending
    <3> QED
      BY <3>1, <3>2
  <2> QED
    BY <1>1, <2>1 DEF LockWait, WaitLoop, WaitAdd, WaitPrepare, WaitSchedule, WaitAgain, WaitTimeout,
                      WaitCleanup, Goto, Return
<1> QED
  BY <1>1, <1>2, IdleBoost

\* A thread that gives a mutex back wakes those who sleep for it, and falls to its own
\* priority also for the mutexes it keeps.
LEMMA ReleaseBoost ==
    ASSUME TInv, MutexInv, BoostInv, TInv', MutexInv', NEW t \in Threads, SyncStep(t),
           NEW m \in Mutexes, holder[m] = t, Release(t, m), at'[t] \notin {"sleep", "asleep"},
           \A u \in Threads \ {t} : waiting'[u] => waiting[u] /\ u \notin Woken(ToSet(queue[m])),
           \A x \in Mutexes \ {m} : holder[x] = t => UnlockedInside(t, x)'
    PROVE  BoostInv'
<1>1. Wakes(t) /\ TypeOK /\ TypeOK'
  BY SyncLinks DEF TInv
<1>2. prog' = prog /\ finished' = finished
  BY <1>1 DEF Wakes
<1>3. /\ holder' = [holder EXCEPT ![m] = None] /\ prio' = [prio EXCEPT ![t] = Base[t]]
      /\ holder \in [Mutexes -> Threads \cup {None}] /\ prio \in [Threads -> Int]
      /\ Base \in [Threads -> Int]
  BY <1>1, SyncAssumption DEF Release, TypeOK
<1>4. /\ \A x \in Mutexes \ {m} : holder'[x] = holder[x]
      /\ prio'[t] = Base[t] /\ \A u \in Threads \ {t} : prio'[u] = prio[u]
  BY <1>3
<1>5. ASSUME NEW u \in Threads PROVE prio'[u] >= Base[u] /\ Boosted(u)'
  <2>1. CASE u = t
    BY <1>3, <1>4, <2>1 DEF Boosted
  <2>2. CASE u # t
    <3>1. prio'[u] = prio[u] /\ at'[u] = at[u]
      BY <1>1, <1>4, <2>2 DEF Wakes
    <3>2. prio[u] >= Base[u] /\ Boosted(u)
      BY DEF BoostInv
    <3>3. \A x \in Mutexes : holder[x] = u => holder'[x] = u
      BY <1>4, <2>2
    <3> QED
      BY <3>1, <3>2, <3>3 DEF Boosted
  <2> QED
    BY <2>1, <2>2
<1>6. ASSUME NEW u \in Threads PROVE Covered(u)'
  <2>0. SUFFICES ASSUME Pending(u)' PROVE Covered(u)'
    BY DEF Covered, Pending
  <2>1. u # t
    BY <2>0, NotPending
  <2>2. /\ ip'[u] = ip[u] /\ at'[u] = at[u] /\ waiting[u] /\ u \notin finished
        /\ u \notin Woken(ToSet(queue[m]))
    BY <1>1, <1>2, <2>0, <2>1 DEF Pending, Wakes
  <2>3. Op(u)' = Op(u) /\ Wanted(u)' = Wanted(u)
    BY <1>2, <2>2, SameCall
  <2>4. Pending(u)
    BY <2>0, <2>2, <2>3 DEF Pending
  <2>5. PICK x : x = Wanted(u)
    OBVIOUS
  <2>6. x \in Mutexes /\ holder[x] \in Threads /\ u \in ToSet(queue[x])
    BY <2>4, <2>5, PendingIs
  <2>7. x # m
    BY <2>2, <2>6 DEF Woken
  <2>8. PICK h \in Threads : h = holder[x]
    BY <2>6
  <2>9. holder'[x] = h /\ Wanted(u)' = x
    BY <1>4, <2>3, <2>5, <2>6, <2>7, <2>8
  <2>10. prio'[h] >= Base[u] \/ UnlockedInside(h, x)'
    <3>1. CASE h = t
      BY <2>6, <2>7, <2>8, <3>1
    <3>2. CASE h # t
      <4>1. prio'[h] = prio[h] /\ Onward(h)
        BY <1>1, <1>4, <3>2 DEF Wakes, Onward
      <4>2. InsideKept(h)
        BY <1>2, <4>1, OnwardKeeps
      <4>3. prio[h] >= Base[u] \/ UnlockedInside(h, x)
        BY <2>4, <2>5, <2>8 DEF BoostInv, Covered, Pending
      <4> QED
        BY <2>6, <2>8, <2>9, <4>1, <4>2, <4>3 DEF InsideKept
    <3> QED
      BY <3>1, <3>2
  <2> QED
    BY <2>9, <2>10 DEF Covered
<1> QED
  BY <1>5, <1>6 DEF BoostInv

LEMMA UnlockBoost ==
    ASSUME TInv, MutexInv, BoostInv, TInv', MutexInv', NEW t \in Threads, Unlock(t)
    PROVE  BoostInv'
<1>0. PICK m : m = Arg(t)
  OBVIOUS
<1>1. TypeOK /\ Owns(t) /\ SyncStep(t)
  BY DEF TInv, MutexInv, SyncStep
<1>2. Wakes(t) /\ at[t] # "none" /\ prog' = prog
  BY <1>1, SyncLinks DEF Wakes
<1>3. at[t] = "go" /\ Op(t) = "unlock" /\ Op(t) # "end" /\ at'[t] = "go" /\ ip'[t] = ip[t] + 1
  BY <1>1 DEF Unlock, Calls, Return, TypeOK, SleepTypeOK
<1>4. m \in Mutexes
  BY <1>0, <1>1, <1>3, AtCall
<1>5. /\ Good(t, prog[t]) /\ ip[t] \in 1..Len(prog[t]) /\ prog[t][ip[t]].op = "unlock"
      /\ prog[t][ip[t]].arg = m /\ ip[t] \in Nat /\ Len(prog[t]) \in Nat
  BY <1>0, <1>1, <1>3, ProgramIs, NextOpIs
<1>6. Locked(t, m) = Balance(prog[t], ip[t] - 1, m) /\ Balance(prog[t], ip[t] - 1, m) > 0
  <2>1. Locked(t, m) = Balance(prog[t], ip[t] - 1, m)
    BY <1>1, <1>3, <1>4, LockedAt
  <2>2. Balance(prog[t], ip[t] - 1, m) > 0
    BY <1>4, <1>5, BalanceOn
  <2> QED
    BY <2>1, <2>2
<1>7. holder[m] = t
  <2>1. HeldBy(t, m) = Locked(t, m)
    BY <1>1, <1>2, <1>4 DEF Owns
  <2> QED
    BY <1>6, <2>1 DEF HeldBy
<1>8. CASE Release(t, m) /\ WakeAll(t, m)
  <2>1. \A u \in Threads \ {t} : waiting'[u] => waiting[u] /\ u \notin Woken(ToSet(queue[m]))
    <3>1. waiting[t] \in BOOLEAN /\ on[t] \in BOOLEAN
      BY <1>1 DEF TypeOK, SleepTypeOK
    <3> QED
      BY <1>1, <1>8, <3>1, SettleIs DEF WakeAll
  <2>2. ASSUME NEW x \in Mutexes \ {m}, holder[x] = t PROVE UnlockedInside(t, x)'
    <3>1. holder'[x] = t /\ depth'[x] = depth[x] /\ depth[x] >= 1 /\ depth[x] \in Nat
      BY <1>1, <1>8, <2>2, SyncAssumption DEF Release, TypeOK, TInv, Counted
    <3>2. Locked(t, x)' = Balance(prog[t], ip'[t] - 1, x)
      <4>1. ip'[t] \in 1..(Len(prog[t]) + 1)
        BY <1>3, <1>5
      <4> QED
        BY <1>1, <1>2, <1>3, <4>1, LockedThen
    <3>3. Locked(t, x)' = depth'[x]
      BY <1>3, <3>1 DEF MutexInv, Owns, HeldBy
    <3>4. Balance(prog[t], ip[t], x) > 0
      <4>1. ip'[t] - 1 = ip[t]
        BY <1>3, <1>5
      <4> QED
        BY <3>1, <3>2, <3>3, <4>1
    <3>5. ip[t] \in 1..ip'[t] /\ ip[t] < ip'[t] /\ \A k \in ip[t]..(ip'[t] - 1) : k = ip[t]
      BY <1>3, <1>5
    <3>8. PICK j : j = ip[t]
      OBVIOUS
    <3>6. Drops(prog[t][j], x)'
      BY <1>2, <1>5, <3>8 DEF Drops
    <3>7. \A k \in ip[t]..(ip'[t] - 1) : Balance(prog'[t], k, x) > 0
      BY <1>2, <3>4, <3>5
    <3>9. /\ j \in 1..ip'[t] /\ j < ip'[t] /\ Drops(prog[t][j], x)'
          /\ \A k \in j..(ip'[t] - 1) : Balance(prog'[t], k, x) > 0
      BY <1>2, <3>5, <3>6, <3>7, <3>8
    <3> QED
      BY <3>9 DEF UnlockedInside
  <2> QED
    BY <1>1, <1>3, <1>4, <1>7, <1>8, <2>1, <2>2, ReleaseBoost
<1>9. CASE UNCHANGED <<holder, prio>>
  BY <1>1, <1>3, <1>9, IdleBoost
<1> QED
  BY <1>0, <1>8, <1>9 DEF Unlock

LEMMA CondWaitBoost ==
    ASSUME TInv, MutexInv, BoostInv, TInv', MutexInv', NEW t \in Threads, CondWait(t)
    PROVE  BoostInv'
<1>0. PICK m : m = Guards[Arg(t)]
  OBVIOUS
<1>1. TypeOK /\ Owns(t) /\ SyncStep(t)
  BY DEF TInv, MutexInv, SyncStep
<1>2. Wakes(t) /\ at[t] # "none" /\ prog' = prog
  BY <1>1, SyncLinks DEF Wakes
<1>3. /\ at[t] = "go" /\ Op(t) \in Awaits /\ at'[t] = "cond" /\ ip'[t] = ip[t] /\ Release(t, m)
      /\ Settle(t, TRUE, FALSE, ToSet(queue[m]))
  BY <1>0, <1>1 DEF CondWait, CondPrepare, Calls, Goto, TypeOK
<1>4. m \in Mutexes /\ m = Wanted(t)
  BY <1>0, <1>1, <1>3, AtCall DEF Wanted
<1>5. Locked(t, m) = 1
  BY <1>1, <1>2, <1>3, <1>4, LockedAt
<1>6. holder[m] = t
  <2>1. HeldBy(t, m) = Locked(t, m)
    BY <1>1, <1>2, <1>4 DEF Owns
  <2> QED
    BY <1>5, <2>1 DEF HeldBy
<1>7. \A u \in Threads \ {t} : waiting'[u] => waiting[u] /\ u \notin Woken(ToSet(queue[m]))
  BY <1>1, <1>3, SettleIs
<1>8. ASSUME NEW x \in Mutexes \ {m} PROVE UnlockedInside(t, x)'
  <2>1. PICK j : j = ip[t]
    OBVIOUS
  <2>2. j \in 1..ip'[t] /\ j..(ip'[t] - 1) = {}
    BY <1>1, <1>3, <2>1, ProgramIs
  <2>3. Op(t)' \in Awaits
    BY <1>2, <1>3, SameCall
  <2>4. prog[t][j].op \in Awaits /\ prog[t][j].arg = Arg(t)
    BY <1>1, <1>3, <2>1, NextOpIs DEF Awaits
  <2>5. Drops(prog[t][j], x)'
    BY <1>0, <1>2, <1>8, <2>4 DEF Drops
  <2> QED
    BY <2>2, <2>3, <2>5 DEF UnlockedInside
<1> QED
  BY <1>1, <1>3, <1>4, <1>6, <1>7, <1>8, ReleaseBoost

LEMMA SyncBoost ==
    ASSUME TInv, MutexInv, BoostInv, TInv', MutexInv', NEW t \in Threads, SyncStep(t),
           UNCHANGED threadVars
    PROVE  BoostInv'
<1>1. TypeOK /\ at \in [Threads -> Places] /\ Fine(t)
  BY DEF TInv, TypeOK
<1>2. CASE LockTry(t) \/ LockCheck(t) \/ TryLock(t)
  BY <1>2, LockBoost
<1>3. CASE LockWait(t)
  BY <1>3, LockWaitBoost
<1>4. CASE Unlock(t)
  BY <1>4, UnlockBoost
<1>5. CASE CondWait(t)
  BY <1>5, CondWaitBoost
<1>6. CASE \/ AwaitDone(t) \/ CondTimeout(t) \/ CondWoken(t) \/ Happen(t) \/ Signal(t)
           \/ BarrierWait(t) \/ BarrierWoken(t) \/ RwUp(t) \/ RwDown(t)
  <2>1. holder' = holder /\ prio' = prio
    BY <1>6 DEF AwaitDone, CondTimeout, CondWoken, Happen, Signal, BarrierWait, BarrierWoken, RwUp,
                RwDown, syncVars, mutexVars
  <2>2. at'[t] \notin {"sleep", "asleep"}
    BY <1>1, <1>6 DEF AwaitDone, CondTimeout, CondWoken, Happen, Signal, BarrierWait, BarrierWoken, RwUp,
                RwDown, WaitCleanup, Goto, Return
  <2> QED
    BY <2>1, <2>2, IdleBoost
<1> QED
  BY <1>2, <1>3, <1>4, <1>5, <1>6 DEF SyncStep

\* What a step of a thread does to where the threads are, creations apart.
Stays(u) ==
    /\ ip'[u] = ip[u] /\ (at'[u] = at[u] \/ (at'[u] = "none" /\ u \in exited'))
    /\ waiting'[u] => waiting[u]
Lives(t) ==
    /\ prog' = prog /\ finished \subseteq finished' /\ at[t] # "none" /\ at'[t] # "none"
    /\ at'[t] \in {"sleep", "asleep"} => Op(t)' = "waitpid"
    /\ \A u \in Threads \ {t} : Stays(u)

LEMMA DeleteLives ==
    ASSUME TInv, NEW t \in Threads, on[t], at[t] # "none", NEW D, D \subseteq Threads,
           Fresh(D) \subseteq exited', exited \subseteq exited',
           NEW where \in Places \ {"none"}, where \notin {"sleep", "asleep"},
           NEW n \in Nat, n \in {0, 1}, Delete(t, D, where, n), n = 1 => where = "go", prog' = prog, finished \subseteq finished',
           \A u \in Threads \ {t} : waiting'[u] => waiting[u]
    PROVE  Lives(t) /\ Onward(t)
<1>2. /\ at'[t] = where /\ ip'[t] = ip[t] + n
      /\ \A u \in Threads \ {t} : at'[u] = at[u] \/ (at'[u] = "none" /\ u \in exited')
      /\ \A u \in Threads \ {t} : ip'[u] = ip[u]
  BY DeleteIs
<1>3. ip[t] \in Nat
  BY DEF TInv, TypeOK, SleepTypeOK
<1> QED
  BY <1>2, <1>3 DEF Lives, Stays, Onward

LEMMA ReapLives ==
    ASSUME TInv, NEW t \in Threads,
           Join(t) \/ JoinWoken(t) \/ Detach(t)
             \/ (Collect(t) /\ UNCHANGED <<prog, finished, exited>>)
    PROVE  Lives(t) /\ Onward(t)
<1>1. TypeOK /\ Fine(t) /\ Ended
  BY DEF TInv
<1>2. prog' = prog /\ exited' = exited /\ finished' = finished /\ on[t] /\ at[t] # "none"
      /\ Op(t) \in {"join", "detach", "waitpid"}
  BY <1>1 DEF Join, JoinWoken, Detach, Collect, Calls, Inside, Fine, PlacedAt
<1>3. Arg(t) \in Threads
  BY <1>1, <1>2, AtCall, ThreadAssumption
<1>8. \A u \in Threads \ {t} : waiting'[u] => waiting[u]
  <2>1. CASE waiting' = waiting
    BY <2>1
  <2>2. CASE Settle(t, FALSE, TRUE, {})
    BY <1>1, <2>2, SettleIs
  <2> QED
    BY <2>1, <2>2 DEF Join, JoinWoken, Detach, Collect
<1>4. ASSUME NEW D, D \subseteq Threads, Fresh(D) \subseteq exited,
             NEW where \in {"go", "out"}, NEW n \in {0, 1}, n = 1 => where = "go", Delete(t, D, where, n)
      PROVE  Lives(t) /\ Onward(t)
  <2>1. where \in Places \ {"none"} /\ where \notin {"sleep", "asleep"} /\ n \in Nat
    BY DEF Places
  <2> QED
    BY <1>2, <1>4, <1>8, <2>1, DeleteLives
<1>5. CASE Join(t) \/ JoinWoken(t)
  <2>1. Delete(t, {Arg(t)}, "go", 1) /\ (InPool(Arg(t)) \/ Arg(t) \in exited)
    BY <1>5 DEF Join, JoinWoken
  <2>2. Fresh({Arg(t)}) \subseteq exited
    BY <2>1 DEF Fresh
  <2> QED
    BY <1>3, <1>4, <2>1, <2>2
<1>6. CASE Detach(t)
  <2>1. Delete(t, DetachDeletes(Arg(t)), "go", 1)
    BY <1>6 DEF Detach
  <2>2. Fresh(DetachDeletes(Arg(t))) \subseteq exited /\ DetachDeletes(Arg(t)) \subseteq Threads
    BY <1>3 DEF Fresh, DetachDeletes
  <2> QED
    BY <1>4, <2>1, <2>2
<1>7. CASE Collect(t)
  <2>1. status /\ {Main} \subseteq Threads /\ Fresh({Main}) \subseteq exited
    BY <1>1, <1>7, ThreadAssumption DEF Collect, Fresh, Ended
  <2> QED
    BY <1>4, <1>7, <2>1 DEF Collect
<1> QED
  BY <1>5, <1>6, <1>7

LEMMA ExitLives ==
    ASSUME TInv, NEW t \in Threads, Exit(t) \/ (t = Main /\ TaskExit)
    PROVE  Lives(t) /\ Onward(t)
<1>1. TypeOK /\ Ended
  BY DEF TInv
<1>2. CASE Exit(t)
  <2> DEFINE D == {t} \cap detached
  <2>1. /\ on[t] /\ at[t] # "none" /\ prog' = prog /\ exited' = exited \cup {t}
        /\ finished' = finished \cup {t} /\ Delete(t, D, "gone", 0) /\ Settle(t, TRUE, FALSE, Joiners(t))
    BY <1>2 DEF Exit, Calls
  <2>2. /\ D \subseteq Threads /\ Fresh(D) \subseteq exited' /\ exited \subseteq exited'
        /\ "gone" \in Places \ {"none"} /\ 0 \in Nat
    BY <1>1, <2>1 DEF Fresh, Places, Ended
  <2>3. \A u \in Threads \ {t} : waiting'[u] => waiting[u]
    BY <1>1, <2>1, SettleIs
  <2> HIDE DEF D
  <2> QED
    BY <2>1, <2>2, <2>3, DeleteLives
<1>3. CASE t = Main /\ TaskExit
  <2> DEFINE D == {u \in Threads \ {Main, Parent} : ~InPool(u) /\ u \notin deleted}
  <2>1. /\ on[t] /\ at[t] # "none" /\ prog' = prog /\ exited' = exited \cup D \cup {Main}
        /\ finished' = finished \cup D \cup {Main} /\ Delete(t, D, "leaving", 0)
        /\ \A u \in Threads \ {t} : waiting'[u] => waiting[u]
    BY <1>3 DEF TaskExit, Calls
  <2>2. /\ D \subseteq Threads /\ Fresh(D) \subseteq exited' /\ exited \subseteq exited'
        /\ "leaving" \in Places \ {"none"} /\ 0 \in Nat
    BY <1>1, <2>1 DEF Fresh, Places, Ended
  <2> HIDE DEF D
  <2> QED
    BY <2>1, <2>2, DeleteLives
<1> QED
  BY <1>2, <1>3

LEMMA OtherLives ==
    ASSUME TInv, NEW t \in Threads,
           CreateFails(t) \/ Launch(t) \/ Begin(t) \/ JoinWait(t) \/ (t = Main /\ TaskLeave)
             \/ (WaitPid(t) /\ ~(Collect(t) /\ UNCHANGED <<prog, finished, queue, exited, detached>>))
    PROVE  Lives(t) /\ (~CreateFails(t) => Onward(t))
<1>1. TypeOK /\ Fine(t) /\ at \in [Threads -> Places] /\ ip \in [Threads -> Nat]
  BY DEF TInv, TypeOK, SleepTypeOK
<1>2. CASE JoinWait(t)
  <2>1. /\ Goto(t, "join") /\ prog' = prog /\ finished' = finished /\ at[t] # "none"
        /\ Settle(t, TRUE, FALSE, {})
    BY <1>2 DEF JoinWait, Calls
  <2>2. ip' = ip /\ at'[t] = "join" /\ \A u \in Threads \ {t} : at'[u] = at[u]
    BY <1>1, <2>1 DEF Goto
  <2>3. \A u \in Threads \ {t} : waiting'[u] => waiting[u]
    BY <1>1, <2>1, SettleIs
  <2> QED
    BY <2>1, <2>2, <2>3 DEF Lives, Stays, Onward
<1>3. ASSUME ~JoinWait(t), at'[t] \in {"sleep", "asleep"} => Op(t)' = "waitpid" PROVE Lives(t)
  BY <1>3, OtherLinks DEF Wakes, Lives, Stays
<1>4. CASE Return(t, 1) \/ CreateFails(t)
  BY <1>1, <1>2, <1>3, <1>4 DEF Return, CreateFails, Onward
<1>5. CASE Begin(t) \/ (t = Main /\ TaskLeave)
  BY <1>1, <1>2, <1>3, <1>5 DEF Begin, TaskLeave, Goto, Onward
<1>6. CASE WaitPid(t) /\ ~(Collect(t) /\ UNCHANGED <<prog, finished, queue, exited, detached>>)
  <2>1. /\ Op(t) = "waitpid" /\ ~JoinWait(t)
        /\ \/ Goto(t, "add")
           \/ Goto(t, "sleep")
           \/ WaitLoop(t, Children)
           \/ Return(t, 1)
    BY <1>6 DEF WaitPid, WaitCleanup, JoinWait, Calls
  <2>2. CASE Return(t, 1)
    BY <1>4, <2>2
  <2>3. CASE ~Return(t, 1)
    <3>1. ip' = ip
      BY <1>1, <2>1, <2>3, LoopPlaces DEF Goto
    <3>2. Op(t)' = "waitpid"
      BY <2>1, <3>1, SameCall, OtherLinks, <1>6 DEF Wakes
    <3> QED
      BY <1>3, <2>1, <3>1, <3>2 DEF Onward
  <2> QED
    BY <2>2, <2>3
<1> QED
  BY <1>2, <1>4, <1>5, <1>6 DEF Launch

LEMMA ThreadLives ==
    ASSUME TInv, NEW t \in Threads, ThreadStep(t), ~Create(t), ~NewTask(t)
    PROVE  Lives(t) /\ (~CreateFails(t) => Onward(t))
<1>1. CASE Exit(t) \/ (t = Main /\ TaskExit)
  BY <1>1, ExitLives
<1>2. CASE Join(t) \/ JoinWoken(t) \/ Detach(t)
  BY <1>2, ReapLives
<1>3. CASE WaitPid(t)
  BY <1>3, ReapLives, OtherLives
<1>4. CASE CreateFails(t) \/ Launch(t) \/ Begin(t) \/ JoinWait(t) \/ (t = Main /\ TaskLeave)
  BY <1>4, OtherLives
<1> QED
  BY <1>1, <1>2, <1>3, <1>4 DEF ThreadStep

LEMMA LivesBoost ==
    ASSUME TInv, MutexInv, BoostInv, TInv', MutexInv', NEW t \in Threads, ThreadStep(t), Renewed,
           ~Create(t), ~NewTask(t), holder' = holder
    PROVE  BoostInv'
<1>1. Lives(t) /\ (~CreateFails(t) => Onward(t)) /\ TypeOK
  BY ThreadLives DEF TInv
<1>2. prog' = prog /\ prio' \in [Threads -> Int]
  BY <1>1 DEF Lives, TInv, TypeOK
<1>3. InsideKept(t)
  <2>1. CASE CreateFails(t)
    <3>1. at[t] = "go" /\ Op(t) \in {"create", "new_task"} /\ Op(t) # "end"
      BY <2>1 DEF CreateFails, Calls
    <3>2. Good(t, prog[t]) /\ ip[t] \in 1..Len(prog[t]) /\ prog[t][ip[t]].op = Op(t)
      BY <1>1, <3>1, ProgramIs, NextOpIs
    <3>3. ASSUME NEW m \in Mutexes PROVE holder[m] # t
      <4>1. Balance(prog[t], ip[t] - 1, m) = 0
        BY <3>1, <3>2, BalanceOn
      <4>2. Locked(t, m) = 0
        BY <1>1, <3>1, <4>1, LockedAt
      <4>3. HeldBy(t, m) = 0
        BY <3>1, <4>2 DEF MutexInv, Owns
      <4>4. holder[m] = t => depth[m] >= 1
        BY SyncAssumption DEF TInv, Counted
      <4> QED
        BY <4>3, <4>4 DEF HeldBy
    <3> QED
      BY <3>3 DEF InsideKept
  <2>2. CASE Onward(t)
    BY <1>2, <2>2, OnwardKeeps
  <2> QED
    BY <1>1, <2>1, <2>2
<1>4. ASSUME NEW u \in Threads \ {t} PROVE InsideKept(u)
  <2>1. Onward(u)
    BY <1>1 DEF Lives, Stays, Onward
  <2> QED
    BY <1>2, <2>1, OnwardKeeps
<1>5. \A u \in Threads : at'[u] = "new" => at[u] = "new"
  BY <1>1, NoneNew
<1>6. \A u \in Threads : prio'[u] = prio[u] /\ (at[u] = "none" => at'[u] = "none")
  <2>1. \A u \in Threads : InPool(u) /\ at'[u] = "new" => FALSE
    BY <1>5 DEF InPool
  <2> QED
    BY <1>1, <2>1 DEF Renewed, Lives, Stays
<1>7. \A u \in Threads : prio'[u] >= prio[u]
  BY <1>6 DEF TInv, TypeOK
<1>8. ASSUME NEW u \in Threads PROVE Pending(u)' => Pending(u) /\ ip'[u] = ip[u]
  <2>1. CASE u = t
    BY <1>1, <2>1 DEF Pending, Lives
  <2>2. CASE u # t
    <3>1. Stays(u)
      BY <1>1, <2>2 DEF Lives
    <3>2. Op(u)' = Op(u)
      BY <1>2, <3>1, SameCall DEF Stays
    <3> QED
      BY <1>1, <3>1, <3>2 DEF Pending, Stays, Lives
  <2> QED
    BY <2>1, <2>2
<1>9. \A u \in Threads : InsideKept(u)
  BY <1>3, <1>4
<1> QED
  BY <1>2, <1>6, <1>7, <1>8, <1>9, BoostStep

LEMMA CreateBoost ==
    ASSUME TInv, MutexInv, BoostInv, TInv', MutexInv', NEW t \in Threads, Create(t) \/ NewTask(t),
           Renewed, holder' = holder
    PROVE  BoostInv'
<1>0. PICK v : v = Arg(t)
  OBVIOUS
<1>1. TypeOK /\ prog' = prog /\ prio' \in [Threads -> Int]
  BY DEF TInv, Create, NewTask, TypeOK
<1>2. /\ Op(t) \in {"create", "new_task"} /\ at[v] = "none" /\ Initialised(t, v) /\ at[t] = "go"
      /\ \E w \in BOOLEAN : waiting' = [waiting EXCEPT ![v] = w]
  BY <1>0 DEF Create, NewTask, Calls, InPool
<1>3. v \in Threads /\ v # t
  BY <1>0, <1>1, <1>2, AtCall, ThreadAssumption
<1>4. /\ at'[v] = "new" /\ at'[t] = "go" /\ ip'[t] = ip[t] + 1 /\ finished' = finished \ {v}
      /\ \A u \in Threads \ {v} : at'[u] = at[u] /\ waiting'[u] = waiting[u]
      /\ \A u \in Threads \ {t, v} : ip'[u] = ip[u]
  BY <1>1, <1>2, <1>3 DEF Initialised, TypeOK, SleepTypeOK
<1>5. ASSUME NEW u \in Threads PROVE InsideKept(u)
  <2>1. CASE u = v
    BY <1>2, <2>1 DEF InsideKept, MutexInv, Owns
  <2>2. CASE u # v
    <3>1. Onward(u)
      BY <1>4, <2>2 DEF Onward
    <3> QED
      BY <1>1, <3>1, OnwardKeeps
  <2> QED
    BY <2>1, <2>2
<1>6. \A u \in Threads : \/ u = v /\ prio'[u] = Base[u]
                         \/ u # v /\ prio'[u] = prio[u] /\ (at[u] = "none" => at'[u] = "none")
  BY <1>2, <1>3, <1>4 DEF Renewed, InPool
<1>7. \A u \in Threads : at[u] # "none" => prio'[u] >= prio[u]
  BY <1>1, <1>2, <1>6 DEF TypeOK
<1>8. ASSUME NEW u \in Threads PROVE Pending(u)' => Pending(u) /\ ip'[u] = ip[u]
  <2>1. CASE u = v \/ u = t
    BY <1>4, <2>1 DEF Pending
  <2>2. CASE u # v /\ u # t
    <3>1. Op(u)' = Op(u)
      BY <1>1, <1>4, <2>2, SameCall
    <3> QED
      BY <1>4, <2>2, <3>1 DEF Pending
  <2> QED
    BY <2>1, <2>2
<1> QED
  BY <1>1, <1>5, <1>6, <1>7, <1>8, BoostStep

LEMMA NextBoost ==
    ASSUME TInv, MutexInv, BoostInv, TInv', MutexInv', [Next]_vars
    PROVE  BoostInv'
<1>1. ASSUME NEW t \in Threads, Step(t) PROVE BoostInv'
  <2>1. CASE SyncStep(t) /\ UNCHANGED threadVars
    BY <2>1, SyncBoost
  <2>2. CASE ThreadStep(t) /\ Renewed /\ holder' = holder
    BY <2>2, LivesBoost, CreateBoost
  <2> QED
    BY <1>1, <2>1, <2>2 DEF Step
<1>2. ASSUME UNCHANGED vars PROVE BoostInv'
  <2>1. /\ prog' = prog /\ ip' = ip /\ at' = at /\ finished' = finished /\ waiting' = waiting
        /\ holder' = holder /\ prio' = prio
    BY <1>2 DEF vars, sleepVars, syncVars, mutexVars
  <2>2. \A u \in Threads : InsideKept(u)
    BY <2>1, OnwardKeeps DEF Onward
  <2>3. \A u \in Threads : prio'[u] >= prio[u]
    BY <2>1 DEF TInv, TypeOK
  <2>4. \A u \in Threads : Op(u)' = Op(u)
    BY <2>1, SameCall
  <2>5. \A u \in Threads : Pending(u)' => Pending(u)
    BY <2>1, <2>4 DEF Pending
  <2>6. prio' \in [Threads -> Int]
    BY DEF TInv, TypeOK
  <2> QED
    BY <2>1, <2>2, <2>3, <2>5, <2>6, BoostStep
<1> QED
  BY <1>1, <1>2 DEF Next, Over

LEMMA InitBoost == Init => BoostInv
<1> SUFFICES ASSUME Init, NEW t \in Threads PROVE prio[t] >= Base[t] /\ Boosted(t) /\ Covered(t)
  BY DEF BoostInv
<1>1. prio = Base /\ Base[t] \in Int /\ at[t] \notin {"sleep", "asleep"}
  BY SyncAssumption DEF Init
<1> QED
  BY <1>1 DEF Boosted, Covered

\* In every program that keeps to the rules of the calls, and whose task exits with
\* its threads at rest: who sleeps for a mutex has lent its base priority to the
\* holder (mutex_priority_inherit()), unless the holder has since given another
\* mutex back, which mutex_priority_uninherit() answers by the base priority; and
\* a thread that holds no mutex is back at its own priority.
THEOREM BoostCoversSleepersHolds == Spec /\ []Undisturbed => []BoostCoversSleepers
<1>1. Init => BoostInv
  BY InitBoost
<1>2. TInv /\ MutexInv /\ BoostInv /\ TInv' /\ MutexInv' /\ [Next]_vars => BoostInv'
  BY NextBoost
<1>3. BoostInv => BoostCoversSleepers
  <2> SUFFICES ASSUME BoostInv PROVE BoostCoversSleepers
    OBVIOUS
  <2>1. \A t \in Threads : Sleeps(t) /\ at[t] = "asleep" /\ Op(t) # "waitpid" =>
            LET h == holder[Wanted(t)] IN prio[h] >= Base[t] \/ UnlockedInside(h, Wanted(t))
    BY DEF BoostInv, Covered, Sleeps, Live
  <2>2. \A t \in Live : prio[t] # Base[t] => \E m \in Mutexes : holder[m] = t
    BY DEF BoostInv, Boosted, Live
  <2> QED
    BY <2>1, <2>2 DEF BoostCoversSleepers
<1> QED
  BY <1>1, <1>2, <1>3, ThreadsInv, MutexesInv, PTL DEF Spec

-----------------------------------------------------------------------------
(* No thread is forgotten.                                                   *)

\* The calls of Main after which it has not given u up, if it had not before.
Forward(u) ==
    \/ ip'[Main] = ip[Main]
    \/ ip'[Main] = ip[Main] + 1 /\ ~(Op(Main) \in {"detach", "join"} /\ Arg(Main) = u)
    \/ ip'[Main] = ip[Main] + 2 /\ Op(Main) \in Locks /\ MayFail(prog[Main][ip[Main]])
    \/ ip'[Main] = Len(prog[Main]) + 1

LEMMA GivenUpStays ==
    ASSUME TypeOK, prog' = prog, NEW u \in Threads, Forward(u), GivenUp(u)'
    PROVE  GivenUp(u)
<1>1. /\ Main \in Threads /\ ip[Main] \in 1..(Len(prog[Main]) + 1) /\ Len(prog[Main]) \in Nat
      /\ ip[Main] \in Nat
  BY AtCall, ThreadAssumption
<1>2. ~(ip'[Main] > Len(prog[Main]))
  BY DEF GivenUp, AtEnd
<1>3. PICK i \in 1..(ip'[Main] - 1) :
        /\ prog[Main][i].op \in {"detach", "join"} /\ prog[Main][i].arg = u
        /\ \A j \in (i + 1)..(ip'[Main] - 1) : prog[Main][j] # [op |-> "create", arg |-> u]
  BY DEF GivenUp
<1>4. ip'[Main] \in Nat /\ ip'[Main] >= ip[Main]
  BY <1>1 DEF Forward
<1>5. ~AtEnd(Main)
  BY <1>1, <1>2, <1>4 DEF AtEnd
<1>6. i \in 1..(ip[Main] - 1)
  <2>1. CASE ip'[Main] = ip[Main]
    BY <1>3, <2>1
  <2>2. CASE ip'[Main] = ip[Main] + 1 /\ ~(Op(Main) \in {"detach", "join"} /\ Arg(Main) = u)
    <3>1. Op(Main) = prog[Main][ip[Main]].op /\ Arg(Main) = prog[Main][ip[Main]].arg
      BY <1>5 DEF Op, Arg
    <3>2. i # ip[Main]
      BY <1>3, <2>2, <3>1
    <3> QED
      BY <1>1, <2>2, <3>2
  <2>3. CASE ip'[Main] = ip[Main] + 2 /\ Op(Main) \in Locks /\ MayFail(prog[Main][ip[Main]])
    <3>1. /\ prog[Main][ip[Main]].op \in Locks /\ Op(Main) # "end"
      BY <1>5, <2>3 DEF Op, Locks
    <3>2. prog[Main][ip[Main]].arg \in Mutexes
      BY <1>1, <2>3, <3>1, AtCall
    <3>3. prog[Main][ip[Main] + 1].arg = prog[Main][ip[Main]].arg
      <4>1. ip[Main] \in DOMAIN prog[Main] /\ Pairs(prog[Main])
        BY <1>1, <1>5, ProgramIs DEF AtEnd, Good
      <4> QED
        BY <2>3, <4>1 DEF Pairs
    <3>4. u \notin Mutexes
      BY SyncAssumption, ProgramAssumption
    <3>5. i # ip[Main] /\ i # ip[Main] + 1
      BY <1>3, <3>2, <3>3, <3>4
    <3> QED
      BY <1>1, <2>3, <3>5
  <2> QED
    BY <1>1, <1>2, <2>1, <2>2, <2>3 DEF Forward
<1>7. \A j \in (i + 1)..(ip[Main] - 1) : j \in (i + 1)..(ip'[Main] - 1)
  BY <1>1, <1>4
<1> QED
  BY <1>3, <1>5, <1>6, <1>7 DEF GivenUp

\* What a thread has to do with Main giving others up.
LEMMA OnwardForward ==
    ASSUME TypeOK, NEW t \in Threads, NEW u \in Threads, prog' = prog,
           \A v \in Threads \ {t} : ip'[v] = ip[v],
           Onward(t), ~(Op(t) \in {"detach", "join"} /\ Arg(t) = u /\ ip'[t] = ip[t] + 1)
    PROVE  Forward(u)
BY ThreadAssumption DEF Onward, Forward

LEMMA LeakQuiet ==
    ASSUME TypeOK, LeakInv, prog' = prog, UNCHANGED <<exited, detached, deleted, zombies>>,
           \A u \in Threads : at'[u] = "none" <=> at[u] = "none",
           \A u \in Threads \ {Main, Parent} : Forward(u)
    PROVE  LeakInv'
<1>1. deleted \subseteq Threads /\ exited \subseteq Threads
  BY DEF TypeOK
<1>2. \A u \in Threads : Reclaimed(u)' <=> Reclaimed(u)
  BY DEF Reclaimed
<1>3. \A u : OfMain(u)' <=> OfMain(u)
  BY DEF OfMain
<1>4. \A u \in Threads \ {Main, Parent} : GivenUp(u)' => GivenUp(u)
  BY GivenUpStays
<1>5. \A u \in deleted' : at'[u] # "none" => u \in zombies'
  BY <1>1 DEF LeakInv
<1>6. \A u \in (exited' \cap detached') \ {Main} : Reclaimed(u)'
  BY <1>1, <1>2 DEF LeakInv
<1>7. ASSUME NEW u \in Threads \ {Main, Parent}, OfMain(u)'
      PROVE  (GivenUp(u)' => Reclaimed(u)' \/ u \in detached') /\ (Main \in exited' => Reclaimed(u)')
  BY <1>2, <1>3, <1>4, <1>7 DEF LeakInv
<1> QED
  BY <1>5, <1>6, <1>7 DEF LeakInv

\* What thread_delete() is given is reclaimed, and nothing else is lost.
LEMMA DeleteReclaims ==
    ASSUME TypeOK, LeakInv, NEW t \in Threads, at[t] # "none", NEW D, D \subseteq Threads,
           NEW where \in Places \ {"none"}, NEW n, Delete(t, D, where, n)
    PROVE  /\ \A u \in Threads : Reclaimed(u) \/ u \in D => Reclaimed(u)'
           /\ \A u \in deleted' : at'[u] # "none" => u \in zombies'
<1>1. ASSUME NEW u \in Threads, at[u] = "none" PROVE at'[u] = "none"
  BY <1>1 DEF Delete
<1>2. ASSUME NEW u \in D PROVE at[u] = "none" \/ u \in deleted'
  BY DEF Delete, Fresh, InPool
<1>3. ASSUME NEW u \in deleted', at'[u] # "none" PROVE u \in zombies'
  <2>1. deleted' = deleted \cup Fresh(D) /\ zombies' = (zombies \ Swept(D)) \cup Parked(t, D)
    BY DEF Delete
  <2>2. u \in Threads
    BY <2>1 DEF TypeOK, Fresh
  <2>3. u \notin Freed(t, D)
    BY <1>3, <2>2 DEF Delete
  <2>4. CASE u \in Fresh(D)
    BY <2>1, <2>3, <2>4 DEF Freed
  <2>5. CASE u \in deleted
    <3>1. at[u] # "none"
      BY <1>1, <1>3, <2>2
    <3> QED
      BY <2>1, <2>3, <2>5, <3>1 DEF LeakInv, Freed
  <2> QED
    BY <1>3, <2>1, <2>4, <2>5
<1>4. deleted \subseteq deleted'
  BY DEF Delete
<1> QED
  BY <1>1, <1>2, <1>3, <1>4 DEF Reclaimed

LEMMA DeleteLeak ==
    ASSUME TInv, TInv', LeakInv, NEW t \in Threads, Lives(t), NEW D, D \subseteq Threads,
           NEW where \in Places \ {"none"}, NEW n, Delete(t, D, where, n),
           \A u \in (exited' \cap detached') \ {Main} : Reclaimed(u) \/ u \in D,
           detached \subseteq detached',
           \A u \in Threads \ {Main, Parent} : Forward(u) \/ Reclaimed(u) \/ u \in D \/ u \in detached',
           \/ Main \in exited' => Main \in exited
           \/ \A u \in Threads \ {Main, Parent} : Reclaimed(u) \/ u \in D
    PROVE  LeakInv'
<1>1. TypeOK /\ prog' = prog /\ at[t] # "none"
  BY DEF TInv, Lives
<1>2. /\ \A u \in Threads : Reclaimed(u) \/ u \in D => Reclaimed(u)'
      /\ \A u \in deleted' : at'[u] # "none" => u \in zombies'
  BY <1>1, DeleteReclaims
<1>3. \A u : OfMain(u)' <=> OfMain(u)
  BY <1>1 DEF OfMain
<1>4. \A u \in (exited' \cap detached') \ {Main} : Reclaimed(u)'
  <2>1. exited' \subseteq Threads
    BY DEF TInv, TypeOK
  <2> QED
    BY <1>2, <2>1
<1>5. ASSUME NEW u \in Threads \ {Main, Parent}, OfMain(u)'
      PROVE  (GivenUp(u)' => Reclaimed(u)' \/ u \in detached') /\ (Main \in exited' => Reclaimed(u)')
  <2>1. OfMain(u)
    BY <1>3, <1>5
  <2>2. GivenUp(u) => Reclaimed(u) \/ u \in detached
    BY <2>1 DEF LeakInv
  <2>3. Main \in exited => Reclaimed(u)
    BY <2>1 DEF LeakInv
  <2>4. Forward(u) => (GivenUp(u)' => GivenUp(u))
    BY <1>1, GivenUpStays
  <2> QED
    BY <1>2, <2>2, <2>3, <2>4
<1> QED
  BY <1>2, <1>4, <1>5 DEF LeakInv

LEMMA LeakWakes ==
    ASSUME TInv, LeakInv, NEW t \in Threads, Lives(t), Onward(t) \/ CreateFails(t),
           UNCHANGED <<exited, detached, deleted, zombies>>,
           \A u \in Threads \ {t} : at'[u] = at[u],
           Op(t) \in {"detach", "join"} => ip'[t] = ip[t]
    PROVE  LeakInv'
<1>1. TypeOK /\ prog' = prog /\ ip[t] \in Nat /\ \A v \in Threads \ {t} : ip'[v] = ip[v]
  BY DEF TInv, TypeOK, SleepTypeOK, Lives, Stays
<1>2. \A u \in Threads : at'[u] = "none" <=> at[u] = "none"
  BY DEF Lives
<1>3. ASSUME NEW u \in Threads PROVE Forward(u)
  <2>1. CASE Onward(t)
    BY <1>1, <2>1, OnwardForward
  <2>2. CASE CreateFails(t)
    <3>1. ip'[t] = ip[t] + (Len(prog[t]) + 1 - ip[t]) /\ Len(prog[t]) \in Nat
      BY <1>1, <2>2, ProgramIs DEF CreateFails, Return, TypeOK, SleepTypeOK
    <3>2. ip'[t] = Len(prog[t]) + 1
      BY <1>1, <3>1
    <3> QED
      BY <1>1, <3>2, ThreadAssumption DEF Forward
  <2> QED
    BY <2>1, <2>2
<1> QED
  BY <1>1, <1>2, <1>3, LeakQuiet

LEMMA SyncLeak ==
    ASSUME TInv, LeakInv, NEW t \in Threads, SyncStep(t), UNCHANGED threadVars
    PROVE  LeakInv'
<1>1. TypeOK /\ Wakes(t) /\ Onward(t)
  BY SyncLinks, SyncOnward DEF TInv
<1>2. prog' = prog /\ \A v \in Threads \ {t} : ip'[v] = ip[v] /\ at'[v] = at[v]
  BY <1>1 DEF Wakes
<1>3. at[t] # "none" /\ at'[t] # "none"
  BY <1>1 DEF Wakes
<1>4. Op(t) \notin {"detach", "join"}
  BY DEF SyncStep, LockTry, LockCheck, LockWait, TryLock, Unlock, AwaitDone, CondWait, CondTimeout,
         CondWoken, Happen, Signal, BarrierWait, BarrierWoken, RwUp, RwDown, Calls, Inside, Awaits,
         TInv, Fine, PlacedAt
<1>5. \A u \in Threads : Forward(u)
  BY <1>1, <1>2, <1>4, OnwardForward
<1>6. \A u \in Threads : at'[u] = "none" <=> at[u] = "none"
  BY <1>2, <1>3
<1> QED
  BY <1>1, <1>2, <1>5, <1>6, LeakQuiet DEF threadVars

LEMMA OtherLeak ==
    ASSUME TInv, LeakInv, NEW t \in Threads,
           CreateFails(t) \/ Launch(t) \/ Begin(t) \/ JoinWait(t) \/ (t = Main /\ TaskLeave)
             \/ (WaitPid(t) /\ ~(Collect(t) /\ UNCHANGED <<prog, finished, queue, exited, detached>>))
    PROVE  LeakInv'
<1>1. Lives(t) /\ (~CreateFails(t) => Onward(t)) /\ TypeOK
  BY OtherLives DEF TInv
<1>2. CASE JoinWait(t)
  BY <1>1, <1>2, LeakWakes DEF JoinWait, Goto, CreateFails, TypeOK
<1>3. CASE ~JoinWait(t)
  <2>1. Wakes(t) /\ UNCHANGED threadVars
    BY <1>3, OtherLinks
  <2>2. \A u \in Threads \ {t} : at'[u] = at[u]
    BY <2>1 DEF Wakes
  <2>3. Op(t) \in {"detach", "join"} => ip'[t] = ip[t]
    BY <1>3 DEF CreateFails, Launch, Begin, TaskLeave, WaitPid, Calls, Goto
  <2> QED
    BY <1>1, <2>1, <2>2, <2>3, LeakWakes DEF threadVars
<1> QED
  BY <1>2, <1>3

LEMMA ReapLeak ==
    ASSUME TInv, TInv', LeakInv, NEW t \in Threads,
           Join(t) \/ JoinWoken(t) \/ Detach(t)
             \/ (Collect(t) /\ UNCHANGED <<prog, finished, exited, detached>>)
    PROVE  LeakInv'
<1>1. TypeOK /\ Fine(t) /\ Ended /\ Lives(t) /\ Onward(t)
  BY ReapLives DEF TInv
<1>2. prog' = prog /\ exited' = exited /\ Op(t) \in {"join", "detach", "waitpid"}
      /\ \A v \in Threads \ {t} : ip'[v] = ip[v]
  BY <1>1 DEF Join, JoinWoken, Detach, Collect, Calls, Inside, Fine, PlacedAt, Lives, Stays
<1>3. PICK x : x = Arg(t)
  OBVIOUS
<1>4. x \in Threads
  BY <1>1, <1>2, <1>3, AtCall, ThreadAssumption
<1>5. \A u \in Threads : Forward(u) \/ (Op(t) \in {"detach", "join"} /\ u = x)
  BY <1>1, <1>2, <1>3, OnwardForward
<1>6. "go" \in Places \ {"none"} /\ "out" \in Places \ {"none"}
  BY DEF Places
<1>7. \A u \in (exited \cap detached) \ {Main} : Reclaimed(u)
  BY DEF LeakInv
<1>8. CASE Join(t) \/ JoinWoken(t)
  <2>1. Delete(t, {x}, "go", 1) /\ detached' = detached /\ {x} \subseteq Threads
    BY <1>3, <1>4, <1>8 DEF Join, JoinWoken
  <2> QED
    BY <1>1, <1>2, <1>5, <1>6, <1>7, <2>1, DeleteLeak
<1>9. CASE Detach(t)
  <2>1. /\ Delete(t, DetachDeletes(x), "go", 1) /\ DetachDeletes(x) = {x} \cap exited
        /\ detached' = IF InPool(x) \/ x \in exited THEN detached ELSE detached \cup {x}
    BY <1>3, <1>9 DEF Detach, DetachDeletes
  <2>2. DetachDeletes(x) \subseteq Threads /\ detached \subseteq detached'
    BY <1>4, <2>1
  <2>3. \A u \in (exited' \cap detached') \ {Main} : Reclaimed(u) \/ u \in DetachDeletes(x)
    BY <1>2, <1>7, <2>1
  <2>4. Reclaimed(x) \/ x \in DetachDeletes(x) \/ x \in detached'
    BY <2>1 DEF Reclaimed, InPool
  <2> QED
    BY <1>1, <1>2, <1>5, <1>6, <2>1, <2>2, <2>3, <2>4, DeleteLeak
<1>10. CASE Collect(t) /\ UNCHANGED <<prog, finished, exited, detached>>
  <2>1. {Main} \subseteq Threads /\ Op(t) = "waitpid"
    BY <1>10, ThreadAssumption DEF Collect, Calls
  <2>2. \A u \in Threads : Forward(u)
    BY <1>5, <2>1
  <2>3. CASE Delete(t, {Main}, "go", 1)
    BY <1>1, <1>2, <1>6, <1>7, <1>10, <2>1, <2>2, <2>3, DeleteLeak
  <2>4. CASE Delete(t, {Main}, "out", 0)
    BY <1>1, <1>2, <1>6, <1>7, <1>10, <2>1, <2>2, <2>4, DeleteLeak
  <2> QED
    BY <1>10, <2>3, <2>4 DEF Collect
<1> QED
  BY <1>8, <1>9, <1>10

LEMMA ExitLeak ==
    ASSUME TInv, TInv', LeakInv, NEW t \in Threads, Exit(t) \/ (t = Main /\ TaskExit)
    PROVE  LeakInv'
<1>1. Lives(t) /\ Onward(t) /\ TypeOK
  BY ExitLives DEF TInv
<1>2. prog' = prog /\ Op(t) = "end" /\ detached' = detached /\ \A v \in Threads \ {t} : ip'[v] = ip[v]
  BY <1>1 DEF Exit, TaskExit, Calls, Lives, Stays
<1>3. \A u \in Threads : Forward(u)
  BY <1>1, <1>2, OnwardForward
<1>4. \A u \in (exited \cap detached) \ {Main} : Reclaimed(u)
  BY DEF LeakInv
<1>5. CASE Exit(t)
  <2>1. /\ t # Main /\ exited' = exited \cup {t} /\ Delete(t, {t} \cap detached, "gone", 0)
        /\ {t} \cap detached \subseteq Threads /\ "gone" \in Places \ {"none"}
    BY <1>5 DEF Exit, Places
  <2> QED
    BY <1>1, <1>2, <1>3, <1>4, <2>1, DeleteLeak
<1>6. CASE t = Main /\ TaskExit
  <2> DEFINE D == {u \in Threads \ {Main, Parent} : ~InPool(u) /\ u \notin deleted}
  <2>1. /\ exited' = exited \cup D \cup {Main} /\ Delete(t, D, "leaving", 0)
        /\ D \subseteq Threads /\ "leaving" \in Places \ {"none"}
    BY <1>6 DEF TaskExit, Places
  <2>2. \A u \in Threads \ {Main, Parent} : Reclaimed(u) \/ u \in D
    BY DEF Reclaimed, InPool
  <2>3. \A u \in (exited' \cap detached') \ {Main} : Reclaimed(u) \/ u \in D
    BY <1>2, <1>4, <2>1
  <2> HIDE DEF D
  <2> QED
    BY <1>1, <1>2, <1>3, <2>1, <2>2, <2>3, DeleteLeak
<1> QED
  BY <1>5, <1>6

LEMMA CreateLeak ==
    ASSUME TInv, PInv, LeakInv, NEW t \in Threads, Create(t) \/ NewTask(t)
    PROVE  LeakInv'
<1>0. PICK v : v = Arg(t)
  OBVIOUS
<1>1. TypeOK /\ prog' = prog /\ zombies' = zombies /\ Ended
  BY DEF TInv, Create, NewTask
<1>2. Op(t) \in {"create", "new_task"} /\ Op(t) # "end" /\ at[v] = "none" /\ Initialised(t, v) /\ at[t] = "go"
  BY <1>0 DEF Create, NewTask, Calls, InPool
<1>3. v \in Threads /\ v # t
  BY <1>0, <1>1, <1>2, AtCall, ThreadAssumption
<1>4. /\ at'[v] = "new" /\ ip'[t] = ip[t] + 1 /\ ip'[v] = 1
      /\ exited' = exited \ {v} /\ deleted' = deleted \ {v}
      /\ \A u \in Threads \ {v} : at'[u] = at[u]
      /\ \A u \in Threads \ {t, v} : ip'[u] = ip[u]
  BY <1>1, <1>2, <1>3 DEF Initialised, TypeOK, SleepTypeOK
<1>5. detached' \subseteq (detached \ {v}) \cup {Main} /\ detached \ {v} \subseteq detached'
  <2>1. CASE Create(t)
    BY <1>0, <2>1 DEF Create
  <2>2. CASE NewTask(t)
    <3>1. v = Main
      BY <1>0, <1>1, <2>2, AtCall DEF NewTask, Calls
    <3> QED
      BY <1>0, <2>2, <3>1 DEF NewTask
  <2> QED
    BY <2>1, <2>2
<1>6. \A u \in Threads \ {v} : Reclaimed(u)' <=> Reclaimed(u)
  BY <1>4 DEF Reclaimed
<1>7. \A u \in deleted' : at'[u] # "none" => u \in zombies'
  BY <1>1, <1>4 DEF LeakInv, TypeOK
<1>8. \A u \in (exited' \cap detached') \ {Main} : Reclaimed(u)'
  BY <1>1, <1>4, <1>5, <1>6 DEF LeakInv, TypeOK
<1>9. \A u : OfMain(u)' <=> OfMain(u)
  BY <1>1 DEF OfMain
<1>10. ASSUME NEW u \in Threads \ {Main, Parent}, u # v, OfMain(u)
       PROVE  (GivenUp(u)' => Reclaimed(u)' \/ u \in detached') /\ (Main \in exited' => Reclaimed(u)')
  <2>1. (GivenUp(u) => Reclaimed(u) \/ u \in detached) /\ (Main \in exited => Reclaimed(u))
    BY <1>10 DEF LeakInv
  <2>2. Forward(u) => (GivenUp(u)' => GivenUp(u))
    BY <1>1, GivenUpStays
  <2>3. GivenUp(u)' => GivenUp(u)
    <3>1. CASE v = Main
      <4>1. 1..(ip'[Main] - 1) = {}
        BY <1>4, <3>1
      <4> QED
        BY <4>1 DEF GivenUp
    <3>2. CASE v # Main
      BY <1>2, <1>4, <2>2, <3>2, ThreadAssumption DEF Forward
    <3> QED
      BY <3>1, <3>2
  <2> QED
    BY <1>4, <1>5, <1>6, <1>10, <2>1, <2>3
<1>11. ASSUME v \in Threads \ {Main, Parent}, OfMain(v)
       PROVE  ~GivenUp(v)' /\ Main \notin exited'
  <2>1. Op(t) = "create" /\ ip[t] \in 1..Len(prog[t]) /\ prog[t][ip[t]] = [op |-> "create", arg |-> v]
    <3>1. Op(t) = "create"
      BY <1>0, <1>1, <1>2, <1>11, AtCall
    <3>2. /\ ip[t] \in 1..Len(prog[t]) /\ prog[t][ip[t]].op = "create" /\ prog[t][ip[t]].arg = v
          /\ Len(prog[t]) \in Nat
      BY <1>0, <1>1, <3>1, AtCall
    <3>3. prog[t] \in Seq(Call(t))
      BY <1>1, ProgramIs DEF Good
    <3>4. prog[t][ip[t]] \in Call(t)
      BY <3>2, <3>3
    <3>5. PICK c \in Call(t) : c = prog[t][ip[t]]
      BY <3>4
    <3>6. c = [op |-> c.op, arg |-> c.arg]
      BY DEF Call
    <3> QED
      BY <3>1, <3>2, <3>5, <3>6
  <2>2. t = Main
    <3>1. ip[t] \in DOMAIN prog[t]
      BY <1>1, <2>1, ProgramIs DEF Good
    <3> QED
      BY <1>11, <2>1, <3>1 DEF OfMain
  <2>3. Main \notin exited
    BY <1>1, <1>2, <2>2 DEF PInv, Outer, Ended
  <2>4. ~GivenUp(v)'
    <3> SUFFICES ASSUME GivenUp(v)' PROVE FALSE
      OBVIOUS
    <3>1. PICK i \in 1..(ip'[Main] - 1) :
            /\ prog[Main][i].op \in {"detach", "join"} /\ prog[Main][i].arg = v
            /\ \A j \in (i + 1)..(ip'[Main] - 1) : prog[Main][j] # [op |-> "create", arg |-> v]
      BY <1>1 DEF GivenUp
    <3>2. ip'[Main] - 1 = ip[Main] /\ ip[Main] \in Nat
      BY <1>1, <1>4, <2>1, <2>2, ProgramIs
    <3>3. ip[Main] \notin (i + 1)..ip[Main]
      BY <2>1, <2>2, <3>1, <3>2
    <3>4. i = ip[Main]
      BY <3>2, <3>3
    <3>5. prog[Main][i].op = "create"
      BY <2>1, <2>2, <3>4
    <3> QED
      BY <3>1, <3>5
  <2> QED
    BY <1>4, <2>3, <2>4
<1>12. ASSUME NEW u \in Threads \ {Main, Parent}, OfMain(u)'
       PROVE  (GivenUp(u)' => Reclaimed(u)' \/ u \in detached') /\ (Main \in exited' => Reclaimed(u)')
  BY <1>9, <1>10, <1>11, <1>12
<1> QED
  BY <1>7, <1>8, <1>12 DEF LeakInv

LEMMA NextLeak ==
    ASSUME TInv, PInv, LeakInv, TInv', [Next]_vars
    PROVE  LeakInv'
<1>1. ASSUME NEW t \in Threads, Step(t) PROVE LeakInv'
  <2>1. CASE SyncStep(t) /\ UNCHANGED threadVars
    BY <2>1, SyncLeak
  <2>2. CASE ThreadStep(t)
    <3>1. CASE WaitPid(t)
      BY <3>1, OtherLeak, ReapLeak
    <3> QED
      BY <2>2, <3>1, OtherLeak, ReapLeak, ExitLeak, CreateLeak DEF ThreadStep
  <2> QED
    BY <1>1, <2>1, <2>2 DEF Step
<1>2. ASSUME UNCHANGED vars PROVE LeakInv'
  BY <1>2, LeakQuiet DEF vars, sleepVars, threadVars, TInv, Forward
<1> QED
  BY <1>1, <1>2 DEF Next, Over

\* For every program: no thread is forgotten.  One that has exited and was
\* detached, before or after, or joined, or whose task has exited, is back in the
\* pool or on the list that the next thread_delete() empties.
THEOREM NoLeakHolds == Spec => []NoLeak
<1>1. Init => LeakInv
  <2> SUFFICES ASSUME Init PROVE LeakInv
    OBVIOUS
  <2>1. deleted = {} /\ exited = {} /\ ip[Main] = 1
    BY ThreadAssumption DEF Init
  <2>2. 1..(ip[Main] - 1) = {}
    BY <2>1
  <2> QED
    BY <2>1, <2>2 DEF LeakInv, GivenUp
<1>2. TInv /\ PInv /\ LeakInv /\ TInv' /\ [Next]_vars => LeakInv'
  BY NextLeak
<1>3. TInv /\ PInv /\ LeakInv => NoLeak
  <2> SUFFICES ASSUME TInv, PInv, LeakInv, NEW u \in exited \ {Main}, OfMain(u),
                      GivenUp(u) \/ Main \in exited
               PROVE  at[u] = "none" \/ u \in zombies
    BY DEF NoLeak
  <2>1. u \in Threads \ {Main, Parent}
    BY DEF TInv, TypeOK, PInv, Outer, Ended
  <2>2. Reclaimed(u) \/ u \in detached
    BY <2>1 DEF LeakInv
  <2>3. Reclaimed(u)
    BY <2>2 DEF LeakInv
  <2> QED
    BY <2>3 DEF LeakInv, Reclaimed
<1> QED
  BY <1>1, <1>2, <1>3, ThreadsInv, PoolInv, PTL DEF Spec

-----------------------------------------------------------------------------
(* Barriers.                                                                 *)

LEMMA CallMadeStays ==
    ASSUME TypeOK, prog' = prog, \A t \in Threads : ip'[t] \in Nat /\ ip'[t] >= ip[t], NEW ops, NEW u,
           CallMade(ops, u)
    PROVE  CallMade(ops, u)'
<1>1. PICK t \in Threads : \E i \in 1..(ip[t] - 1) : prog[t][i].op \in ops /\ prog[t][i].arg = u
  BY DEF CallMade
<1>2. PICK i \in 1..(ip[t] - 1) : prog[t][i].op \in ops /\ prog[t][i].arg = u
  BY <1>1
<1>3. i \in 1..(ip'[t] - 1)
  BY DEF TypeOK, SleepTypeOK
<1>4. prog'[t][i].op \in ops /\ prog'[t][i].arg = u
  BY <1>2
<1> QED
  BY <1>3, <1>4 DEF CallMade

\* A call that is made at most once has not been made when it is about to be.
LEMMA FirstCall ==
    ASSUME TypeOK, NEW t \in Threads, Op(t) # "end", NEW ops, Op(t) \in ops, AtMostOnce(ops, Arg(t))
    PROVE  ~CallMade(ops, Arg(t))
<1> SUFFICES ASSUME CallMade(ops, Arg(t)) PROVE FALSE
  OBVIOUS
<1>1. ip[t] \in 1..Len(prog[t]) /\ prog[t][ip[t]].op = Op(t) /\ prog[t][ip[t]].arg = Arg(t)
      /\ DOMAIN prog[t] = 1..Len(prog[t]) /\ Len(prog[t]) \in Nat
  BY NextOpIs, ProgramIs DEF Good
<1>2. PICK v \in Threads : \E i \in 1..(ip[v] - 1) : prog[v][i].op \in ops /\ prog[v][i].arg = Arg(t)
  BY DEF CallMade
<1>3. PICK i \in 1..(ip[v] - 1) : prog[v][i].op \in ops /\ prog[v][i].arg = Arg(t)
  BY <1>2
<1>4. i \in DOMAIN prog[v] /\ i < ip[v]
  <2>1. ip[v] \in 1..(Len(prog[v]) + 1) /\ DOMAIN prog[v] = 1..Len(prog[v]) /\ Len(prog[v]) \in Nat
    BY ProgramIs DEF Good
  <2> QED
    BY <2>1
<1>5. v = t /\ i = ip[t]
  BY <1>1, <1>3, <1>4 DEF AtMostOnce
<1> QED
  BY <1>4, <1>5

\* And has been when the thread has gone on.
LEMMA ThisCall ==
    ASSUME TypeOK, NEW t \in Threads, Op(t) # "end", NEW ops, Op(t) \in ops, prog' = prog,
           ip'[t] = ip[t] + 1, NEW u, u = Arg(t)
    PROVE  CallMade(ops, u)'
<1>1. PICK i : i = ip[t]
  OBVIOUS
<1>2. i \in 1..Len(prog[t]) /\ prog[t][i].op = Op(t) /\ prog[t][i].arg = u /\ Len(prog[t]) \in Nat
  BY <1>1, NextOpIs, ProgramIs
<1>3. i \in 1..(ip'[t] - 1)
  BY <1>1, <1>2
<1>4. prog'[t][i].op \in ops /\ prog'[t][i].arg = u
  BY <1>2
<1> QED
  BY <1>3, <1>4 DEF CallMade

\* A step of t that creates nobody.
LEMMA OnceKeeps ==
    ASSUME TInv, OnceInv, Meeting, NEW t \in Threads, prog' = prog,
           \A u \in Threads \ {t} : ip'[u] = ip[u] /\ (at'[u] = at[u] \/ (at'[u] = "none" /\ u \in finished')),
           ip'[t] \in Nat, ip'[t] >= ip[t], on[t] \/ at[t] \notin {"none", "new"},
           at[t] # "none", at'[t] # "none",
           \A u \in Threads \ {t} : on'[u] =>
                \/ on[u] \/ at[u] \notin {"none", "new"} \/ CallMade({"launch"}, u)'
                \/ \E x \in Threads : joining[x] = u,
           finished \subseteq finished', joining' \in [Threads -> Threads \cup {None}],
           \A x \in Threads : joining'[x] = joining[x] \/ (joining'[x] = t /\ at[t] = "go" /\ t # Parent),
           \A x \in Threads, u \in Threads \ finished' : joining'[x] = u =>
                at'[x] \in {"gone", "none"} \/ (at'[u] = "join" /\ Arg(u)' = x /\ x \notin exited')
    PROVE  OnceInv'
<1>1. TypeOK /\ \A u \in Threads : ip'[u] \in Nat /\ ip'[u] >= ip[u]
  <2>1. TypeOK /\ \A u \in Threads : ip[u] \in Nat
    BY DEF TInv, TypeOK, SleepTypeOK
  <2>2. ASSUME NEW u \in Threads PROVE ip'[u] \in Nat /\ ip'[u] >= ip[u]
    <3>1. CASE u = t
      BY <3>1
    <3>2. CASE u # t
      <4>1. ip'[u] = ip[u] /\ ip[u] \in Nat
        BY <2>1, <3>2
      <4> QED
        BY <4>1
    <3> QED
      BY <3>1, <3>2
  <2> QED
    BY <2>1, <2>2
<1>2. \A ops, u : CallMade(ops, u) => CallMade(ops, u)'
  BY <1>1, CallMadeStays
<1>3. ASSUME NEW u \in Threads \ {Parent}, at'[u] # "none" \/ ip'[u] # 1
      PROVE  CallMade({"create", "new_task"}, u)'
  <2>1. at[u] # "none" \/ ip[u] # 1
    BY <1>3
  <2> QED
    BY <1>2, <2>1 DEF OnceInv
<1>4. ASSUME NEW x \in Threads, NEW u \in Threads, joining[x] = u
      PROVE  /\ u # Parent /\ CallMade({"create", "new_task"}, u)'
             /\ u # Main => CallMade({"launch"}, u)'
             /\ at'[u] = "none" => u \in finished'
  <2>1. /\ u # Parent /\ CallMade({"create", "new_task"}, u)
        /\ u # Main => CallMade({"launch"}, u)
        /\ at[u] = "none" => u \in finished
    BY <1>4, SyncAssumption DEF OnceInv, Awaited
  <2> QED
    BY <1>2, <1>4, <2>1
<1>5. ASSUME NEW u \in Threads \ {Main, Parent}, at'[u] \notin {"none", "new"} \/ on'[u]
      PROVE  CallMade({"launch"}, u)'
  <2>1. CASE at[u] \notin {"none", "new"} \/ on[u]
    BY <1>2, <2>1 DEF OnceInv
  <2>2. CASE \E x \in Threads : joining[x] = u
    BY <1>4, <2>2
  <2> QED
    BY <1>5, <2>1, <2>2
<1>6. ASSUME NEW x \in Threads, joining'[x] # None PROVE Awaited(x)'
  <2>1. PICK u \in Threads : joining'[x] = u
    BY <1>6
  <2>2. /\ u # Parent /\ CallMade({"create", "new_task"}, u)'
        /\ u # Main => CallMade({"launch"}, u)'
        /\ at'[u] = "none" => u \in finished'
    <3>1. CASE joining[x] = u
      BY <1>4, <3>1
    <3>2. CASE u = t /\ at[t] = "go" /\ t # Parent
      BY <1>2, <3>2 DEF OnceInv
    <3> QED
      BY <2>1, <3>1, <3>2
  <2> QED
    BY <2>1, <2>2 DEF Awaited
<1>7. \A x \in Threads : Awaited(x)'
  BY <1>6 DEF Awaited
<1> QED
  BY <1>3, <1>5, <1>7 DEF OnceInv

\* A step of t, which waits for nobody's exit, at which nobody exits.
LEMMA OnceStays ==
    ASSUME TInv, OnceInv, Meeting, NEW t \in Threads, prog' = prog,
           \A u \in Threads \ {t} : ip'[u] = ip[u] /\ (at'[u] = at[u] \/ (at'[u] = "none" /\ u \in finished')),
           ip'[t] \in Nat, ip'[t] >= ip[t], on[t] \/ at[t] # "new",
           at[t] \notin {"none", "gone"}, at'[t] # "none",
           \A u \in Threads \ {t} : on'[u] =>
                on[u] \/ at[u] \notin {"none", "new"} \/ CallMade({"launch"}, u)',
           UNCHANGED <<exited, finished, joining>>, at[t] = "join" => Arg(t) \in exited
    PROVE  OnceInv'
<1>1. ASSUME NEW x \in Threads, NEW u \in Threads \ finished', joining[x] = u
      PROVE  at'[x] \in {"gone", "none"} \/ (at'[u] = "join" /\ Arg(u)' = x /\ x \notin exited')
  <2>1. at[x] \in {"gone", "none"} \/ (at[u] = "join" /\ Arg(u) = x /\ x \notin exited)
    BY <1>1, SyncAssumption DEF OnceInv, Awaited
  <2>2. CASE at[x] \in {"gone", "none"}
    BY <2>2
  <2>3. CASE at[u] = "join" /\ Arg(u) = x /\ x \notin exited
    <3>1. u # t
      BY <2>3
    <3>2. Arg(u)' = Arg(u) /\ at'[u] = at[u]
      BY <1>1, <3>1, SameCall
    <3> QED
      BY <2>3, <3>2
  <2> QED
    BY <2>1, <2>2, <2>3
<1>2. joining' \in [Threads -> Threads \cup {None}]
  BY DEF TInv, TypeOK
<1> QED
  BY <1>1, <1>2, OnceKeeps

\* A step of t wakes at most those on queue q.
Rouses(t, q) ==
    \A u \in Threads \ {t} :
        (on'[u] = on[u] /\ waiting'[u] = waiting[u]) \/ u \in ToSet(queue[q])

LEMMA RousesIs ==
    ASSUME TypeOK, NEW t \in Threads, NEW q,
           \/ UNCHANGED <<on, waiting>>
           \/ \E w, o \in BOOLEAN : Settle(t, w, o, {}) \/ Settle(t, w, o, ToSet(queue[q]))
    PROVE  Rouses(t, q)
<1>1. CASE UNCHANGED <<on, waiting>>
  BY <1>1 DEF Rouses
<1>2. ASSUME NEW w \in BOOLEAN, NEW o \in BOOLEAN, NEW S, S \in {{}, ToSet(queue[q])}, Settle(t, w, o, S)
      PROVE  Rouses(t, q)
  <2>1. \A u \in Threads \ {t} : /\ waiting'[u] <=> waiting[u] /\ u \notin Woken(S)
                                 /\ on'[u] <=> on[u] \/ u \in Woken(S)
    BY <1>2, SettleIs
  <2>2. /\ waiting \in [Threads -> BOOLEAN] /\ on \in [Threads -> BOOLEAN]
        /\ waiting' \in [Threads -> BOOLEAN] /\ on' \in [Threads -> BOOLEAN]
    BY <1>2, SettleIs DEF TypeOK, SleepTypeOK
  <2>3. Woken(S) \subseteq ToSet(queue[q])
    BY <1>2 DEF Woken
  <2>4. ASSUME NEW u \in Threads \ {t}, u \notin Woken(S)
        PROVE  on'[u] = on[u] /\ waiting'[u] = waiting[u]
    BY <2>1, <2>2, <2>4
  <2> QED
    BY <2>3, <2>4 DEF Rouses
<1> QED
  BY <1>1, <1>2

LEMMA SyncRouses ==
    ASSUME TInv, NEW t \in Threads, SyncStep(t)
    PROVE  \E q \in Queues : Rouses(t, q) /\ (q \in Barriers => BarrierWait(t) /\ q = Arg(t) /\ IsLast(q))
<1>1. /\ TypeOK /\ Fine(t) /\ TRUE \in BOOLEAN /\ FALSE \in BOOLEAN
      /\ waiting[t] \in BOOLEAN /\ on[t] \in BOOLEAN
  BY DEF TInv, TypeOK, SleepTypeOK
<1>2. ASSUME UNCHANGED <<on, waiting>> \/ \E w, o \in BOOLEAN : Settle(t, w, o, {})
      PROVE  \E q \in Queues : Rouses(t, q) /\ q \notin Barriers
  <2>1. Rouses(t, Children)
    BY <1>1, <1>2, RousesIs
  <2> QED
    BY <2>1, ProgramAssumption, ThreadAssumption
<1>3. ASSUME NEW q \in Queues, WakeAll(t, q)
      PROVE  Rouses(t, q)
  BY <1>1, <1>3, RousesIs DEF WakeAll
<1>4. CASE Unlock(t)
  <2>1. PICK m \in Mutexes : m = Arg(t)
    BY <1>1, <1>4, AtCall DEF Unlock, Calls
  <2>2. m \in Queues /\ m \notin Barriers
    BY SyncAssumption
  <2> QED
    BY <1>2, <1>3, <1>4, <2>1, <2>2 DEF Unlock
<1>5. CASE CondWait(t)
  <2>1. PICK c \in Conds : c = Arg(t)
    BY <1>1, <1>5, AtCall DEF CondWait, Calls
  <2>2. PICK m \in Mutexes : m = Guards[Arg(t)]
    BY <2>1, SyncAssumption
  <2>3. m \in Queues /\ m \notin Barriers
    BY SyncAssumption
  <2>4. Settle(t, TRUE, FALSE, ToSet(queue[m]))
    BY <1>5, <2>2 DEF CondWait, CondPrepare
  <2> QED
    BY <1>1, <2>3, <2>4, RousesIs
<1>6. CASE Signal(t)
  <2>1. PICK c \in Conds : c = Arg(t)
    BY <1>1, <1>6, AtCall DEF Signal, Calls
  <2>2. c \in Queues /\ c \notin Barriers
    BY SyncAssumption
  <2> QED
    BY <1>3, <1>6, <2>1, <2>2 DEF Signal
<1>7. CASE RwDown(t)
  <2>1. PICK k \in RwLocks : k = Arg(t)
    BY <1>1, <1>7, AtCall DEF RwDown, Calls
  <2>2. k \in Queues /\ k \notin Barriers
    BY SyncAssumption
  <2> QED
    BY <1>2, <1>3, <1>7, <2>1, <2>2 DEF RwDown
<1>8. CASE BarrierWait(t)
  <2>1. PICK b \in Barriers : b = Arg(t)
    BY <1>1, <1>8, AtCall DEF BarrierWait, Calls
  <2>2. b \in Queues
    BY SyncAssumption
  <2>3. CASE IsLast(b) /\ WakeAll(t, b)
    BY <1>3, <1>8, <2>1, <2>2, <2>3
  <2>4. CASE Settle(t, TRUE, FALSE, {})
    BY <1>1, <1>2, <2>4
  <2> QED
    BY <1>8, <2>1, <2>3, <2>4 DEF BarrierWait
<1>9. CASE LockTry(t) \/ LockCheck(t) \/ TryLock(t) \/ AwaitDone(t) \/ Happen(t)
  BY <1>2, <1>9 DEF LockTry, LockCheck, TryLock, AwaitDone, Happen
<1>10. CASE LockWait(t)
  <2>1. UNCHANGED <<on, waiting>> \/ \E w, o \in BOOLEAN : Settle(t, w, o, {})
    BY <1>1, <1>10 DEF LockWait, WaitLoop, WaitAdd, WaitPrepare, WaitSchedule, WaitAgain, WaitTimeout,
                       WaitCleanup
  <2> QED
    BY <1>2, <2>1
<1>11. CASE CondTimeout(t) \/ CondWoken(t) \/ BarrierWoken(t) \/ RwUp(t)
  <2>1. \E w, o \in BOOLEAN : Settle(t, w, o, {})
    BY <1>1, <1>11 DEF CondTimeout, CondWoken, BarrierWoken, RwUp, WaitCleanup
  <2> QED
    BY <1>2, <2>1
<1> QED
  BY <1>4, <1>5, <1>6, <1>7, <1>8, <1>9, <1>10, <1>11 DEF SyncStep

\* Who is on a queue is in a wait, and at a barrier if it is the barrier's.
LEMMA QueuedWaits ==
    ASSUME LinkedOnce, NEW u \in Threads, NEW q \in Queues, u \in ToSet(queue[q])
    PROVE  at[u] \notin {"none", "new", "go", "gone", "join", "leaving"} /\ (at[u] = "barrier" => Arg(u) = q)
<1>1. at[u] \in LinkPlaces /\ q = Spot(u)
  BY DEF LinkedOnce, OwnLinks
<1> QED
  BY <1>1 DEF LinkPlaces, Linking, Spot

LEMMA OnwardTo ==
    ASSUME TypeOK, NEW t \in Threads, Onward(t)
    PROVE  ip'[t] \in Nat /\ ip'[t] >= ip[t]
<1>1. ip[t] \in Nat
  BY DEF TypeOK, SleepTypeOK
<1> QED
  BY <1>1 DEF Onward

\* The steps of a call inside a wait or at its beginning.
LEMMA OnceSync ==
    ASSUME TInv, LinkedOnce, OnceInv, Meeting, NEW t \in Threads, SyncStep(t), UNCHANGED threadVars
    PROVE  OnceInv'
<1>1. TypeOK /\ Wakes(t) /\ Onward(t) /\ UNCHANGED <<exited, joining>>
  BY SyncLinks, SyncOnward DEF TInv, threadVars
<1>2. at[t] \notin {"join", "new"}
  BY DEF SyncStep, LockTry, LockCheck, LockWait, TryLock, Unlock, AwaitDone, CondWait, CondTimeout,
         CondWoken, Happen, Signal, BarrierWait, BarrierWoken, RwUp, RwDown, Calls, Inside,
         WaitLoop, WaitAdd, WaitPrepare, WaitSchedule, WaitAgain, WaitTimeout
<1>3. PICK q \in Queues : Rouses(t, q)
  BY SyncRouses
<1>4. ASSUME NEW u \in Threads \ {t}, on'[u] PROVE on[u] \/ at[u] \notin {"none", "new"}
  BY <1>3, <1>4, QueuedWaits DEF Rouses
<1>5. ip'[t] \in Nat /\ ip'[t] >= ip[t]
  BY <1>1, OnwardTo
<1> QED
  BY <1>1, <1>2, <1>4, <1>5, OnceStays DEF Wakes

\* What is created is created for the first time, and finds the thread in the pool.
LEMMA FirstCreated ==
    ASSUME TInv, OnceInv, Meeting, NEW t \in Threads, Calls(t, {"create", "new_task"}), NEW v, v = Arg(t)
    PROVE  /\ v \in Threads \ {t, Parent} /\ at[v] = "none" /\ ip[v] = 1
           /\ ~CallMade({"create", "new_task"}, v)
<1>1. TypeOK /\ Op(t) \in {"create", "new_task"} /\ Op(t) # "end"
  BY DEF TInv, Calls
<1>2. v \in Threads \ {t, Parent}
  BY <1>1, AtCall, ThreadAssumption
<1>3. AtMostOnce({"create", "new_task"}, v)
  BY <1>2 DEF Meeting
<1>4. ~CallMade({"create", "new_task"}, v)
  BY <1>1, <1>3, FirstCall
<1> QED
  BY <1>2, <1>4 DEF OnceInv

LEMMA OnceOther ==
    ASSUME TInv, OnceInv, Meeting, NEW t \in Threads,
           \/ CreateFails(t) \/ Launch(t) \/ Begin(t) \/ (t = Main /\ TaskLeave)
           \/ WaitPid(t) /\ ~(Collect(t) /\ UNCHANGED <<prog, finished, queue, exited, detached>>)
    PROVE  OnceInv'
<1>1. /\ TypeOK /\ Wakes(t) /\ UNCHANGED <<exited, joining>>
      /\ at \in [Threads -> Places] /\ ip \in [Threads -> Nat]
  BY OtherLinks DEF TInv, TypeOK, SleepTypeOK, threadVars
<1>2. ~CreateFails(t)
  BY FirstCreated DEF CreateFails, InPool
<1>3. ip'[t] \in Nat /\ ip'[t] >= ip[t]
  BY <1>1, <1>2, OtherLives, OnwardTo
<1>4. CASE Launch(t)
  <2>1. PICK v \in Threads : v = Arg(t) /\ Op(t) = "launch" /\ Op(t) # "end" /\ at[t] = "go"
    BY <1>1, <1>4, AtCall DEF Launch, Calls
  <2>2. Settle(t, waiting[t], on[t], {v} \ exited) /\ ip'[t] = ip[t] + 1 /\ prog' = prog
    BY <1>1, <1>4, <2>1 DEF Launch, Return
  <2>3. CallMade({"launch"}, v)'
    BY <1>1, <2>1, <2>2, ThisCall
  <2>4. waiting[t] \in BOOLEAN /\ on[t] \in BOOLEAN
    BY <1>1 DEF TypeOK, SleepTypeOK
  <2>5. \A u \in Threads \ {t} : on'[u] => on[u] \/ u = v
    BY <1>1, <2>2, <2>4, SettleIs DEF Woken
  <2> QED
    BY <1>1, <1>3, <2>1, <2>3, <2>5, OnceStays DEF Wakes
<1>5. CASE Begin(t) \/ (t = Main /\ TaskLeave) \/ (WaitPid(t) /\ ~Launch(t) /\ Op(t) = "waitpid")
  <2>1. UNCHANGED <<on, waiting>> \/ \E w, o \in BOOLEAN : Settle(t, w, o, {})
    <3>1. TRUE \in BOOLEAN /\ FALSE \in BOOLEAN
      OBVIOUS
    <3> QED
      BY <1>5, <3>1 DEF Begin, TaskLeave, WaitPid, Collect, WaitLoop, WaitAdd, WaitPrepare, WaitSchedule,
                        WaitAgain, WaitCleanup
  <2>2. \A u \in Threads \ {t} : on'[u] => on[u]
    BY <1>1, <2>1, SettleIs DEF Woken
  <2>3. on[t] /\ at[t] # "join"
    BY <1>5 DEF Begin, TaskLeave, WaitPid, Calls, Inside, Collect, WaitLoop, WaitAdd, WaitPrepare,
                WaitSchedule, WaitAgain
  <2> QED
    BY <1>1, <1>3, <2>2, <2>3, OnceStays DEF Wakes
<1>6. CASE WaitPid(t)
  <2>1. Op(t) = "waitpid"
    BY <1>6 DEF WaitPid, Collect, Calls
  <2> QED
    BY <1>4, <1>5, <1>6, <2>1
<1> QED
  BY <1>2, <1>4, <1>5, <1>6

LEMMA OnceReap ==
    ASSUME TInv, OnceInv, Meeting, TInv', NEW t \in Threads,
           Join(t) \/ JoinWoken(t) \/ Detach(t)
             \/ (Collect(t) /\ UNCHANGED <<prog, finished, exited, joining>>)
    PROVE  OnceInv'
<1>1. TypeOK /\ Lives(t) /\ Onward(t) /\ exited' = finished'
  BY ReapLives DEF TInv, Ended
<1>2. UNCHANGED <<exited, finished, joining>>
  BY DEF Join, JoinWoken, Detach
<1>3. UNCHANGED <<on, waiting>> \/ Settle(t, FALSE, TRUE, {})
  BY DEF Join, JoinWoken, Detach, Collect
<1>4. \A u \in Threads \ {t} : on'[u] => on[u]
  <2>1. CASE UNCHANGED <<on, waiting>>
    BY <2>1
  <2>2. CASE Settle(t, FALSE, TRUE, {})
    <3>1. PICK w, o \in BOOLEAN : Settle(t, w, o, {})
      BY <2>2
    <3> QED
      BY <1>1, <3>1, SettleIs DEF Woken
  <2> QED
    BY <1>3, <2>1, <2>2
<1>5. on[t] /\ at[t] # "gone" /\ (at[t] = "join" => Arg(t) \in exited)
  BY DEF Join, JoinWoken, Detach, Collect, Calls, Inside
<1>6. ip'[t] \in Nat /\ ip'[t] >= ip[t]
  BY <1>1, OnwardTo
<1> QED
  BY <1>1, <1>2, <1>4, <1>5, <1>6, OnceStays DEF Lives, Stays

LEMMA OnceExit ==
    ASSUME TInv, OnceInv, Meeting, TInv', NEW t \in Threads, Exit(t)
    PROVE  OnceInv'
<1>1. TypeOK /\ Lives(t) /\ Onward(t) /\ exited' = finished'
  BY ExitLives DEF TInv, Ended
<1>2. /\ finished' = finished \cup {t} /\ exited' = exited \cup {t} /\ joining' = joining
      /\ Settle(t, TRUE, FALSE, Joiners(t)) /\ on[t] /\ at[t] = "go"
  BY DEF Exit, Calls
<1>3. \A u \in Threads \ {t} : on'[u] => on[u] \/ \E x \in Threads : joining[x] = u
  <2>1. \A u \in Threads \ {t} : on'[u] => on[u] \/ u \in Woken(Joiners(t))
    BY <1>1, <1>2, SettleIs
  <2>2. \A u \in Woken(Joiners(t)) : joining[t] = u
    BY DEF Woken, Joiners
  <2> QED
    BY <2>1, <2>2
<1>4. at'[t] = "gone"
  <2>1. t \notin Freed(t, {t} \cap detached)
    <3>1. \A z \in zombies : ~on[z] => z # t
      BY <1>2
    <3> QED
      BY <3>1 DEF Freed, Swept, Parked, Fresh
  <2> QED
    BY <2>1 DEF Exit, Delete
<1>5. ip'[t] \in Nat /\ ip'[t] >= ip[t]
  BY <1>1, OnwardTo
<1>6. ASSUME NEW x \in Threads, NEW u \in Threads \ finished', joining'[x] = u
      PROVE  at'[x] \in {"gone", "none"} \/ (at'[u] = "join" /\ Arg(u)' = x /\ x \notin exited')
  <2>1. u # t /\ (at[x] \in {"gone", "none"} \/ (at[u] = "join" /\ Arg(u) = x /\ x \notin exited))
    BY <1>2, <1>6, SyncAssumption DEF OnceInv, Awaited
  <2>2. CASE x = t
    BY <1>4, <2>2
  <2>3. CASE x # t /\ at[x] \in {"gone", "none"}
    BY <1>1, <2>3 DEF Lives, Stays
  <2>4. CASE x # t /\ at[u] = "join" /\ Arg(u) = x /\ x \notin exited
    <3>1. Arg(u)' = Arg(u) /\ at'[u] = at[u]
      BY <1>1, <1>6, <2>1, SameCall DEF Lives, Stays
    <3> QED
      BY <1>2, <2>4, <3>1
  <2> QED
    BY <2>1, <2>2, <2>3, <2>4
<1>7. joining' \in [Threads -> Threads \cup {None}]
  BY DEF TInv, TypeOK
<1> QED
  BY <1>1, <1>2, <1>3, <1>5, <1>6, <1>7, OnceKeeps DEF Lives, Stays

LEMMA OnceTaskExit ==
    ASSUME TInv, LinkedOnce, OnceInv, Meeting, TInv', TaskExit
    PROVE  OnceInv'
<1>0. PICK t \in Threads : t = Main
  BY ThreadAssumption
<1>1. TypeOK /\ Lives(t) /\ Onward(t) /\ exited' = finished' /\ exited = finished /\ deleted \subseteq exited
  BY <1>0, ExitLives DEF TInv, Ended
<1>2. PICK V : V = {u \in Threads \ {Main, Parent} : ~InPool(u) /\ u \notin deleted}
  OBVIOUS
<1>3. PICK C : C = Woken(ToSet(queue[Children]))
  OBVIOUS
<1>4. /\ finished' = finished \cup V \cup {Main} /\ joining' = joining /\ on[t] /\ at[t] = "go"
      /\ \E R \in SUBSET {u \in V : on[u] /\ at[u] \notin LockedSleeps} :
            on' = [u \in Threads |-> IF u \in V THEN u \in R ELSE on[u] \/ u \in C]
  BY <1>0, <1>2, <1>3 DEF TaskExit, Calls
<1>5. ASSUME NEW u \in Threads \ {t}, on'[u] PROVE on[u] \/ at[u] \notin {"none", "new"}
  <2>1. on[u] \/ u \in ToSet(queue[Children])
    BY <1>3, <1>4, <1>5 DEF Woken
  <2> QED
    BY <2>1, QueuedWaits, ThreadAssumption
<1>6. ip'[t] \in Nat /\ ip'[t] >= ip[t]
  BY <1>1, OnwardTo
<1>7. ASSUME NEW x \in Threads, NEW u \in Threads \ finished', joining'[x] = u
      PROVE  FALSE
  <2>1. u # Parent /\ (at[u] = "none" => u \in finished)
    BY <1>4, <1>7, SyncAssumption DEF OnceInv, Awaited
  <2> QED
    BY <1>1, <1>2, <1>4, <1>7, <2>1 DEF InPool
<1>8. joining' \in [Threads -> Threads \cup {None}]
  BY DEF TInv, TypeOK
<1> QED
  BY <1>1, <1>4, <1>5, <1>6, <1>7, <1>8, OnceKeeps DEF Lives, Stays

LEMMA OnceJoinWait ==
    ASSUME TInv, OnceInv, Meeting, TInv', NEW t \in Threads, JoinWait(t)
    PROVE  OnceInv'
<1>1. TypeOK /\ Lives(t) /\ Onward(t) /\ exited' = finished'
  BY OtherLives, OnwardTo DEF TInv, Ended, JoinWait, CreateFails, Calls
<1>2. PICK v \in Threads : v = Arg(t) /\ t # Parent
  BY <1>1, AtCall DEF JoinWait, Calls
<1>3. /\ at[t] = "go" /\ on[t] /\ v \notin exited /\ exited' = exited /\ finished' = finished
      /\ joining' = [joining EXCEPT ![v] = t] /\ Settle(t, TRUE, FALSE, {}) /\ Goto(t, "join")
  BY <1>2 DEF JoinWait, Calls
<1>4. /\ \A u \in Threads \ {t} : on'[u] => on[u]
      /\ at'[t] = "join" /\ ip'[t] = ip[t] /\ ip' = ip /\ prog' = prog
      /\ \A u \in Threads \ {t} : at'[u] = at[u]
      /\ joining'[v] = t /\ \A x \in Threads \ {v} : joining'[x] = joining[x]
  <2>1. \A u \in Threads \ {t} : on'[u] => on[u]
    <3>1. PICK w, o \in BOOLEAN : Settle(t, w, o, {})
      BY <1>3
    <3> QED
      BY <1>1, <3>1, SettleIs DEF Woken
  <2>2. at \in [Threads -> Places] /\ joining \in [Threads -> Threads \cup {None}]
    BY <1>1 DEF TypeOK
  <2>3. at'[t] = "join" /\ ip' = ip /\ \A u \in Threads \ {t} : at'[u] = at[u]
    BY <1>3, <2>2 DEF Goto
  <2> QED
    BY <1>1, <1>3, <2>1, <2>2, <2>3 DEF Lives
<1>5. ip'[t] \in Nat /\ ip'[t] >= ip[t]
  BY <1>1, OnwardTo
<1>6. ASSUME NEW x \in Threads, NEW u \in Threads \ finished', joining'[x] = u
      PROVE  at'[x] \in {"gone", "none"} \/ (at'[u] = "join" /\ Arg(u)' = x /\ x \notin exited')
  <2>1. Arg(u)' = Arg(u)
    BY <1>4, SameCall
  <2>2. CASE x = v
    BY <1>2, <1>3, <1>4, <1>6, <2>1, <2>2
  <2>3. CASE x # v
    <3>1. at[x] \in {"gone", "none"} \/ (at[u] = "join" /\ Arg(u) = x /\ x \notin exited)
      BY <1>3, <1>4, <1>6, <2>3, SyncAssumption DEF OnceInv, Awaited
    <3> QED
      BY <1>3, <1>4, <2>1, <3>1
  <2> QED
    BY <2>2, <2>3
<1>7. joining' \in [Threads -> Threads \cup {None}]
  BY DEF TInv, TypeOK
<1> QED
  BY <1>1, <1>2, <1>3, <1>4, <1>5, <1>6, <1>7, OnceKeeps DEF Lives, Stays

LEMMA OnceCreate ==
    ASSUME TInv, PInv, OnceInv, Meeting, NEW t \in Threads, Create(t) \/ NewTask(t)
    PROVE  OnceInv'
<1>0. PICK v : v = Arg(t)
  OBVIOUS
<1>1. /\ Calls(t, {"create", "new_task"}) /\ Initialised(t, v) /\ prog' = prog
      /\ on' = on \/ (v = Main /\ on' = [on EXCEPT ![v] = TRUE])
  <2>1. NewTask(t) => v = Main
    BY <1>0, AtCall DEF NewTask, Calls, TInv
  <2> QED
    BY <1>0, <2>1 DEF Create, NewTask, Calls
<1>2. /\ v \in Threads \ {t, Parent} /\ at[v] = "none" /\ ip[v] = 1
      /\ ~CallMade({"create", "new_task"}, v)
  BY <1>0, <1>1, FirstCreated
<1>3. TypeOK /\ Op(t) \in {"create", "new_task"} /\ Op(t) # "end" /\ at[t] = "go" /\ on[t]
  BY <1>1 DEF TInv, Calls
<1>4. /\ at'[v] = "new" /\ ip'[v] = 1 /\ ip'[t] = ip[t] + 1 /\ at'[t] = "go"
      /\ \A u \in Threads \ {v} : at'[u] = at[u] /\ on'[u] = on[u]
      /\ \A u \in Threads \ {t} : ip'[u] = ip[u]
      /\ finished' = finished \ {v} /\ exited' = exited \ {v}
      /\ joining'[v] = None /\ \A x \in Threads \ {v} : joining'[x] = joining[x]
  BY <1>1, <1>2, <1>3 DEF Initialised, TypeOK, SleepTypeOK
<1>5. CallMade({"create", "new_task"}, v)'
  BY <1>0, <1>1, <1>3, <1>4, ThisCall
<1>6. \A u \in Threads : ip'[u] \in Nat /\ ip'[u] >= ip[u]
  <2>1. \A u \in Threads : ip[u] \in Nat
    BY <1>3 DEF TypeOK, SleepTypeOK
  <2>2. ASSUME NEW u \in Threads PROVE ip'[u] \in {ip[u], ip[u] + 1}
    BY <1>4
  <2> QED
    BY <2>1, <2>2
<1>7. \A ops, u : CallMade(ops, u) => CallMade(ops, u)'
  BY <1>1, <1>3, <1>6, CallMadeStays
<1>8. ASSUME NEW u \in Threads \ {Parent}, at'[u] # "none" \/ ip'[u] # 1
      PROVE  CallMade({"create", "new_task"}, u)'
  BY <1>3, <1>4, <1>5, <1>7, <1>8 DEF OnceInv
<1>9. ASSUME NEW u \in Threads \ {Main, Parent}, at'[u] \notin {"none", "new"} \/ on'[u]
      PROVE  CallMade({"launch"}, u)'
  <2>1. u = v => ~on'[u] \/ on[u]
    BY <1>1, <1>9
  <2>2. at[u] \notin {"none", "new"} \/ on[u]
    BY <1>4, <1>9, <2>1
  <2> QED
    BY <1>7, <2>2 DEF OnceInv
<1>10. ASSUME NEW x \in Threads, joining'[x] # None PROVE Awaited(x)'
  <2>1. x # v /\ joining'[x] = joining[x]
    BY <1>4, <1>10
  <2>2. PICK u \in Threads : joining[x] = u
    BY <1>10, <2>1, <1>3 DEF TypeOK
  <2>3. /\ u # Parent /\ CallMade({"create", "new_task"}, u)
        /\ u # Main => CallMade({"launch"}, u)
        /\ at[u] = "none" => u \in finished
        /\ u \in finished \/ at[x] \in {"gone", "none"} \/ (at[u] = "join" /\ Arg(u) = x /\ x \notin exited)
    BY <2>2, SyncAssumption DEF OnceInv, Awaited
  <2>4. u # v
    BY <1>2, <2>3
  <2>5. at[u] = "join" => Arg(u)' = Arg(u)
    BY <1>1, <1>3, <1>4, SameCall
  <2>6. /\ at'[u] = "none" => u \in finished'
        /\ u \in finished' \/ at'[x] \in {"gone", "none"} \/ (at'[u] = "join" /\ Arg(u)' = x /\ x \notin exited')
    BY <1>4, <2>1, <2>3, <2>4, <2>5
  <2>7. u # Parent /\ CallMade({"create", "new_task"}, u)' /\ (u # Main => CallMade({"launch"}, u)')
    BY <1>7, <2>3
  <2> QED
    BY <2>1, <2>2, <2>6, <2>7 DEF Awaited
<1>11. \A x \in Threads : Awaited(x)'
  BY <1>10 DEF Awaited
<1> QED
  BY <1>8, <1>9, <1>11 DEF OnceInv

LEMMA MeetingSame ==
    ASSUME prog' = prog
    PROVE  Meeting' <=> Meeting
BY DEF Meeting, Users, AtMostOnce

LEMMA ProgSame == ASSUME [Next]_vars PROVE prog' = prog
<1>1. ASSUME NEW t \in Threads, SyncStep(t) PROVE prog' = prog
  BY <1>1 DEF SyncStep, LockTry, LockCheck, LockWait, TryLock, Unlock, AwaitDone, CondWait, CondTimeout,
         CondWoken, Happen, Signal, BarrierWait, BarrierWoken, RwUp, RwDown,
         WaitLoop, WaitAdd, WaitPrepare, WaitSchedule, WaitAgain, WaitTimeout, WaitCleanup
<1>2. ASSUME NEW t \in Threads, ThreadStep(t) PROVE prog' = prog
  BY <1>2 DEF ThreadStep, Create, NewTask, CreateFails, Launch, Begin, Exit, Join, JoinWait, JoinWoken,
         Detach, TaskExit, TaskLeave, WaitPid, WaitLoop, WaitAdd, WaitPrepare, WaitSchedule, WaitAgain,
         WaitCleanup
<1> QED
  BY <1>1, <1>2 DEF Next, Over, Step, vars, sleepVars

LEMMA NextOnce ==
    ASSUME TInv, PInv, LinkedOnce, OnceInv, TInv', [Next]_vars
    PROVE  OnceInv'
<1>1. CASE ~Meeting
  BY <1>1, ProgSame, MeetingSame DEF OnceInv
<1>2. CASE Meeting
  <2>1. ASSUME NEW t \in Threads, Step(t) PROVE OnceInv'
    <3>1. CASE SyncStep(t) /\ UNCHANGED threadVars
      BY <1>2, <3>1, OnceSync
    <3>2. CASE ThreadStep(t)
      <4>1. CASE WaitPid(t)
        <5>1. joining' = joining
          BY <4>1 DEF WaitPid, threadVars
        <5> QED
          BY <1>2, <4>1, <5>1, OnceOther, OnceReap
      <4> QED
        BY <1>2, <3>2, <4>1, OnceOther, OnceReap, OnceExit, OnceTaskExit, OnceJoinWait, OnceCreate
           DEF ThreadStep
    <3> QED
      BY <2>1, <3>1, <3>2 DEF Step
  <2>2. ASSUME UNCHANGED vars PROVE OnceInv'
    <3>1. UNCHANGED <<prog, ip, at, on, finished, exited, joining>>
      BY <2>2 DEF vars, sleepVars, threadVars
    <3>2. \A ops, u : CallMade(ops, u) => CallMade(ops, u)'
      BY <3>1 DEF CallMade
    <3>3. ASSUME NEW x \in Threads PROVE Awaited(x)'
      <4>1. Awaited(x)
        BY <1>2 DEF OnceInv
      <4>2. \A u : Arg(u)' = Arg(u)
        BY <3>1 DEF Arg
      <4> QED
        BY <3>1, <3>2, <4>1, <4>2 DEF Awaited
    <3> QED
      BY <1>2, <3>1, <3>2, <3>3 DEF OnceInv
  <2> QED
    BY <2>1, <2>2 DEF Next, Over
<1> QED
  BY <1>1, <1>2

LEMMA InitOnce == Init => OnceInv
<1> SUFFICES ASSUME Init PROVE OnceInv
  OBVIOUS
<1>1. \A u \in Threads : joining[u] = None /\ ip[u] = 1 /\ (u # Parent => at[u] = "none" /\ ~on[u])
  BY DEF Init
<1> QED
  BY <1>1 DEF OnceInv, Awaited

LEMMA OnceHolds == Spec /\ []Undisturbed => []OnceInv
<1>1. TInv /\ PInv /\ LinkedOnce /\ OnceInv /\ TInv' /\ [Next]_vars => OnceInv'
  BY NextOnce
<1> QED
  BY <1>1, InitOnce, ThreadsInv, PoolInv, LinksInv, PTL DEF Spec

\* What t has entered and passed, call by call.
LEMMA PassedNext ==
    ASSUME TypeOK, NEW t \in Threads, NEW b, prog' = prog
    PROVE  /\ Passed(t, b) \in Nat
           /\ ip'[t] = ip[t] => Passed(t, b)' = Passed(t, b)
           /\ ip'[t] = ip[t] + 1 /\ Op(t) = "barrier" /\ Arg(t) = b => Passed(t, b)' = Passed(t, b) + 1
           /\ ip'[t] = ip[t] + 1 /\ Op(t) # "end" /\ (Op(t) # "barrier" \/ Arg(t) # b) =>
                Passed(t, b)' = Passed(t, b)
<1>1. PICK n \in Nat : ip[t] = n + 1
  <2>1. ip[t] \in 1..(Len(prog[t]) + 1) /\ Len(prog[t]) \in Nat
    BY ProgramIs
  <2>2. ip[t] - 1 \in Nat /\ ip[t] = (ip[t] - 1) + 1
    BY <2>1
  <2> QED
    BY <2>2
<1>2. PICK s : s = prog[t]
  OBVIOUS
<1>3. /\ Count(s, n, {"barrier"}, b) \in Nat
      /\ Count(s, n + 1, {"barrier"}, b) = Count(s, n, {"barrier"}, b) +
            (IF s[n + 1].op \in {"barrier"} /\ s[n + 1].arg = b THEN 1 ELSE 0)
  BY CountNext
<1>4. Passed(t, b) = Count(s, n, {"barrier"}, b)
  BY <1>1, <1>2 DEF Passed, Made
<1>5. ip'[t] = ip[t] => Passed(t, b)' = Count(s, n, {"barrier"}, b)
  BY <1>1, <1>2 DEF Passed, Made
<1>6. ip'[t] = ip[t] + 1 => Passed(t, b)' = Count(s, n + 1, {"barrier"}, b)
  BY <1>1, <1>2 DEF Passed, Made
<1>7. Op(t) # "end" => s[n + 1].op = Op(t) /\ s[n + 1].arg = Arg(t)
  BY <1>1, <1>2, NextOpIs
<1> QED
  BY <1>3, <1>4, <1>5, <1>6, <1>7

LEMMA EnteredSame ==
    ASSUME NEW t, NEW b, prog' = prog, ip'[t] = ip[t], at'[t] = "barrier" <=> at[t] = "barrier"
    PROVE  Entered(t, b)' = Entered(t, b)
<1>1. Passed(t, b)' = Passed(t, b)
  BY DEF Passed, Made
<1>2. Arg(t)' = Arg(t)
  BY SameCall
<1> QED
  BY <1>1, <1>2 DEF Entered

\* Only barrier_wait() changes it.
LEMMA EnteredOn ==
    ASSUME TInv, TInv', NEW t \in Threads, NEW b \in Barriers, prog' = prog, Onward(t),
           at[t] = "barrier" => at'[t] = "go" /\ ip'[t] = ip[t] + 1,
           at'[t] = "barrier" => ip'[t] = ip[t] /\ Arg(t) # b,
           Op(t) = "barrier" /\ at[t] # "barrier" /\ Arg(t) = b => ip'[t] = ip[t]
    PROVE  Entered(t, b)' = Entered(t, b)
<1>1. TypeOK /\ Fine(t) /\ TypeOK' /\ ip[t] \in Nat
  BY DEF TInv, TypeOK, SleepTypeOK
<1>2. at[t] = "barrier" => Op(t) = "barrier"
  BY <1>1 DEF Fine, PlacedAt
<1>3. ip'[t] \in 1..(Len(prog[t]) + 1) /\ Len(prog[t]) \in Nat /\ ip[t] \in 1..(Len(prog[t]) + 1)
  BY <1>1, ProgramIs DEF TypeOK, SleepTypeOK
<1>4. CASE ip'[t] = ip[t]
  <2>1. at[t] # "barrier"
    BY <1>1, <1>4
  <2>2. Passed(t, b)' = Passed(t, b) /\ Arg(t)' = Arg(t)
    BY <1>1, <1>4, PassedNext, SameCall
  <2> QED
    BY <2>1, <2>2 DEF Entered
<1>5. CASE ip'[t] = ip[t] + 1
  <2>1. Op(t) # "end"
    BY <1>1, <1>3, <1>5, NextOpIs
  <2>2. at'[t] # "barrier"
    BY <1>1, <1>5
  <2>3. CASE at[t] = "barrier" /\ Arg(t) = b
    <3>1. Passed(t, b)' = Passed(t, b) + 1
      BY <1>1, <1>2, <1>5, <2>3, PassedNext
    <3>2. Passed(t, b) \in Nat
      BY <1>1, PassedNext
    <3> QED
      BY <2>2, <2>3, <3>1, <3>2 DEF Entered
  <2>4. CASE ~(at[t] = "barrier" /\ Arg(t) = b)
    <3>1. Op(t) # "barrier" \/ Arg(t) # b
      BY <1>1, <1>5, <2>4
    <3>2. Passed(t, b)' = Passed(t, b)
      BY <1>1, <1>5, <2>1, <3>1, PassedNext
    <3> QED
      BY <2>2, <2>4, <3>2 DEF Entered
  <2> QED
    BY <2>3, <2>4
<1>6. CASE at'[t] = "go" /\ ip'[t] = ip[t] + 2 /\ Op(t) \in Locks /\ MayFail(prog[t][ip[t]])
  <2>1. PICK n \in Nat : ip[t] = n + 1
    <3>1. ip[t] - 1 \in Nat /\ ip[t] = (ip[t] - 1) + 1
      BY <1>3
    <3> QED
      BY <3>1
  <2>2. Op(t) # "barrier" /\ Op(t) # "end"
    BY <1>6 DEF Locks
  <2>3. PICK s : s = prog[t]
    OBVIOUS
  <2>4. s[n + 1].op = Op(t) /\ s[n + 1].arg = Arg(t) /\ n + 1 \in DOMAIN s /\ Pairs(s) /\ MayFail(s[n + 1])
    BY <1>1, <1>3, <1>6, <2>1, <2>2, <2>3, NextOpIs, ProgramIs DEF Good
  <2>5. s[(n + 1) + 1].arg = Arg(t) /\ Arg(t) \in Mutexes
    BY <1>1, <1>6, <2>4, AtCall DEF Pairs
  <2>6. Arg(t) # b
    BY <2>5, SyncAssumption
  <2>7. n + 1 \in Nat
    OBVIOUS
  <2>8. /\ Count(s, n + 1, {"barrier"}, b) = Count(s, n, {"barrier"}, b)
        /\ Count(s, (n + 1) + 1, {"barrier"}, b) = Count(s, n + 1, {"barrier"}, b)
        /\ Count(s, n, {"barrier"}, b) \in Nat
    <3>1. /\ Count(s, n, {"barrier"}, b) \in Nat
          /\ Count(s, n + 1, {"barrier"}, b) = Count(s, n, {"barrier"}, b) +
                (IF s[n + 1].op \in {"barrier"} /\ s[n + 1].arg = b THEN 1 ELSE 0)
      BY CountNext
    <3>2. PICK k \in Nat : k = n + 1
      OBVIOUS
    <3>3. /\ Count(s, k, {"barrier"}, b) \in Nat
          /\ Count(s, k + 1, {"barrier"}, b) = Count(s, k, {"barrier"}, b) +
                (IF s[k + 1].op \in {"barrier"} /\ s[k + 1].arg = b THEN 1 ELSE 0)
      BY CountNext
    <3> QED
      BY <2>4, <2>5, <2>6, <3>1, <3>2, <3>3
  <2>9. ip[t] - 1 = n /\ ip'[t] - 1 = (n + 1) + 1
    BY <1>6, <2>1
  <2>10. Passed(t, b)' = Passed(t, b)
    BY <2>3, <2>8, <2>9 DEF Passed, Made
  <2> QED
    BY <1>2, <1>6, <2>2, <2>10 DEF Entered
<1> QED
  BY <1>4, <1>5, <1>6 DEF Onward

\* A step that touches nobody at b.
LEMMA BarrierQuiet ==
    ASSUME TInv, TInv', NEW b \in Barriers, AtBarrier(b), NEW t \in Threads, prog' = prog, Onward(t),
           arrived'[b] = arrived[b],
           \A u \in Threads \ {t} :
                /\ ip'[u] = ip[u] /\ (at'[u] = "barrier" => at[u] = "barrier")
                /\ at[u] = "barrier" => at'[u] = "barrier"
                /\ at[u] = "barrier" /\ Arg(u) = b => on'[u] = on[u] /\ waiting'[u] = waiting[u],
           at[t] = "barrier" => on[t] /\ at'[t] = "go" /\ ip'[t] = ip[t] + 1,
           at'[t] = "barrier" => ip'[t] = ip[t] /\ Arg(t) # b,
           Op(t) = "barrier" /\ at[t] # "barrier" /\ Arg(t) = b => ip'[t] = ip[t]
    PROVE  AtBarrier(b)'
<1>1. ASSUME NEW u \in Threads PROVE Entered(u, b)' = Entered(u, b)
  <2>1. CASE u = t
    BY <2>1, EnteredOn
  <2>2. CASE u # t
    BY <2>2, EnteredSame
  <2> QED
    BY <2>1, <2>2
<1>2. ASSUME NEW u \in Threads
      PROVE  (AsleepAt(u, b)' <=> AsleepAt(u, b)) /\ (AsleepAt(u, b) => on'[u] = on[u])
  <2>1. CASE u = t
    <3>1. ~AsleepAt(t, b)
      BY DEF AtBarrier, AsleepAt
    <3>2. ~AsleepAt(t, b)'
      <4>1. at'[t] = "barrier" => Arg(t)' = Arg(t)
        BY SameCall
      <4> QED
        BY <4>1 DEF AsleepAt
    <3> QED
      BY <2>1, <3>1, <3>2
  <2>2. CASE u # t
    <3>1. Arg(u)' = Arg(u)
      BY <2>2, SameCall
    <3> QED
      BY <2>2, <3>1 DEF AsleepAt
  <2> QED
    BY <2>1, <2>2
<1>3. Users(b)' = Users(b) /\ Users(b) \subseteq Threads
  BY DEF Users
<1>4. PICK n \in Nat : \A u \in Users(b) : Entered(u, b) = IF AsleepAt(u, b) THEN n + 1 ELSE n
  BY DEF AtBarrier
<1>5. \A u \in Users(b) : Entered(u, b)' = IF AsleepAt(u, b)' THEN n + 1 ELSE n
  BY <1>1, <1>2, <1>3, <1>4
<1>6. {u \in Threads : AsleepAt(u, b)}' = {u \in Threads : AsleepAt(u, b)}
  BY <1>2
<1>7. arrived'[b] = Cardinality({u \in Threads : AsleepAt(u, b)})'
  BY <1>6 DEF AtBarrier
<1>8. \A u \in Threads : AsleepAt(u, b)' => ~on'[u]
  BY <1>2 DEF AtBarrier
<1> QED
  BY <1>3, <1>5, <1>7, <1>8 DEF AtBarrier

\* Who has finished is at no barrier.
LEMMA FinishedPassed ==
    ASSUME PInv, Undisturbed, NEW u \in Threads, u \in finished \/ (Calls(Main, {"end"}) /\ u \notin {Main, Parent})
    PROVE  at[u] # "barrier"
<1>1. CASE u = Main \/ u = Parent
  BY <1>1 DEF PInv, Outer
<1>2. CASE u # Main /\ u # Parent
  BY <1>2 DEF Undisturbed, AtRest, LockedSleeps
<1> QED
  BY <1>1, <1>2

LEMMA BarrierSync ==
    ASSUME TInv, LinkedOnce, TInv', NEW b \in Barriers, AtBarrier(b), NEW t \in Threads, SyncStep(t),
           ~(BarrierWait(t) /\ Arg(t) = b)
    PROVE  AtBarrier(b)'
<1>1. TypeOK /\ Wakes(t) /\ Onward(t) /\ Fine(t)
  BY SyncLinks, SyncOnward DEF TInv
<1>2. PICK q \in Queues : Rouses(t, q) /\ (q \in Barriers => BarrierWait(t) /\ q = Arg(t) /\ IsLast(q))
  BY SyncRouses
<1>3. ASSUME NEW u \in Threads \ {t}, at[u] = "barrier", Arg(u) = b
      PROVE  on'[u] = on[u] /\ waiting'[u] = waiting[u]
  BY <1>2, <1>3, QueuedWaits DEF Rouses
<1>4. at \in [Threads -> Places] /\ ip \in [Threads -> Nat] /\ arrived \in [Barriers -> Nat]
  BY <1>1 DEF TypeOK, SleepTypeOK
<1>5. CASE BarrierWait(t)
  <2>1. /\ at[t] = "go" /\ Arg(t) # b /\ arrived'[b] = arrived[b]
        /\ at'[t] = "barrier" => ip'[t] = ip[t]
    BY <1>4, <1>5 DEF BarrierWait, Calls, Goto, Return
  <2> QED
    BY <1>1, <1>3, <2>1, BarrierQuiet DEF Wakes
<1>6. CASE BarrierWoken(t)
  <2>1. /\ on[t] /\ at[t] = "barrier" /\ at'[t] = "go" /\ ip'[t] = ip[t] + 1 /\ arrived' = arrived
    BY <1>4, <1>6 DEF BarrierWoken, WaitCleanup, Inside, Return, syncVars
  <2> QED
    BY <1>1, <1>3, <2>1, BarrierQuiet DEF Wakes
<1>7. CASE \/ LockTry(t) \/ LockCheck(t) \/ LockWait(t) \/ TryLock(t) \/ Unlock(t)
           \/ AwaitDone(t) \/ CondWait(t) \/ CondTimeout(t) \/ CondWoken(t) \/ Happen(t) \/ Signal(t)
           \/ RwUp(t) \/ RwDown(t)
  <2>1. arrived' = arrived
    BY <1>7 DEF LockTry, LockCheck, LockWait, TryLock, Unlock, AwaitDone, CondWait, CondTimeout, CondWoken,
                Happen, Signal, RwUp, RwDown, syncVars
  <2>2. Op(t) # "barrier"
    BY <1>1, <1>7 DEF LockTry, LockCheck, LockWait, TryLock, Unlock, AwaitDone, CondWait, CondTimeout,
                CondWoken, Happen, Signal, RwUp, RwDown, Calls, Inside, Awaits, Fine, PlacedAt
  <2>3. at[t] # "barrier"
    BY <1>1, <2>2 DEF Fine, PlacedAt
  <2>4. at'[t] # "barrier"
    <3>1. at'[t] = "barrier" => Op(t)' = "barrier" /\ ip'[t] = ip[t]
      BY <1>1 DEF TInv, Fine, PlacedAt, Onward
    <3>2. ip'[t] = ip[t] => Op(t)' = Op(t)
      BY <1>1, SameCall DEF Wakes
    <3> QED
      BY <2>2, <3>1, <3>2
  <2> QED
    BY <1>1, <1>3, <2>1, <2>2, <2>3, <2>4, BarrierQuiet DEF Wakes
<1> QED
  BY <1>5, <1>6, <1>7 DEF SyncStep

\* The lives of threads leave the sleepers alone.
LEMMA BarrierLives ==
    ASSUME TInv, PInv, Undisturbed, TInv', NEW b \in Barriers, AtBarrier(b), NEW t \in Threads,
           Lives(t), Onward(t), arrived' = arrived,
           at[t] # "barrier", at'[t] # "barrier", Op(t) = "barrier" => ip'[t] = ip[t],
           \A u \in Threads \ {t} : at[u] = "barrier" => u \notin exited',
           \A u \in Threads \ {t} : at[u] = "barrier" /\ Arg(u) = b => on'[u] = on[u] /\ waiting'[u] = waiting[u]
    PROVE  AtBarrier(b)'
<1>1. \A u \in Threads \ {t} :
        /\ ip'[u] = ip[u] /\ (at'[u] = "barrier" => at[u] = "barrier")
        /\ at[u] = "barrier" => at'[u] = "barrier"
  BY DEF Lives, Stays
<1>2. prog' = prog
  BY DEF Lives
<1> QED
  BY <1>1, <1>2, BarrierQuiet

LEMMA BarrierLaunch ==
    ASSUME TInv, PInv, Undisturbed, OnceInv, Meeting, TInv', NEW b \in Barriers, AtBarrier(b),
           NEW t \in Threads, Launch(t), arrived' = arrived
    PROVE  AtBarrier(b)'
<1>1. TypeOK /\ Lives(t) /\ Onward(t) /\ exited = finished /\ at \in [Threads -> Places]
  BY OtherLives DEF TInv, TypeOK, Ended, Launch, CreateFails, Calls
<1>2. Op(t) = "launch" /\ Op(t) # "end" /\ at[t] = "go" /\ at'[t] = "go" /\ exited' = exited
  BY <1>1 DEF Launch, Calls, Return, threadVars
<1>3. PICK v \in Threads \ {Main, Parent, t} : v = Arg(t)
  BY <1>1, <1>2, AtCall
<1>4. at[v] # "barrier"
  <2>1. AtMostOnce({"launch"}, v)
    BY DEF Meeting
  <2>2. ~CallMade({"launch"}, v)
    BY <1>1, <1>2, <1>3, <2>1, FirstCall
  <2> QED
    BY <2>2 DEF OnceInv
<1>5. ASSUME NEW u \in Threads \ {t}, at[u] = "barrier" PROVE on'[u] = on[u] /\ waiting'[u] = waiting[u]
  <2>1. u \notin Woken({v} \ exited)
    BY <1>4, <1>5 DEF Woken
  <2>2. Settle(t, waiting[t], on[t], {v} \ exited)
    BY <1>3 DEF Launch
  <2>3. /\ on[t] \in BOOLEAN /\ waiting[t] \in BOOLEAN /\ on[u] \in BOOLEAN /\ waiting[u] \in BOOLEAN
    BY <1>1 DEF TypeOK, SleepTypeOK
  <2> QED
    BY <1>1, <2>1, <2>2, <2>3 DEF Settle
<1>6. \A u \in Threads : at[u] = "barrier" => u \notin exited'
  BY <1>1, <1>2, FinishedPassed
<1> QED
  BY <1>1, <1>2, <1>5, <1>6, BarrierLives

LEMMA BarrierExit ==
    ASSUME TInv, PInv, Undisturbed, OnceInv, Meeting, TInv', NEW b \in Barriers, AtBarrier(b),
           NEW t \in Threads, Exit(t), arrived' = arrived
    PROVE  AtBarrier(b)'
<1>1. TypeOK /\ Lives(t) /\ Onward(t) /\ exited = finished
  BY ExitLives DEF TInv, Ended
<1>2. /\ Op(t) = "end" /\ at[t] = "go" /\ exited' = exited \cup {t} /\ finished' = finished \cup {t}
      /\ Settle(t, TRUE, FALSE, Joiners(t))
  BY DEF Exit, Calls
<1>3. t \in finished' /\ at'[t] # "barrier"
  <2>1. at'[t] \in {"none", "gone"}
    BY DEF Exit, Delete
  <2> QED
    BY <1>2, <2>1
<1>4. ASSUME NEW u \in Threads \ {t}, at[u] = "barrier" PROVE on'[u] = on[u] /\ waiting'[u] = waiting[u]
  <2>1. u \notin finished
    BY <1>4, FinishedPassed
  <2>2. u \notin Joiners(t)
    BY <1>2, <1>4, <2>1 DEF Joiners, OnceInv, Awaited
  <2>3. u \notin Woken(Joiners(t))
    BY <2>2 DEF Woken
  <2>4. on[u] \in BOOLEAN /\ waiting[u] \in BOOLEAN
    BY <1>1 DEF TypeOK, SleepTypeOK
  <2> QED
    BY <1>2, <2>3, <2>4 DEF Settle
<1>5. \A u \in Threads \ {t} : at[u] = "barrier" => u \notin exited'
  BY <1>1, <1>2, FinishedPassed
<1> QED
  BY <1>1, <1>2, <1>3, <1>4, <1>5, BarrierLives

LEMMA BarrierTaskExit ==
    ASSUME TInv, PInv, Undisturbed, LinkedOnce, TInv', NEW b \in Barriers, AtBarrier(b),
           TaskExit, arrived' = arrived
    PROVE  AtBarrier(b)'
<1>0. PICK t \in Threads : t = Main
  BY ThreadAssumption
<1>1. TypeOK /\ Lives(t) /\ Onward(t) /\ exited = finished
  BY <1>0, ExitLives DEF TInv, Ended
<1>2. PICK V : V = {u \in Threads \ {Main, Parent} : ~InPool(u) /\ u \notin deleted}
  OBVIOUS
<1>3. PICK C : C = Woken(ToSet(queue[Children]))
  OBVIOUS
<1>4. /\ Calls(Main, {"end"}) /\ exited' = exited \cup V \cup {Main} /\ Op(t) = "end" /\ at[t] = "go"
      /\ waiting' = [u \in Threads |-> u = Main \/ (waiting[u] /\ u \notin V \cup C)]
      /\ \E R \in SUBSET {u \in V : on[u] /\ at[u] \notin LockedSleeps} :
            on' = [u \in Threads |-> IF u \in V THEN u \in R ELSE on[u] \/ u \in C]
  BY <1>0, <1>2, <1>3 DEF TaskExit, Calls
<1>5. at'[t] # "barrier"
  BY <1>0, ThreadAssumption DEF TaskExit, Delete
<1>6. ASSUME NEW u \in Threads, at[u] = "barrier" PROVE u \notin V /\ u \notin finished
  BY <1>2, <1>4, <1>6, FinishedPassed
<1>7. \A u \in Threads \ {t} : at[u] = "barrier" => u \notin exited'
  BY <1>0, <1>1, <1>4, <1>6
<1>8. ASSUME NEW u \in Threads \ {t}, at[u] = "barrier", Arg(u) = b
      PROVE  on'[u] = on[u] /\ waiting'[u] = waiting[u]
  <2>1. u \notin C
    <3>1. u \in ToSet(queue[Children]) => Arg(u) = Children
      BY <1>8, QueuedWaits, ThreadAssumption
    <3> QED
      BY <1>3, <1>8, <3>1, ProgramAssumption DEF Woken
  <2>2. on[u] \in BOOLEAN /\ waiting[u] \in BOOLEAN
    BY <1>1 DEF TypeOK, SleepTypeOK
  <2> QED
    BY <1>0, <1>4, <1>6, <1>8, <2>1, <2>2
<1> QED
  BY <1>1, <1>4, <1>5, <1>7, <1>8, BarrierLives

LEMMA BarrierLife ==
    ASSUME TInv, PInv, Undisturbed, LinkedOnce, OnceInv, Meeting, TInv', NEW b \in Barriers, AtBarrier(b),
           NEW t \in Threads, arrived' = arrived,
           CreateFails(t) \/ Begin(t) \/ Join(t) \/ JoinWait(t) \/ JoinWoken(t) \/ Detach(t) \/ WaitPid(t)
             \/ (t = Main /\ TaskLeave)
    PROVE  AtBarrier(b)'
<1>1. ~CreateFails(t)
  BY FirstCreated DEF CreateFails, InPool
<1>2. ThreadStep(t) /\ ~Create(t) /\ ~NewTask(t)
  <2>1. ThreadStep(t)
    BY <1>1 DEF ThreadStep
  <2>2. CASE Create(t) \/ NewTask(t)
    BY <1>1, <2>2, AtCall DEF Create, NewTask, Begin, Join, JoinWait, JoinWoken, Detach, WaitPid, Collect,
           TaskLeave, Calls, Inside, TInv, Fine, PlacedAt
  <2> QED
    BY <2>1, <2>2
<1>3. TypeOK /\ Lives(t) /\ Onward(t) /\ exited = finished /\ Fine(t)
  BY <1>1, <1>2, ThreadLives DEF TInv, Ended
<1>4. exited' = exited
  BY <1>1 DEF Begin, Join, JoinWait, JoinWoken, Detach, WaitPid, TaskLeave, threadVars
<1>5. \A u \in Threads : at[u] = "barrier" => u \notin exited'
  BY <1>3, <1>4, FinishedPassed
<1>6. UNCHANGED <<on, waiting>> \/ \E w, o \in BOOLEAN : Settle(t, w, o, {})
  <2>1. TRUE \in BOOLEAN /\ FALSE \in BOOLEAN
    OBVIOUS
  <2> QED
    BY <1>1, <2>1 DEF Begin, Join, JoinWait, JoinWoken, Detach, TaskLeave, WaitPid, Collect, WaitLoop, WaitAdd,
           WaitPrepare, WaitSchedule, WaitAgain, WaitCleanup
<1>7. Rouses(t, Children)
  BY <1>3, <1>6, RousesIs
<1>8. ASSUME NEW u \in Threads \ {t}, at[u] = "barrier", Arg(u) = b
      PROVE  on'[u] = on[u] /\ waiting'[u] = waiting[u]
  BY <1>7, <1>8, QueuedWaits, ThreadAssumption, ProgramAssumption DEF Rouses
<1>9. at[t] # "barrier"
  BY <1>1, <1>3 DEF Begin, Join, JoinWait, JoinWoken, Detach, TaskLeave, WaitPid, Collect, Calls, Inside, Fine,
         PlacedAt
<1>10. at'[t] # "barrier" /\ (Op(t) = "barrier" => ip'[t] = ip[t])
  <2>1. CASE Begin(t) \/ (t = Main /\ TaskLeave)
    <3>1. at \in [Threads -> Places]
      BY <1>3 DEF TypeOK
    <3> QED
      BY <2>1, <3>1 DEF Begin, TaskLeave, Goto
  <2>2. CASE Join(t) \/ JoinWait(t) \/ JoinWoken(t) \/ Detach(t) \/ WaitPid(t)
    <3>1. Op(t) # "barrier"
      BY <1>3, <2>2 DEF Join, JoinWait, JoinWoken, Detach, WaitPid, Collect, Calls, Inside, Fine, PlacedAt
    <3>2. at'[t] = "barrier" => Op(t)' = "barrier" /\ ip'[t] = ip[t]
      BY <1>3 DEF TInv, Fine, PlacedAt, Onward
    <3>3. ip'[t] = ip[t] => Op(t)' = Op(t)
      BY <1>3, SameCall DEF Lives
    <3> QED
      BY <3>1, <3>2, <3>3
  <2> QED
    BY <1>1, <2>1, <2>2
<1> QED
  BY <1>3, <1>5, <1>8, <1>9, <1>10, BarrierLives

LEMMA BarrierCreate ==
    ASSUME TInv, OnceInv, Meeting, TInv', NEW b \in Barriers, AtBarrier(b), NEW t \in Threads,
           Create(t) \/ NewTask(t), arrived' = arrived
    PROVE  AtBarrier(b)'
<1>0. PICK v : v = Arg(t)
  OBVIOUS
<1>1. /\ Calls(t, {"create", "new_task"}) /\ Initialised(t, v) /\ prog' = prog
      /\ on' = on \/ on' = [on EXCEPT ![v] = TRUE]
      /\ \E w : waiting' = [waiting EXCEPT ![v] = w]
  BY <1>0 DEF Create, NewTask, Calls
<1>2. v \in Threads \ {t, Parent} /\ at[v] = "none" /\ ip[v] = 1
  BY <1>0, <1>1, FirstCreated
<1>3. TypeOK /\ Op(t) \in {"create", "new_task"} /\ at[t] = "go"
  BY <1>1 DEF TInv, Calls
<1>4. /\ at'[v] = "new" /\ ip'[t] = ip[t] + 1 /\ at'[t] = "go"
      /\ \A u \in Threads \ {v} : at'[u] = at[u] /\ on'[u] = on[u] /\ waiting'[u] = waiting[u]
      /\ \A u \in Threads \ {t} : ip'[u] = ip[u]
  BY <1>1, <1>2, <1>3 DEF Initialised, TypeOK, SleepTypeOK
<1>5. Onward(t)
  BY <1>4 DEF Onward
<1> QED
  BY <1>1, <1>2, <1>3, <1>4, <1>5, BarrierQuiet

\* Who calls barrier_wait() uses the barrier.
LEMMA UserIs ==
    ASSUME TypeOK, NEW t \in Threads, Op(t) = "barrier"
    PROVE  t \in Users(Arg(t))
<1>1. ip[t] \in 1..Len(prog[t]) /\ prog[t][ip[t]].op = "barrier" /\ prog[t][ip[t]].arg = Arg(t)
      /\ prog[t] \in Seq(Call(t))
  BY NextOpIs, ProgramIs DEF Good
<1>2. prog[t][ip[t]] \in Call(t) /\ ip[t] \in DOMAIN prog[t]
  BY <1>1
<1>3. PICK c \in Call(t) : c = prog[t][ip[t]]
  BY <1>2
<1>4. c.op = "barrier" => c \in [op : {"barrier"}, arg : Barriers]
  BY DEF Call, Locks, Awaits
<1>5. c = [op |-> "barrier", arg |-> Arg(t)]
  BY <1>1, <1>3, <1>4
<1> QED
  BY <1>2, <1>3, <1>5 DEF Users

\* One more sleeps at the barrier.
LEMMA BarrierArrives ==
    ASSUME TInv, TInv', NEW b \in Barriers, AtBarrier(b), NEW t \in Threads, BarrierWait(t), Arg(t) = b,
           ~IsLast(b)
    PROVE  AtBarrier(b)'
<1>1. TypeOK /\ at \in [Threads -> Places] /\ arrived \in [Barriers -> Nat] /\ prog' = prog
  BY DEF TInv, TypeOK, BarrierWait
<1>2. /\ at[t] = "go" /\ Op(t) = "barrier" /\ arrived' = [arrived EXCEPT ![b] = @ + 1]
      /\ Settle(t, TRUE, FALSE, {}) /\ Goto(t, "barrier")
  BY DEF BarrierWait, Calls
<1>3. arrived'[b] = arrived[b] + 1 /\ at'[t] = "barrier" /\ ip' = ip
      /\ \A u \in Threads \ {t} : at'[u] = at[u]
  BY <1>1, <1>2 DEF Goto
<1>4. waiting'[t] /\ ~on'[t] /\ \A u \in Threads \ {t} : on'[u] = on[u] /\ waiting'[u] = waiting[u]
  <2>1. on \in [Threads -> BOOLEAN] /\ waiting \in [Threads -> BOOLEAN]
    BY <1>1 DEF TypeOK, SleepTypeOK
  <2>2. \A u \in Threads : u \notin Woken({})
    BY DEF Woken
  <2> QED
    BY <1>2, <2>1, <2>2 DEF Settle
<1>5. Arg(t)' = b /\ \A u \in Threads \ {t} : Arg(u)' = Arg(u)
  BY <1>1, <1>3, SameCall
<1>6. ~AsleepAt(t, b) /\ AsleepAt(t, b)'
  BY <1>2, <1>3, <1>4, <1>5 DEF AsleepAt
<1>7. ASSUME NEW u \in Threads \ {t}
      PROVE  Entered(u, b)' = Entered(u, b) /\ (AsleepAt(u, b)' <=> AsleepAt(u, b))
  BY <1>1, <1>3, <1>4, <1>5, EnteredSame DEF AsleepAt
<1>8. Entered(t, b)' = Entered(t, b) + 1
  <2>1. Passed(t, b)' = Passed(t, b) /\ Passed(t, b) \in Nat
    BY <1>1, <1>3, PassedNext
  <2> QED
    BY <1>2, <1>3, <1>5, <2>1 DEF Entered
<1>9. PICK n \in Nat : \A u \in Users(b) : Entered(u, b) = IF AsleepAt(u, b) THEN n + 1 ELSE n
  BY DEF AtBarrier
<1>10. Users(b)' = Users(b) /\ Users(b) \subseteq Threads
  BY <1>1 DEF Users
<1>11. \A u \in Users(b)' : Entered(u, b)' = IF AsleepAt(u, b)' THEN n + 1 ELSE n
  BY <1>6, <1>7, <1>8, <1>9, <1>10
<1>12. arrived'[b] = Cardinality({u \in Threads : AsleepAt(u, b)})'
  <2> DEFINE A == {u \in Threads : AsleepAt(u, b)}
  <2>1. {u \in Threads : AsleepAt(u, b)}' = A \cup {t}
    BY <1>6, <1>7
  <2>2. IsFiniteSet(A) /\ t \notin A
    BY <1>6, ProgramAssumption, FS_Subset
  <2>3. Cardinality(A \cup {t}) = Cardinality(A) + 1
    BY <2>2, FS_AddElement
  <2>4. arrived[b] = Cardinality(A)
    BY DEF AtBarrier
  <2> QED
    BY <1>3, <2>1, <2>3, <2>4
<1>13. \A u \in Threads : AsleepAt(u, b)' => ~on'[u]
  BY <1>4, <1>7 DEF AtBarrier
<1> QED
  BY <1>11, <1>12, <1>13 DEF AtBarrier

\* The last one wakes all the others, and they are all there.
LEMMA BarrierLast ==
    ASSUME TInv, PInv, Undisturbed, Meeting, TInv', NEW b \in Barriers, AtBarrier(b), NEW t \in Threads,
           BarrierWait(t), Arg(t) = b, IsLast(b)
    PROVE  AtBarrier(b)'
<1>1. TypeOK /\ at \in [Threads -> Places] /\ ip \in [Threads -> Nat] /\ arrived \in [Barriers -> Nat]
      /\ prog' = prog
  BY DEF TInv, TypeOK, SleepTypeOK, BarrierWait
<1>2. /\ at[t] = "go" /\ Op(t) = "barrier" /\ arrived' = [arrived EXCEPT ![b] = 0]
      /\ WakeAll(t, b) /\ Return(t, 1)
  BY DEF BarrierWait, Calls
<1>3. /\ arrived'[b] = 0 /\ at'[t] = "go" /\ ip'[t] = ip[t] + 1
      /\ \A u \in Threads \ {t} : at'[u] = at[u] /\ ip'[u] = ip[u]
  BY <1>1, <1>2 DEF Return
<1>4. \A u \in Threads \ {t} : Arg(u)' = Arg(u)
  BY <1>1, <1>3, SameCall
<1>5. ASSUME NEW u \in Threads PROVE ~AsleepAt(u, b)'
  <2>1. CASE u = t
    BY <1>3, <2>1 DEF AsleepAt
  <2>2. CASE u # t
    <3> SUFFICES ASSUME at[u] = "barrier", Arg(u) = b PROVE ~waiting'[u]
      BY <1>3, <1>4, <2>2 DEF AsleepAt
    <3>1. u \in ToSet(queue[b])
      BY DEF TInv, Fine, LinkedAt, Spot
    <3>2. u \notin finished
      BY FinishedPassed
    <3>3. waiting[u] => u \in Woken(ToSet(queue[b]))
      BY <3>1, <3>2 DEF Woken
    <3> QED
      BY <1>2, <2>2, <3>3 DEF WakeAll, Settle
  <2> QED
    BY <2>1, <2>2
<1>6. PICK n \in Nat : \A u \in Users(b) : Entered(u, b) = IF AsleepAt(u, b) THEN n + 1 ELSE n
  BY DEF AtBarrier
<1>7. Users(b)' = Users(b) /\ Users(b) \subseteq Threads /\ t \in Users(b)
  BY <1>1, <1>2, UserIs DEF Users
<1>8. ~AsleepAt(t, b)
  BY <1>2 DEF AsleepAt
<1>9. ASSUME NEW u \in Users(b) \ {t} PROVE AsleepAt(u, b)
  <2> DEFINE A == {x \in Threads : AsleepAt(x, b)}
             U == Users(b) \ {t}
  <2>1. A \subseteq U
    <3> SUFFICES ASSUME NEW x \in A PROVE x \in U
      OBVIOUS
    <3>1. at[x] = "barrier" /\ Arg(x) = b
      BY DEF AsleepAt
    <3>2. Op(x) = "barrier"
      BY <3>1 DEF TInv, Fine, PlacedAt
    <3> QED
      BY <1>1, <1>8, <3>1, <3>2, UserIs
  <2>2. IsFiniteSet(Users(b)) /\ Cardinality(Users(b)) = Parties[b]
    BY <1>7, ProgramAssumption, FS_Subset DEF Meeting
  <2>3. IsFiniteSet(U) /\ Cardinality(U) = Cardinality(Users(b)) - 1
    BY <1>7, <2>2, FS_RemoveElement
  <2>4. Cardinality(A) = arrived[b] /\ arrived[b] \in Nat /\ Parties[b] = arrived[b] + 1
    BY <1>1 DEF AtBarrier, IsLast
  <2>5. Cardinality(A) = Cardinality(U)
    BY <2>2, <2>3, <2>4
  <2>6. A = U
    BY <2>1, <2>3, <2>5, FS_Subset
  <2> QED
    BY <2>6
<1>10. ASSUME NEW u \in Users(b) PROVE Entered(u, b)' = n + 1
  <2>1. CASE u = t
    <3>1. Passed(t, b)' = Passed(t, b) + 1 /\ Passed(t, b) \in Nat
      BY <1>1, <1>2, <1>3, PassedNext
    <3>2. Entered(t, b) = Passed(t, b) /\ Entered(t, b)' = Passed(t, b)'
      BY <1>2, <1>3, <3>1 DEF Entered
    <3> QED
      BY <1>6, <1>7, <1>8, <2>1, <3>1, <3>2
  <2>2. CASE u # t
    <3>1. Entered(u, b)' = Entered(u, b)
      BY <1>1, <1>3, <1>7, <2>2, EnteredSame
    <3> QED
      BY <1>6, <1>9, <2>2, <3>1
  <2> QED
    BY <2>1, <2>2
<1>11. \E k \in Nat : \A u \in Users(b)' : Entered(u, b)' = IF AsleepAt(u, b)' THEN k + 1 ELSE k
  <2>1. PICK k \in Nat : k = n + 1
    OBVIOUS
  <2> QED
    BY <1>5, <1>7, <1>10, <2>1
<1>12. arrived'[b] = Cardinality({u \in Threads : AsleepAt(u, b)})'
  <2>1. {u \in Threads : AsleepAt(u, b)}' = {}
    BY <1>5
  <2> QED
    BY <1>3, <2>1, FS_EmptySet
<1> QED
  BY <1>5, <1>11, <1>12 DEF AtBarrier

LEMMA PassedNat ==
    ASSUME TypeOK, NEW t \in Threads, NEW b
    PROVE  Passed(t, b) \in Nat
<1>1. PICK k \in Nat : ip[t] - 1 = k
  BY ProgramIs
<1>2. Count(prog[t], k, {"barrier"}, b) \in Nat
  BY CountNext
<1> QED
  BY <1>1, <1>2 DEF Passed, Made

LEMMA NextBarrier ==
    ASSUME TInv, PInv, Undisturbed, LinkedOnce, OnceInv, BarrierInv, TInv', [Next]_vars
    PROVE  BarrierInv'
<1> SUFFICES ASSUME Meeting, NEW b \in Barriers PROVE AtBarrier(b)'
  BY ProgSame, MeetingSame DEF BarrierInv
<1>1. AtBarrier(b)
  BY DEF BarrierInv
<1>2. ASSUME NEW t \in Threads, Step(t) PROVE AtBarrier(b)'
  <2>1. CASE SyncStep(t)
    <3>1. CASE BarrierWait(t) /\ Arg(t) = b
      BY <1>1, <3>1, BarrierArrives, BarrierLast
    <3> QED
      BY <1>1, <2>1, <3>1, BarrierSync
  <2>2. CASE ThreadStep(t) /\ arrived' = arrived
    BY <1>1, <2>2, BarrierLaunch, BarrierExit, BarrierTaskExit, BarrierLife, BarrierCreate DEF ThreadStep
  <2> QED
    BY <1>2, <2>1, <2>2 DEF Step
<1>3. ASSUME UNCHANGED vars PROVE AtBarrier(b)'
  <2>1. UNCHANGED <<prog, ip, at, on, waiting, arrived>>
    BY <1>3 DEF vars, sleepVars, syncVars
  <2>2. \A u : Arg(u)' = Arg(u) /\ (AsleepAt(u, b)' <=> AsleepAt(u, b))
    BY <2>1 DEF Arg, AsleepAt
  <2>3. \A u : Entered(u, b)' = Entered(u, b)
    BY <2>1, EnteredSame
  <2>4. Users(b)' = Users(b)
    BY <2>1 DEF Users
  <2>5. {u \in Threads : AsleepAt(u, b)}' = {u \in Threads : AsleepAt(u, b)}
    BY <2>2
  <2>6. PICK n \in Nat : \A u \in Users(b) : Entered(u, b) = IF AsleepAt(u, b) THEN n + 1 ELSE n
    BY <1>1 DEF AtBarrier
  <2>7. \A u \in Users(b)' : Entered(u, b)' = IF AsleepAt(u, b)' THEN n + 1 ELSE n
    BY <2>2, <2>3, <2>4, <2>6
  <2>8. arrived'[b] = Cardinality({u \in Threads : AsleepAt(u, b)})'
    BY <1>1, <2>1, <2>5 DEF AtBarrier
  <2>9. \A u \in Threads : AsleepAt(u, b)' => ~on'[u]
    BY <1>1, <2>1, <2>2 DEF AtBarrier
  <2> QED
    BY <2>7, <2>8, <2>9 DEF AtBarrier
<1> QED
  BY <1>2, <1>3 DEF Next, Over

LEMMA InitBarrier == Init => BarrierInv
<1> SUFFICES ASSUME Init, NEW b \in Barriers PROVE AtBarrier(b)
  BY DEF BarrierInv
<1>1. \A t \in Threads : at[t] # "barrier" /\ ip[t] = 1
  BY DEF Init
<1>2. \A t \in Threads : ~AsleepAt(t, b)
  BY <1>1 DEF AsleepAt
<1>3. ASSUME NEW t \in Threads PROVE Entered(t, b) = 0
  <2>1. PICK n \in Nat : n = 0
    OBVIOUS
  <2>2. ip[t] - 1 = n
    BY <1>1, <2>1
  <2>3. Count(prog[t], n, {"barrier"}, b) = 0
    BY <2>1, CountNext
  <2>4. Passed(t, b) = 0
    BY <2>2, <2>3 DEF Passed, Made
  <2> QED
    BY <1>1, <2>4 DEF Entered
<1>4. {t \in Threads : AsleepAt(t, b)} = {}
  BY <1>2
<1>5. arrived[b] = Cardinality({t \in Threads : AsleepAt(t, b)})
  BY <1>4, FS_EmptySet DEF Init
<1>6. \A t \in Users(b) : Entered(t, b) = IF AsleepAt(t, b) THEN 0 + 1 ELSE 0
  BY <1>2, <1>3 DEF Users
<1> QED
  BY <1>2, <1>5, <1>6 DEF AtBarrier

\* In every program whose barriers are met by as many threads as they count, that
\* creates and launches every thread once, and whose task exits with its threads at
\* rest: no thread comes out of barrier_wait() before all the others have come to
\* it, in every round, and current_count is the number of those who sleep there.
THEOREM BarrierTogetherHolds == Spec /\ []Undisturbed => []BarrierTogether
<1>1. Init => BarrierInv
  BY InitBarrier
<1>2. /\ TInv /\ PInv /\ Undisturbed /\ LinkedOnce /\ OnceInv /\ BarrierInv /\ TInv' /\ [Next]_vars
      => BarrierInv'
  BY NextBarrier
<1>3. TInv /\ PInv /\ Undisturbed /\ BarrierInv => BarrierTogether
  <2> SUFFICES ASSUME TInv, PInv, Undisturbed, BarrierInv, Meeting, NEW b \in Barriers
               PROVE  /\ \A t, u \in Users(b) \cap Live : Passed(t, b) <= Entered(u, b)
                      /\ Cardinality({t \in Threads : Sleeps(t) /\ at[t] = "barrier" /\ Arg(t) = b}) = arrived[b]
    BY DEF BarrierTogether
  <2>1. AtBarrier(b)
    BY DEF BarrierInv
  <2>2. PICK n \in Nat : \A u \in Users(b) : Entered(u, b) = IF AsleepAt(u, b) THEN n + 1 ELSE n
    BY <2>1 DEF AtBarrier
  <2>3. ASSUME NEW t \in Users(b) PROVE Passed(t, b) <= n /\ n <= Entered(t, b)
    <3>1. t \in Threads /\ TypeOK
      BY DEF Users, TInv
    <3>3. Passed(t, b) \in Nat
      BY <3>1, PassedNat
    <3>4. AsleepAt(t, b) => Entered(t, b) = Passed(t, b) + 1
      BY DEF AsleepAt, Entered
    <3>5. Entered(t, b) = Passed(t, b) \/ Entered(t, b) = Passed(t, b) + 1
      BY <3>3 DEF Entered
    <3> QED
      BY <2>2, <2>3, <3>3, <3>4, <3>5
  <2>4. ASSUME NEW t \in Users(b), NEW u \in Users(b) PROVE Passed(t, b) <= Entered(u, b)
    <3>1. Passed(t, b) <= n /\ n <= Entered(u, b)
      BY <2>3
    <3>2. TypeOK /\ t \in Threads /\ u \in Threads
      BY DEF TInv, Users
    <3>3. Passed(t, b) \in Nat /\ Entered(u, b) \in Nat
      BY <2>2, <3>2, PassedNat
    <3> QED
      BY <3>1, <3>3
  <2>5. ASSUME NEW t \in Threads
        PROVE  Sleeps(t) /\ at[t] = "barrier" /\ Arg(t) = b <=> AsleepAt(t, b)
    <3>1. AsleepAt(t, b) => ~on[t] /\ t \notin finished
      BY <2>1, FinishedPassed DEF AtBarrier, AsleepAt
    <3> QED
      BY <3>1 DEF AsleepAt, Sleeps, Live
  <2>6. {t \in Threads : Sleeps(t) /\ at[t] = "barrier" /\ Arg(t) = b} = {t \in Threads : AsleepAt(t, b)}
    BY <2>5
  <2>7. Cardinality({t \in Threads : Sleeps(t) /\ at[t] = "barrier" /\ Arg(t) = b}) = arrived[b]
    BY <2>1, <2>6 DEF AtBarrier
  <2> QED
    BY <2>4, <2>7
<1> QED
  BY <1>1, <1>2, <1>3, ThreadsInv, PoolInv, LinksInv, OnceHolds, PTL DEF Spec
=============================================================================
