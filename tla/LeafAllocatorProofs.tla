------------------------- MODULE LeafAllocatorProofs -------------------------
(***************************************************************************)
(* The leaf counter of LeafAllocator, for every set of server threads and  *)
(* every pool size: mutual exclusion with any number of compute nodes, and *)
(* an atomic dispenser of distinct leaf numbers when no compute node       *)
(* touches the counter.                                                    *)
(***************************************************************************)
EXTENDS LeafAllocator, TLAPS

USE DEF Actors

\* The spin lock is busy while a thread is between lock() and unlock().
LockHeld == \A t \in Critical : lock_ = 1

\* Inductive with any Clients.
LockInv == TypeOK /\ LockHeld /\ MutualExclusion

\* What the holder of the lock knows of the counter: the number it read is
\* current until it writes the next one, and that one stays.
HolderKnows ==
  \A t \in Threads :
    /\ pc[t] = "write" => used = res[t]
    /\ pc[t] \in {"check", "unlock"} => used = res[t] + 1
    /\ t \in InFlight => res[t] < used

\* Inductive when Clients = {}.
CounterInv ==
  /\ LockInv
  /\ HolderKnows
  /\ LeavesDistinct
  /\ NoLeafLost
  /\ RereadHolds
  /\ OwnedInPool
-----------------------------------------------------------------------------
\* The first state of the region: counter 0, no thread in fetch_new_leaf.
LEMMA InitLock == Init => LockInv
BY DEF Init, LockInv, TypeOK, LockHeld, MutualExclusion, Critical

\* Every step of every thread and of every compute node keeps the lock's
\* invariant.
LEMMA NextLock == LockInv /\ [Next]_vars => LockInv'
<1> SUFFICES ASSUME LockInv, [Next]_vars PROVE LockInv'
  OBVIOUS
<1> USE DEF LockInv, TypeOK, LockHeld, MutualExclusion, Critical, Goto
<1>1. ASSUME NEW t \in Threads, Call(t) PROVE LockInv'
  BY <1>1 DEF Call
<1>2. ASSUME NEW t \in Threads, Acquire(t) PROVE LockInv'
  BY <1>2 DEF Acquire
<1>3. ASSUME NEW t \in Threads, Contend(t) PROVE LockInv'
  BY <1>3 DEF Contend
<1>4. ASSUME NEW t \in Threads, Spin(t) PROVE LockInv'
  BY <1>4 DEF Spin
<1>5. ASSUME NEW t \in Threads, ReadUsed(t) PROVE LockInv'
  BY <1>5 DEF ReadUsed
<1>6. ASSUME NEW t \in Threads, WriteUsed(t) PROVE LockInv'
  BY <1>6 DEF WriteUsed
<1>7. ASSUME NEW t \in Threads, CheckUsed(t) PROVE LockInv'
  BY <1>7 DEF CheckUsed
<1>8. ASSUME NEW t \in Threads, Unlock(t) PROVE LockInv'
  BY <1>8 DEF Unlock
<1>9. ASSUME NEW t \in Threads, Return(t) PROVE LockInv'
  BY <1>9 DEF Return
<1>10. ASSUME NEW c \in Clients, RemoteFetchAdd(c) PROVE LockInv'
  BY <1>10 DEF RemoteFetchAdd
<1>11. CASE UNCHANGED vars
  BY <1>11 DEF vars
<1> QED
  BY <1>1, <1>2, <1>3, <1>4, <1>5, <1>6, <1>7, <1>8, <1>9, <1>10, <1>11
  DEF Next, ThreadStep

\* The variables of the allocator keep their types: lock_ is a flag, the counter
\* and the drawn leaf numbers are naturals.
THEOREM TypeCorrect == Spec => []TypeOK
<1>1. LockInv => TypeOK
  BY DEF LockInv
<1> QED
  BY InitLock, NextLock, <1>1, PTL DEF Spec

\* SpinLock: at most one server thread is between lock() and unlock() of
\* fetch_and_add, however many threads and compute nodes there are.
THEOREM LockExcludes == Spec => []MutualExclusion
<1>1. LockInv => MutualExclusion
  BY DEF LockInv
<1> QED
  BY InitLock, NextLock, <1>1, PTL DEF Spec
-----------------------------------------------------------------------------
\* The constructor starts the counter at 0, with no leaf handed out.
LEMMA InitCounter == Init => CounterInv
<1>1. ASSUME Init PROVE NoLeafLost
  BY <1>1 DEF Init, NoLeafLost
<1> QED
  BY InitLock, <1>1
  DEF Init, CounterInv, HolderKnows, LeavesDistinct, RereadHolds, OwnedInPool,
      InFlight

\* With no compute node on the counter, every step of every thread keeps what
\* the lock's holder knows and the books of who has which leaf.
LEMMA NextCounter ==
  ASSUME Clients = {}
  PROVE  CounterInv /\ [Next]_vars => CounterInv'
<1> SUFFICES ASSUME CounterInv, [Next]_vars PROVE CounterInv'
  OBVIOUS
<1>0. LockInv'
  BY NextLock DEF CounterInv
<1> USE DEF CounterInv, LockInv, TypeOK, LockHeld, MutualExclusion, Critical,
            HolderKnows, LeavesDistinct, NoLeafLost, RereadHolds, OwnedInPool,
            InFlight, Goto
<1>1. ASSUME NEW t \in Threads, Call(t) PROVE CounterInv'
  BY <1>0, <1>1 DEF Call
<1>2. ASSUME NEW t \in Threads, Acquire(t) PROVE CounterInv'
  BY <1>0, <1>2 DEF Acquire
<1>3. ASSUME NEW t \in Threads, Contend(t) PROVE CounterInv'
  BY <1>0, <1>3 DEF Contend
<1>4. ASSUME NEW t \in Threads, Spin(t) PROVE CounterInv'
  BY <1>0, <1>4 DEF Spin
<1>5. ASSUME NEW t \in Threads, ReadUsed(t) PROVE CounterInv'
  BY <1>0, <1>5 DEF ReadUsed
<1>6. ASSUME NEW t \in Threads, WriteUsed(t) PROVE CounterInv'
  <2>1. used' = used + 1 /\ res[t] = used /\ used \in Nat
    BY <1>6 DEF WriteUsed
  <2>2. HolderKnows'
    BY <1>6, <2>1 DEF WriteUsed
  <2>3. LeavesDistinct'
    BY <1>6, <2>1 DEF WriteUsed
  <2>4. NoLeafLost'
    <3> SUFFICES ASSUME NEW n \in 0 .. used' - 1
                 PROVE  \/ \E a \in Actors : n \in owned'[a]
                        \/ \E s \in InFlight' : res'[s] = n
      BY DEF NoLeafLost
    <3>1. CASE n = used
      BY <1>6, <2>1, <3>1 DEF WriteUsed
    <3>2. CASE n \in 0 .. used - 1
      BY <1>6, <2>1, <3>2 DEF WriteUsed
    <3> QED
      BY <2>1, <3>1, <3>2
  <2>5. RereadHolds' /\ OwnedInPool'
    BY <1>6, <2>1 DEF WriteUsed
  <2> QED
    BY <1>0, <2>2, <2>3, <2>4, <2>5
<1>7. ASSUME NEW t \in Threads, CheckUsed(t) PROVE CounterInv'
  <2>1. used = res[t] + 1
    BY <1>7 DEF CheckUsed
  <2> QED
    BY <1>0, <1>7, <2>1 DEF CheckUsed
<1>8. ASSUME NEW t \in Threads, Unlock(t) PROVE CounterInv'
  BY <1>0, <1>8 DEF Unlock
<1>9. ASSUME NEW t \in Threads, Return(t) PROVE CounterInv'
  <2>1. CASE res[t] < Total
    <3>1. HolderKnows'
      BY <1>9, <2>1 DEF Return
    <3>2. LeavesDistinct'
      BY <1>9, <2>1 DEF Return
    <3>3. NoLeafLost'
      BY <1>9, <2>1 DEF Return
    <3>4. RereadHolds' /\ OwnedInPool'
      BY <1>9, <2>1 DEF Return
    <3> QED
      BY <1>0, <3>1, <3>2, <3>3, <3>4
  <2>2. CASE ~(res[t] < Total)
    BY <1>0, <1>9, <2>2 DEF Return
  <2> QED
    BY <2>1, <2>2
<1>11. CASE UNCHANGED vars
  BY <1>0, <1>11 DEF vars
<1> QED
  BY <1>1, <1>2, <1>3, <1>4, <1>5, <1>6, <1>7, <1>8, <1>9, <1>11
  DEF Next, ThreadStep

\* fetch_new_leaf: no leaf number is handed out twice, for every number of
\* threads, as long as the server's threads alone increment the counter.
THEOREM NoLeafTwice ==
  ASSUME Clients = {}
  PROVE  Spec => []LeavesDistinct
<1>1. CounterInv => LeavesDistinct
  BY DEF CounterInv
<1>2. CounterInv /\ [Next]_vars => CounterInv'
  BY NextCounter
<1> QED
  BY InitCounter, <1>1, <1>2, PTL DEF Spec

\* fetch_and_add: no leaf of the pool is skipped, the re-read never fails its
\* ASSERT, and a leaf in use is in the pool and below the counter.
THEOREM CounterExact ==
  ASSUME Clients = {}
  PROVE  Spec => [](PoolAccounted /\ RereadHolds)
<1>1. CounterInv => PoolAccounted /\ RereadHolds
  BY DEF CounterInv, PoolAccounted
<1>2. CounterInv /\ [Next]_vars => CounterInv'
  BY NextCounter
<1> QED
  BY InitCounter, <1>1, <1>2, PTL DEF Spec

\* used_num() never decreases.
THEOREM CounterMonotone ==
  ASSUME Clients = {}
  PROVE  Spec => Monotone
<1>1. CounterInv /\ [Next]_vars => [used' >= used]_vars
  BY DEF CounterInv, LockInv, TypeOK, HolderKnows, Goto, Next, ThreadStep, vars,
         Call, Acquire, Contend, Spin, ReadUsed, WriteUsed, CheckUsed, Unlock,
         Return
<1>2. CounterInv /\ [Next]_vars => CounterInv'
  BY NextCounter
<1> QED
  BY InitCounter, <1>1, <1>2, PTL DEF Spec, Monotone
-----------------------------------------------------------------------------
\* The locked read-modify-write is one atomic draw of LeafDispenser, which takes
\* effect when the incremented counter is written.
THEOREM ImplementsDispenser ==
  ASSUME Clients = {}
  PROVE  Spec => DispenserSpec
<1> USE DEF drawn, InFlight
<1>1. Init => Dispenser!Init
  BY DEF Init, Dispenser!Init
<1>2. CounterInv /\ [Next]_vars => [Dispenser!Next]_<<used, drawn>>
  <2> SUFFICES ASSUME CounterInv, [Next]_vars
               PROVE  Dispenser!Next \/ UNCHANGED <<used, drawn>>
    OBVIOUS
  <2> USE DEF CounterInv, LockInv, TypeOK, HolderKnows, Goto
  <2>1. ASSUME NEW t \in Threads, WriteUsed(t) PROVE Dispenser!Draw(t)
    BY <2>1 DEF WriteUsed, Dispenser!Draw
  <2>2. ASSUME NEW t \in Threads,
               Call(t) \/ Acquire(t) \/ Contend(t) \/ Spin(t) \/ ReadUsed(t)
        PROVE  UNCHANGED <<used, drawn>>
    BY <2>2 DEF Call, Acquire, Contend, Spin, ReadUsed
  <2>3. ASSUME NEW t \in Threads, CheckUsed(t) \/ Unlock(t)
        PROVE  UNCHANGED <<used, drawn>>
    BY <2>3 DEF CheckUsed, Unlock
  <2>4. ASSUME NEW t \in Threads, Return(t) PROVE UNCHANGED <<used, drawn>>
    BY <2>4 DEF Return
  <2>5. CASE UNCHANGED vars
    BY <2>5 DEF vars
  <2> QED
    BY <2>1, <2>2, <2>3, <2>4, <2>5 DEF Next, ThreadStep, Dispenser!Next
<1>3. CounterInv /\ [Next]_vars => CounterInv'
  BY NextCounter
<1> QED
  BY InitCounter, <1>1, <1>2, <1>3, PTL DEF Spec, DispenserSpec, Dispenser!Spec
-----------------------------------------------------------------------------
\* What the spin lock is worth when compute nodes increment the counter behind it:
\* the number the lock's holder writes back is above all that the threads have,
\* although the counter itself may be lowered by that write.
AboveThreads ==
  /\ \A t \in InFlight : res[t] < used
  /\ \A t \in Threads : \A n \in owned[t] : n < used
  /\ \A t \in Threads : pc[t] = "write" =>
       /\ res[t] <= used
       /\ \A s \in InFlight : res[s] < res[t]
       /\ \A s \in Threads : \A n \in owned[s] : n < res[t]

\* Inductive with any Clients.
ThreadsInv == LockInv /\ AboveThreads /\ ThreadLeavesDistinct

\* Every step of fetch_new_leaf, and of a compute node, keeps the threads' leaves apart.
LEMMA NextThreads == ThreadsInv /\ [Next]_vars => ThreadsInv'
<1> SUFFICES ASSUME ThreadsInv, [Next]_vars PROVE ThreadsInv'
  OBVIOUS
<1>0. LockInv'
  BY NextLock DEF ThreadsInv
<1> USE ActorsAssumption
    DEF ThreadsInv, LockInv, TypeOK, LockHeld, MutualExclusion, Critical,
        AboveThreads, ThreadLeavesDistinct, InFlight, Goto
<1>1. ASSUME NEW t \in Threads, Call(t) PROVE ThreadsInv'
  BY <1>0, <1>1 DEF Call
<1>2. ASSUME NEW t \in Threads, Acquire(t) PROVE ThreadsInv'
  BY <1>0, <1>2 DEF Acquire
<1>3. ASSUME NEW t \in Threads, Contend(t) PROVE ThreadsInv'
  BY <1>0, <1>3 DEF Contend
<1>4. ASSUME NEW t \in Threads, Spin(t) PROVE ThreadsInv'
  BY <1>0, <1>4 DEF Spin
<1>5. ASSUME NEW t \in Threads, ReadUsed(t) PROVE ThreadsInv'
  BY <1>0, <1>5 DEF ReadUsed
<1>6. ASSUME NEW t \in Threads, WriteUsed(t) PROVE ThreadsInv'
  <2>1. \A s \in Threads : pc'[s] # "write"
    BY <1>6 DEF WriteUsed
  <2>2. AboveThreads'
    BY <1>6, <2>1 DEF WriteUsed
  <2>3. ThreadLeavesDistinct'
    BY <1>6 DEF WriteUsed
  <2> QED
    BY <1>0, <2>2, <2>3
<1>7. ASSUME NEW t \in Threads, CheckUsed(t) PROVE ThreadsInv'
  BY <1>0, <1>7 DEF CheckUsed
<1>8. ASSUME NEW t \in Threads, Unlock(t) PROVE ThreadsInv'
  BY <1>0, <1>8 DEF Unlock
<1>9. ASSUME NEW t \in Threads, Return(t) PROVE ThreadsInv'
  <2>1. CASE res[t] < Total
    <3>1. AboveThreads'
      BY <1>9, <2>1 DEF Return
    <3>2. ThreadLeavesDistinct'
      BY <1>9, <2>1 DEF Return
    <3> QED
      BY <1>0, <3>1, <3>2
  <2>2. CASE ~(res[t] < Total)
    BY <1>0, <1>9, <2>2 DEF Return
  <2> QED
    BY <2>1, <2>2
<1>10. ASSUME NEW c \in Clients, RemoteFetchAdd(c) PROVE ThreadsInv'
  <2>1. \A t \in Threads : owned'[t] = owned[t]
    BY <1>10 DEF RemoteFetchAdd
  <2> QED
    BY <1>0, <1>10, <2>1 DEF RemoteFetchAdd
<1>11. CASE UNCHANGED vars
  BY <1>0, <1>11 DEF vars
<1> QED
  BY <1>1, <1>2, <1>3, <1>4, <1>5, <1>6, <1>7, <1>8, <1>9, <1>10, <1>11
  DEF Next, ThreadStep

\* The RDMA increments of any number of compute nodes never make fetch_new_leaf
\* hand one leaf to two calls of the server's own threads.
THEOREM ThreadsNeverShare == Spec => []ThreadLeavesDistinct
<1>1. Init => ThreadsInv
  BY InitLock
  DEF Init, ThreadsInv, AboveThreads, ThreadLeavesDistinct, InFlight
<1>2. ThreadsInv => ThreadLeavesDistinct
  BY DEF ThreadsInv
<1> QED
  BY <1>1, <1>2, NextThreads, PTL DEF Spec
=============================================================================
