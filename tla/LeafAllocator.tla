--------------------------- MODULE LeafAllocator ---------------------------
(***************************************************************************)
(* rolex/leaf_allocator.hpp: the counter [used, total] at the head of the  *)
(* leaf region, from which the server threads of a memory node draw leaf   *)
(* numbers under a SpinLock (fetch_new_leaf), and which a compute node     *)
(* also increments with an RDMA fetch-and-add (LearnedCache::insert).      *)
(*                                                                         *)
(* A call of fetch_new_leaf is seven steps of one thread:                  *)
(*   idle -> lock <-> spin -> read -> write -> check -> unlock -> bound    *)
(* A failed ASSERT calls abort(): the whole memory node stops.             *)
(***************************************************************************)
EXTENDS Naturals, FiniteSets

CONSTANTS Threads,    \* server threads of the memory node
          Clients,    \* compute nodes that fetch-and-add the counter over RDMA
          Total       \* allocated_num(): leaves preallocated in the pool

ASSUME TotalAssumption == Total \in Nat
ASSUME ActorsAssumption == Threads \cap Clients = {}

Actors == Threads \cup Clients

VARIABLES lock_,      \* SpinLock::lock_, 0 free and 1 busy
          used,       \* the u64 at mem_pool: used_num()
          pc,         \* where each server thread is in fetch_new_leaf
          res,        \* the thread's local `res` of fetch_and_add
          owned,      \* the leaf numbers each actor was handed so far
          aborted     \* "no", or the ASSERT that stopped the memory node

vars == <<lock_, used, pc, res, owned, aborted>>

Init ==
  /\ lock_ = 0
  /\ used = 0
  /\ pc = [t \in Threads |-> "idle"]
  /\ res = [t \in Threads |-> 0]
  /\ owned = [a \in Actors |-> {}]
  /\ aborted = "no"

Goto(t, from, to) ==
  /\ aborted = "no"
  /\ pc[t] = from
  /\ pc' = [pc EXCEPT ![t] = to]

\* LeafTable and SubModel call fetch_new_leaf whenever a leaf is full.
Call(t) ==
  /\ Goto(t, "idle", "lock")
  /\ UNCHANGED <<lock_, used, res, owned, aborted>>

\* faulty: a lock that is taken without looking at what the xchg returned
AcquireBlindly(t) ==
  /\ Goto(t, "lock", "read")
  /\ lock_' = 1
  /\ UNCHANGED <<used, res, owned, aborted>>

\* xchg16(&lock_, 1) returned 0: the lock is taken.
Acquire(t) ==
  /\ lock_ = 0
  /\ Goto(t, "lock", "read")
  /\ lock_' = 1
  /\ UNCHANGED <<used, res, owned, aborted>>

\* faulty: an atomic add where the code exchanges
ContendAdding(t) ==
  /\ lock_ > 0
  /\ Goto(t, "lock", "spin")
  /\ lock_' = lock_ + 1
  /\ UNCHANGED <<used, res, owned, aborted>>

\* xchg16(&lock_, 1) returned 1 (and stored the 1 again): spin.
Contend(t) ==
  /\ lock_ = 1
  /\ Goto(t, "lock", "spin")
  /\ UNCHANGED <<lock_, used, res, owned, aborted>>

\* while (lock_) cpu_relax(); and back to the xchg.
Spin(t) ==
  /\ lock_ = 0
  /\ Goto(t, "spin", "lock")
  /\ UNCHANGED <<lock_, used, res, owned, aborted>>

\* faulty: the lock given back before the increment is written
ReadUsedUnlocking(t) ==
  /\ Goto(t, "read", "write")
  /\ res' = [res EXCEPT ![t] = used]
  /\ lock_' = 0
  /\ UNCHANGED <<used, owned, aborted>>

\* auto res = deserialize(mem_pool)
ReadUsed(t) ==
  /\ Goto(t, "read", "write")
  /\ res' = [res EXCEPT ![t] = used]
  /\ UNCHANGED <<lock_, used, owned, aborted>>

\* faulty: one leaf too many taken from the pool
WriteUsedTwice(t) ==
  /\ Goto(t, "write", "check")
  /\ used' = res[t] + 2
  /\ UNCHANGED <<lock_, res, owned, aborted>>

\* memcpy(mem_pool, &res_add) with res_add = res + 1
WriteUsed(t) ==
  /\ Goto(t, "write", "check")
  /\ used' = res[t] + 1
  /\ UNCHANGED <<lock_, res, owned, aborted>>

\* ASSERT(res_add == read_res)
CheckUsed(t) ==
  /\ IF used = res[t] + 1
       THEN Goto(t, "check", "unlock") /\ UNCHANGED aborted
       ELSE Goto(t, "check", "dead") /\ aborted' = "reread"
  /\ UNCHANGED <<lock_, used, res, owned>>

\* faulty: an exit path without the unlock
UnlockForgotten(t) ==
  /\ Goto(t, "unlock", "bound")
  /\ UNCHANGED <<lock_, used, res, owned, aborted>>

Unlock(t) ==
  /\ Goto(t, "unlock", "bound")
  /\ lock_' = 0
  /\ UNCHANGED <<used, res, owned, aborted>>

\* faulty: the bound of the pool off by one
ReturnPastPool(t) ==
  /\ res[t] <= Total
  /\ Goto(t, "bound", "idle")
  /\ owned' = [owned EXCEPT ![t] = @ \cup {res[t]}]
  /\ UNCHANGED <<lock_, used, res, aborted>>

\* ASSERT(num < allocated_num()), then {address, num} is returned.
Return(t) ==
  /\ IF res[t] < Total
       THEN /\ Goto(t, "bound", "idle")
            /\ owned' = [owned EXCEPT ![t] = @ \cup {res[t]}]
            /\ UNCHANGED aborted
       ELSE /\ Goto(t, "bound", "dead")
            /\ aborted' = "insufficient"
            /\ UNCHANGED owned
  /\ UNCHANGED <<lock_, used, res>>

\* LearnedCache::insert: set_fetch_add(1) on the first word of the region, done
\* by the NIC whatever the SpinLock says. The client stops drawing numbers at
\* Total so that the counter stays bounded.
RemoteFetchAdd(c) ==
  /\ used < Total
  /\ used' = used + 1
  /\ owned' = [owned EXCEPT ![c] = @ \cup {used}]
  /\ UNCHANGED <<lock_, pc, res, aborted>>

ThreadStep(t) ==
  \/ Acquire(t) \/ Contend(t) \/ Spin(t) \/ ReadUsed(t) \/ WriteUsed(t)
  \/ CheckUsed(t) \/ Unlock(t) \/ Return(t)

Next ==
  \/ \E t \in Threads : Call(t) \/ ThreadStep(t)
  \/ \E c \in Clients : RemoteFetchAdd(c)

Spec == Init /\ [][Next]_vars

\* Each running thread keeps taking steps. The spin lock is not fair: nothing
\* says which of the threads that spin gets it.
FairSpec == Spec /\ \A t \in Threads : WF_vars(ThreadStep(t))
-----------------------------------------------------------------------------
TypeOK ==
  /\ lock_ \in {0, 1}
  /\ used \in Nat
  /\ pc \in [Threads -> {"idle", "lock", "spin", "read", "write", "check",
                         "unlock", "bound", "dead"}]
  /\ res \in [Threads -> Nat]
  /\ owned \in [Actors -> SUBSET Nat]
  /\ aborted \in {"no", "reread", "insufficient"}

\* the threads between SpinLock::lock() and unlock()
Critical == {t \in Threads : pc[t] \in {"read", "write", "check", "unlock"}}

\* the threads that took a number from the counter and hold it in `res` only
InFlight == {t \in Threads : pc[t] \in {"check", "unlock", "bound", "dead"}}

\* SpinLock: no two threads are between lock() and unlock() of fetch_and_add.
MutualExclusion ==
  \A s, t \in Threads : s \in Critical /\ t \in Critical => s = t

\* fetch_new_leaf hands every leaf number to one caller only: no two actors own
\* the same leaf, and no call in flight holds a number somebody owns or holds.
LeavesDistinct ==
  /\ \A a, b \in Actors : a # b => owned[a] \cap owned[b] = {}
  /\ \A s, t \in InFlight : s # t => res[s] # res[t]
  /\ \A s \in InFlight, a \in Actors : res[s] \notin owned[a]

\* The same among server threads alone: the SpinLock keeps their numbers apart
\* even when a compute node increments the counter behind it.
ThreadLeavesDistinct ==
  /\ \A s, t \in Threads : s # t => owned[s] \cap owned[t] = {}
  /\ \A s, t \in InFlight : s # t => res[s] # res[t]
  /\ \A s \in InFlight, t \in Threads : res[s] \notin owned[t]

\* every number below used_num() is owned, or on its way to the thread that drew it
NoLeafLost ==
  \A n \in 0 .. used - 1 :
    (\E a \in Actors : n \in owned[a]) \/ (\E t \in InFlight : res[t] = n)

\* a leaf in use is one the counter has passed and one of the preallocated pool
OwnedInPool ==
  \A a \in Actors : \A n \in owned[a] : n < used /\ n < Total

\* fetch_new_leaf keeps the books of the pool, also when it runs out between the
\* draw of a number and the check of it: no leaf is skipped, and none is handed out
\* that get_leaf's ASSERT or the one on allocated_num() should have stopped.
PoolAccounted == NoLeafLost /\ OwnedInPool

\* ASSERT(res_add == read_res) of fetch_and_add (leaf_allocator.hpp:131): the
\* counter read back is the one just written.
RereadHolds == aborted # "reread"

\* used_num() never goes back, whatever the interleaving.
Monotone == [][used' >= used]_vars

\* SpinLock and fetch_new_leaf: when a thread waits for the lock, some thread
\* gets through to its number, or an ASSERT stops the node; the lock never
\* leaves everybody waiting.
SomeoneServed ==
  (\E t \in Threads : pc[t] \in {"lock", "spin"})
    ~> \/ aborted # "no"
       \/ \E t \in Threads : pc[t] = "bound"
-----------------------------------------------------------------------------
\* What the code promises its callers: the counter is one atomic fetch-and-add.
\* A number is drawn when the new counter reaches memory (WriteUsed).
drawn == [a \in Actors |->
            owned[a] \cup IF a \in InFlight THEN {res[a]} ELSE {}]

Dispenser == INSTANCE LeafDispenser WITH next <- used

DispenserSpec == Dispenser!Spec
=============================================================================
