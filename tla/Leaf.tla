-------------------------------- MODULE Leaf --------------------------------
(***************************************************************************)
(* rolex/leaf.hpp: a data leaf of N slots, sorted by key, the unused slots *)
(* at the end. A leaf is a function from slots to [key, val] records; the  *)
(* two arrays keys and vals of the code move together here (LeafTableConc  *)
(* takes them apart). An unused slot has key invalidKey(); the bytes that  *)
(* stay behind in its val are dropped, since no caller stores invalidKey() *)
(* and so nothing reads them.                                              *)
(***************************************************************************)
EXTENDS Integers, Sequences

CONSTANTS N,            \* max_slot()
          InvalidKey,   \* invalidKey(): the largest value of K
          Vals,         \* the values clients store
          NoVal         \* no value: search returned false

ASSUME LeafAssumption ==
  /\ N \in Nat /\ N > 1
  /\ InvalidKey \in Nat
  /\ NoVal \notin Vals

Slots == 0 .. N - 1
Keys == 0 .. InvalidKey - 1

Empty == [key |-> InvalidKey, val |-> NoVal]
Entries == [key : Keys, val : Vals]
Leaves == [Slots -> Entries \cup {Empty}]

Least(S) == CHOOSE x \in S : \A y \in S : x <= y
Greatest(S) == CHOOSE x \in S : \A y \in S : x >= y

\* Leaf(): every slot unused
NewLeaf == [i \in Slots |-> Empty]

isfull(l) == l[N - 1].key # InvalidKey
isEmpty(l) == l[0].key = InvalidKey
insertHere(l, k) == k >= l[0].key

At(l, k) == {i \in Slots : l[i].key = k}

contain(l, k) == l[0].key <= k /\ At(l, k) # {}

search(l, k) == IF contain(l, k) THEN l[Least(At(l, k))].val ELSE NoVal

update(l, k, v) ==
  IF contain(l, k) THEN [l EXCEPT ![Least(At(l, k))].val = v] ELSE l

\* The first slot whose key is not below k, and the first unused slot from there
\* on: what is between them moves up by one.
insert_not_full(l, k, v) ==
  LET above == {i \in Slots : l[i].key >= k}
      i == Least(above)
      unused == {j \in Slots : j >= i /\ l[j].key = InvalidKey}
      j == Least(unused)
  IN  IF above = {} \/ At(l, k) # {} \/ unused = {}
        THEN l
        ELSE [s \in Slots |-> IF s = i THEN [key |-> k, val |-> v]
                              ELSE IF i < s /\ s <= j THEN l[s - 1]
                              ELSE l[s]]

\* remove() does not compare with keys[0] first; the slots above move down.
remove(l, k) ==
  IF At(l, k) = {} THEN l
  ELSE [s \in Slots |-> IF s < Least(At(l, k)) THEN l[s]
                        ELSE IF s < N - 1 THEN l[s + 1]
                        ELSE Empty]

\* LeafTable::insert_synonym moves half of a full leaf to a new one: the slots
\* mid .. 2*mid-1 go to slots 0 .. mid-1 of n_leaf.
mid == N \div 2

upper_half(l) == [s \in Slots |-> IF s < mid THEN l[mid + s] ELSE Empty]

\* faulty: the moved slots not reset to invalidKey()
lower_halfKept(l) == l

lower_half(l) ==
  [s \in Slots |-> IF mid <= s /\ s < 2 * mid THEN Empty ELSE l[s]]

\* range(): the values of the keys from k on, up to the first unused slot
range(l, k) ==
  LET from[i \in 0 .. N] ==
        IF i = N \/ l[i].key = InvalidKey THEN <<>>
        ELSE (IF l[i].key >= k THEN <<l[i].val>> ELSE <<>>) \o from[i + 1]
  IN  from[0]
-----------------------------------------------------------------------------
\* self_check(): keys strictly increasing, and no used slot after an unused one.
Sorted(l) ==
  \A i, j \in Slots :
    i < j => l[i].key < l[j].key \/ l[j] = Empty

KeysOf(l) == {l[i].key : i \in Slots} \ {InvalidKey}
=============================================================================
