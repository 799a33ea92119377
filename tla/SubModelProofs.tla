---------------------------- MODULE SubModelProofs ----------------------------
(***************************************************************************)
(* Lemmas about the operators of Leaf, LeafTable and SubModel, for leaves, *)
(* tables, models and keys of any size. What the leaf operations do to a   *)
(* sorted leaf and to the chains of a table; and where a model's line      *)
(* leads: the branchless search finds the model of a key, predict stays    *)
(* inside the leaves of the model, and training fills sorted leaves.       *)
(*                                                                         *)
(* A chain is a recursive function over the synonym slots. Nothing is      *)
(* known of it but its equation, and that only when the links go round in  *)
(* no circle: a rank that falls along every link says so. Whatever follows *)
(* the links then is the chain.                                            *)
(***************************************************************************)
EXTENDS SubModel, WellFoundedInduction, TLAPS

\* The least-number principle, which the proofs by induction rest on.
LEMMA LeastNumber ==
  ASSUME NEW S \in SUBSET Nat, S # {}
  PROVE  \E x \in S : \A y \in S : x <= y
<1>1. IsWellFoundedOn(OpToRel(<, Nat), Nat)
  BY NatLessThanWellFounded
<1>2. PICK x \in S : \A y \in S : ~ (<<y, x>> \in OpToRel(<, Nat))
  BY <1>1, WFMin
<1>3. \A y \in S : ~ (y < x)
  BY <1>2 DEF OpToRel
<1> QED
  BY <1>3

\* The scans of a leaf stop at the first slot that fits.
LEMMA LeastLemma ==
  ASSUME NEW S \in SUBSET Nat, S # {}
  PROVE  Least(S) \in S /\ \A y \in S : Least(S) <= y
BY LeastNumber DEF Least

\* The walks back along a chain and a window take the last place that fits.
LEMMA GreatestLemma ==
  ASSUME NEW S \in SUBSET Int, S # {}, NEW b \in Int, \A y \in S : y <= b
  PROVE  Greatest(S) \in S /\ \A y \in S : y <= Greatest(S)
<1> DEFINE D == {d \in Nat : b - d \in S}
<1>1. D # {}
  <2>1. PICK y \in S : TRUE
    OBVIOUS
  <2>2. b - y \in Nat /\ b - (b - y) = y
    BY <2>1
  <2> QED
    BY <2>1, <2>2
<1>2. PICK d \in D : \A e \in D : d <= e
  BY <1>1, LeastNumber
<1>3. ASSUME NEW y \in S PROVE y <= b - d
  <2>1. b - y \in D
    BY <1>3
  <2> QED
    BY <1>2, <2>1
<1>4. \E x \in S : \A y \in S : x >= y
  BY <1>2, <1>3
<1>5. \A y \in S : Greatest(S) >= y
  BY <1>4 DEF Greatest
<1>6. Greatest(S) \in S
  BY <1>4 DEF Greatest
<1> QED
  BY <1>5, <1>6
-----------------------------------------------------------------------------
\* The keys of a leaf with their values
Content(l) == {l[i] : i \in Slots} \ {Empty}

\* A leaf's slots
LEMMA SlotLemma ==
  ASSUME NEW l \in Leaves
  PROVE  /\ N \in Nat /\ N > 1 /\ 0 \in Slots /\ N - 1 \in Slots
         /\ InvalidKey \in Nat /\ Slots \subseteq Nat
         /\ \A i \in Slots : /\ l[i] \in Entries \cup {Empty}
                             /\ l[i].key \in 0 .. InvalidKey
                             /\ l[i].key = InvalidKey <=> l[i] = Empty
                             /\ l[i].key # InvalidKey =>
                                  l[i] \in Entries /\ l[i].key \in Keys
         /\ \A e : e \in Content(l) <=> \E i \in Slots : l[i] = e /\ l[i].key # InvalidKey
         /\ \A k : k \in KeysOf(l) <=> \E i \in Slots : l[i].key = k /\ k # InvalidKey
<1>1. /\ N \in Nat /\ N > 1 /\ 0 \in Slots /\ N - 1 \in Slots
      /\ InvalidKey \in Nat /\ Slots \subseteq Nat
  BY LeafAssumption DEF Slots
<1>2. \A i \in Slots : /\ l[i] \in Entries \cup {Empty}
                       /\ l[i].key \in 0 .. InvalidKey
                       /\ l[i].key = InvalidKey <=> l[i] = Empty
                       /\ l[i].key # InvalidKey =>
                            l[i] \in Entries /\ l[i].key \in Keys
  BY <1>1 DEF Leaves, Entries, Empty, Keys
<1>3. \A e : e \in Content(l) <=> \E i \in Slots : l[i] = e /\ l[i].key # InvalidKey
  BY <1>2 DEF Content
<1>4. \A k : k \in KeysOf(l) <=> \E i \in Slots : l[i].key = k /\ k # InvalidKey
  BY DEF KeysOf
<1> QED
  BY <1>1, <1>2, <1>3, <1>4

\* The keys of a leaf are those of its entries.
LEMMA KeysLemma ==
  ASSUME NEW l \in Leaves
  PROVE  /\ KeysOf(l) \subseteq Keys /\ Content(l) \subseteq Entries
         /\ \A k : k \in KeysOf(l) <=> \E e \in Content(l) : e.key = k
BY SlotLemma

\* Leaf(): a new leaf is sorted and has no keys.
LEMMA NewLeafLemma == NewLeaf \in Leaves /\ Sorted(NewLeaf) /\ Content(NewLeaf) = {}
<1>1. NewLeaf \in Leaves
  BY DEF NewLeaf, Leaves
<1>2. \A i \in Slots : NewLeaf[i] = Empty
  BY DEF NewLeaf
<1> QED
  BY <1>1, <1>2 DEF Sorted, Content

\* contain, search and update meet a key where it is, if it is in the sorted leaf.
LEMMA FoundLemma ==
  ASSUME NEW l \in Leaves, Sorted(l), NEW k \in Keys
  PROVE  /\ At(l, k) # {} <=> k \in KeysOf(l)
         /\ contain(l, k) <=> k \in KeysOf(l)
         /\ At(l, k) # {} => Least(At(l, k)) \in Slots /\ l[Least(At(l, k))].key = k
         /\ \A i \in Slots : l[i].key = k => i = Least(At(l, k))
         /\ \A e \in Content(l) : e.key = k => search(l, k) = e.val
         /\ k \notin KeysOf(l) => search(l, k) = NoVal
<1>1. /\ Slots \subseteq Nat /\ 0 \in Slots /\ InvalidKey \in Nat /\ k \in Nat
      /\ k < InvalidKey
  BY SlotLemma, LeafAssumption DEF Keys
<1>2. At(l, k) \in SUBSET Nat /\ At(l, k) \subseteq Slots
  BY <1>1 DEF At
<1>3. At(l, k) # {} <=> k \in KeysOf(l)
  BY <1>1, SlotLemma DEF At
<1>4. At(l, k) # {} => Least(At(l, k)) \in Slots /\ l[Least(At(l, k))].key = k
  <2>1. At(l, k) # {} => Least(At(l, k)) \in At(l, k)
    BY <1>2, LeastLemma
  <2> QED
    BY <2>1 DEF At
<1>5. ASSUME NEW i \in Slots, NEW j \in Slots, l[i].key = k, l[j].key = k
      PROVE  i = j
  BY <1>1, <1>5, SlotLemma DEF Sorted
<1>6. \A i \in Slots : l[i].key = k => i = Least(At(l, k))
  BY <1>4, <1>5 DEF At
<1>7. ASSUME k \in KeysOf(l) PROVE l[0].key <= k
  <2>1. PICK i \in Slots : l[i].key = k
    BY <1>7, SlotLemma
  <2>2. l[0].key \in Nat /\ l[i] # Empty /\ i \in Nat
    BY <1>1, <2>1, SlotLemma
  <2> QED
    BY <1>1, <2>1, <2>2 DEF Sorted
<1>8. contain(l, k) <=> k \in KeysOf(l)
  BY <1>3, <1>7 DEF contain
<1>9. ASSUME NEW e \in Content(l), e.key = k PROVE search(l, k) = e.val
  <2>1. PICK i \in Slots : l[i] = e
    BY SlotLemma
  <2>2. k \in KeysOf(l) /\ i = Least(At(l, k))
    BY <1>6, <1>9, <2>1, KeysLemma
  <2> QED
    BY <1>8, <2>1, <2>2 DEF search
<1>10. k \notin KeysOf(l) => search(l, k) = NoVal
  BY <1>8 DEF search
<1> QED
  BY <1>3, <1>4, <1>6, <1>8, <1>9, <1>10

\* insertHere and isEmpty look at the first key, which is the smallest.
LEMMA FirstKeyLemma ==
  ASSUME NEW l \in Leaves, Sorted(l)
  PROVE  /\ \A j \in KeysOf(l) : l[0].key <= j
         /\ isEmpty(l) <=> KeysOf(l) = {}
         /\ ~ isEmpty(l) => l[0].key \in KeysOf(l)
         /\ \A k \in Keys : insertHere(l, k) => ~ isEmpty(l)
<1>1. /\ Slots \subseteq Nat /\ 0 \in Slots /\ InvalidKey \in Nat
  BY SlotLemma
<1>2. ASSUME NEW j \in KeysOf(l) PROVE l[0].key <= j
  <2>1. PICK i \in Slots : l[i].key = j /\ j # InvalidKey
    BY SlotLemma
  <2>2. l[0].key \in Nat /\ l[i] # Empty /\ i \in Nat /\ l[i].key \in Nat
    BY <1>1, <2>1, SlotLemma
  <2> QED
    BY <1>1, <2>1, <2>2 DEF Sorted
<1>3. ~ isEmpty(l) => l[0].key \in KeysOf(l)
  BY <1>1, SlotLemma DEF isEmpty
<1>4. ASSUME isEmpty(l), NEW j \in KeysOf(l) PROVE FALSE
  <2>1. l[0].key = InvalidKey /\ j < InvalidKey
    BY <1>4, KeysLemma, <1>1 DEF isEmpty, Keys
  <2> QED
    BY <1>1, <1>2, <1>4, <2>1, KeysLemma DEF Keys
<1>5. ASSUME NEW k \in Keys, insertHere(l, k) PROVE ~ isEmpty(l)
  BY <1>1, <1>5 DEF insertHere, isEmpty, Keys
<1> QED
  BY <1>2, <1>3, <1>4, <1>5

\* update changes the value of one key.
LEMMA UpdateLemma ==
  ASSUME NEW l \in Leaves, Sorted(l), NEW k \in Keys, NEW v \in Vals
  PROVE  LET u == update(l, k, v)
         IN  /\ u \in Leaves /\ Sorted(u) /\ KeysOf(u) = KeysOf(l)
             /\ \A i \in Slots : u[i].key = l[i].key
             /\ Content(u) =
                  IF k \in KeysOf(l)
                    THEN {e \in Content(l) : e.key # k} \cup {[key |-> k, val |-> v]}
                    ELSE Content(l)
<1> DEFINE u == update(l, k, v)
           x == Least(At(l, k))
<1>1. CASE k \notin KeysOf(l)
  <2>1. u = l
    BY <1>1, FoundLemma DEF update
  <2> QED
    BY <1>1, <2>1
<1>2. CASE k \in KeysOf(l)
  <2>1. x \in Slots /\ l[x].key = k /\ \A i \in Slots : l[i].key = k => i = x
    BY <1>2, FoundLemma
  <2>2. u = [l EXCEPT ![x].val = v]
    BY <1>2, FoundLemma DEF update
  <2>3. k # InvalidKey /\ k \in Nat
    BY LeafAssumption DEF Keys
  <2> HIDE DEF u, x
  <2>4. l[x] \in Entries
    BY <2>1, <2>3, SlotLemma
  <2>5. u[x] = [key |-> k, val |-> v]
    BY <2>1, <2>2, <2>4 DEF Leaves, Entries
  <2>6. u[x] \in Entries /\ u[x] # Empty
    BY <2>3, <2>5 DEF Entries, Empty
  <2>7. \A i \in Slots : i # x => u[i] = l[i]
    BY <2>2 DEF Leaves
  <2>8. u \in Leaves
    <3>1. DOMAIN u = Slots /\ u = [i \in Slots |-> u[i]]
      BY <2>2 DEF Leaves
    <3>2. \A i \in Slots : u[i] \in Entries \cup {Empty}
      BY <2>6, <2>7, SlotLemma
    <3> QED
      BY <3>1, <3>2 DEF Leaves
  <2>9. \A i \in Slots : u[i].key = l[i].key /\ (u[i] = Empty <=> l[i] = Empty)
    BY <2>1, <2>3, <2>5, <2>6, <2>7, SlotLemma
  <2>10. Sorted(u) /\ KeysOf(u) = KeysOf(l)
    BY <2>9 DEF Sorted, KeysOf
  <2>11. ASSUME NEW e
         PROVE  e \in Content(u) <=>
                  (e \in Content(l) /\ e.key # k) \/ e = [key |-> k, val |-> v]
    BY <2>1, <2>5, <2>6, <2>7 DEF Content
  <2>12. Content(u) = {e \in Content(l) : e.key # k} \cup {[key |-> k, val |-> v]}
    BY <2>11
  <2> QED
    BY <1>2, <2>8, <2>9, <2>10, <2>12 DEF u
<1> QED
  BY <1>1, <1>2

\* insert_not_full puts a new key in its place in a leaf with an unused slot.
LEMMA InsertLemma ==
  ASSUME NEW l \in Leaves, Sorted(l), ~ isfull(l),
         NEW k \in Keys, k \notin KeysOf(l), NEW v \in Vals
  PROVE  LET u == insert_not_full(l, k, v)
         IN  /\ u \in Leaves /\ Sorted(u)
             /\ Content(u) = Content(l) \cup {[key |-> k, val |-> v]}
<1> DEFINE above == {s \in Slots : l[s].key >= k}
           i == Least(above)
           unused == {s \in Slots : s >= i /\ l[s].key = InvalidKey}
           j == Least(unused)
           u == insert_not_full(l, k, v)
           new == [key |-> k, val |-> v]
<1>1. /\ N \in Nat /\ N > 1 /\ Slots = 0 .. N - 1 /\ Slots \subseteq Nat
      /\ InvalidKey \in Nat /\ k \in Nat /\ k < InvalidKey
      /\ new \in Entries /\ new # Empty
  BY SlotLemma DEF Slots, Keys, Entries, Empty
<1>2. N - 1 \in above /\ l[N - 1].key = InvalidKey
  BY <1>1, SlotLemma DEF isfull
<1>3. i \in above /\ \A s \in above : i <= s
  BY <1>1, <1>2, LeastLemma
<1>4. N - 1 \in unused
  BY <1>1, <1>2, <1>3
<1>5. j \in unused /\ \A s \in unused : j <= s
  BY <1>1, <1>4, LeastLemma
<1>6. At(l, k) = {}
  BY FoundLemma
<1>7. u = [s \in Slots |-> IF s = i THEN new
                           ELSE IF i < s /\ s <= j THEN l[s - 1] ELSE l[s]]
  BY <1>2, <1>4, <1>6 DEF insert_not_full
<1>15. i \in Slots /\ l[i].key >= k /\ \A s \in Slots : l[s].key >= k => i <= s
  BY <1>3
<1>16. /\ j \in Slots /\ j >= i /\ l[j].key = InvalidKey
       /\ \A s \in Slots : s >= i /\ l[s].key = InvalidKey => j <= s
  BY <1>5
<1>17. \A s \in Slots : l[s].key # k
  BY <1>6 DEF At
<1> HIDE DEF above, i, unused, j, u, new
<1>8. /\ i \in Slots /\ j \in Slots /\ i <= j
      /\ l[j] = Empty
      /\ \A s \in Slots : s < i => l[s].key < k
      /\ \A s \in Slots : i <= s => l[s].key > k
      /\ \A s \in Slots : i <= s /\ s < j => l[s] # Empty
      /\ \A s \in Slots : j <= s => l[s] = Empty
  <2>0. \A s \in Slots : s \in Nat /\ l[s].key \in Nat
    BY <1>1, SlotLemma
  <2>1. i \in Slots /\ j \in Slots /\ i <= j /\ l[j] = Empty
    BY <1>1, <1>15, <1>16, SlotLemma
  <2>2. ASSUME NEW s \in Slots, s < i PROVE l[s].key < k
    BY <1>1, <1>15, <2>0, <2>2
  <2>4. ASSUME NEW s \in Slots, i <= s PROVE l[s].key > k
    <3>1. l[s].key > l[i].key \/ l[s].key = InvalidKey \/ s = i
      BY <1>15, <2>0, <2>4 DEF Sorted, Empty
    <3> QED
      BY <1>1, <1>15, <1>17, <2>0, <3>1
  <2>5. ASSUME NEW s \in Slots, i <= s, s < j PROVE l[s] # Empty
    BY <1>16, <2>0, <2>1, <2>5 DEF Empty
  <2>6. ASSUME NEW s \in Slots, j <= s PROVE l[s] = Empty
    <3>1. CASE s = j
      BY <2>1, <3>1
    <3>2. CASE j < s
      <4>1. l[j].key < l[s].key \/ l[s] = Empty
        BY <1>16, <3>2 DEF Sorted
      <4>2. l[s].key \in 0 .. InvalidKey
        BY SlotLemma
      <4> QED
        BY <1>1, <1>16, <2>0, <4>1, <4>2
    <3> QED
      BY <2>0, <2>1, <2>6, <3>1, <3>2
  <2> QED
    BY <2>1, <2>2, <2>4, <2>5, <2>6
<1>9. /\ u[i] = new
      /\ \A s \in Slots : s < i => u[s] = l[s]
      /\ \A s \in Slots : i < s /\ s <= j => s - 1 \in Slots /\ u[s] = l[s - 1]
      /\ \A s \in Slots : j < s => u[s] = l[s] /\ u[s] = Empty
  BY <1>1, <1>7, <1>8
<1>10. \A s \in Slots : u[s] \in Entries \cup {Empty}
  BY <1>1, <1>7, <1>8, <1>9, SlotLemma
<1>11. u \in Leaves
  <2>1. DOMAIN u = Slots /\ u = [s \in Slots |-> u[s]]
    BY <1>7
  <2> QED
    BY <1>10, <2>1 DEF Leaves
<1>12. Sorted(u)
  <2> SUFFICES ASSUME NEW s \in Slots, NEW t \in Slots, s < t
               PROVE  u[s].key < u[t].key \/ u[t] = Empty
    BY DEF Sorted
  <2>0. \A x, y \in Slots : x < y => l[x].key < l[y].key \/ l[y] = Empty
    BY DEF Sorted
  <2>1. new.key = k
    BY DEF new
  <2>2. CASE t < i
    BY <1>1, <1>8, <1>9, <2>0, <2>2
  <2>3. CASE t = i
    BY <1>1, <1>8, <1>9, <2>1, <2>3
  <2>4. CASE i < t /\ t <= j
    <3>1. t - 1 \in Slots /\ u[t] = l[t - 1] /\ i <= t - 1
      BY <1>1, <1>8, <1>9, <2>4
    <3>2. CASE s < i
      BY <1>1, <1>8, <1>9, <2>0, <3>1, <3>2
    <3>3. CASE s = i
      BY <1>1, <1>8, <1>9, <2>1, <3>1, <3>3
    <3>4. CASE i < s
      <4>1. s - 1 \in Slots /\ u[s] = l[s - 1] /\ s - 1 < t - 1
        BY <1>1, <1>8, <1>9, <2>4, <3>4
      <4> QED
        BY <2>0, <3>1, <4>1
    <3> QED
      BY <1>1, <1>8, <3>2, <3>3, <3>4
  <2>5. CASE j < t
    BY <1>9, <2>5
  <2> QED
    BY <1>1, <1>8, <2>2, <2>3, <2>4, <2>5
<1>13. ASSUME NEW e PROVE e \in Content(u) <=> e \in Content(l) \/ e = new
  <2>1. ASSUME e \in Content(u) PROVE e \in Content(l) \/ e = new
    <3>1. PICK s \in Slots : u[s] = e /\ e # Empty
      BY <2>1 DEF Content
    <3>2. \E t \in Slots : u[s] = l[t] \/ u[s] = new
      BY <1>1, <1>8, <1>9
    <3> QED
      BY <3>1, <3>2 DEF Content
  <2>2. ASSUME e = new PROVE e \in Content(u)
    BY <1>1, <1>8, <1>9, <2>2 DEF Content
  <2>3. ASSUME e \in Content(l) PROVE e \in Content(u)
    <3>1. PICK s \in Slots : l[s] = e /\ e # Empty
      BY <2>3 DEF Content
    <3>2. CASE s < i
      BY <1>9, <3>1, <3>2 DEF Content
    <3>3. CASE i <= s
      <4>1. s < j
        BY <1>1, <1>8, <3>1
      <4>2. s + 1 \in Slots /\ i < s + 1 /\ s + 1 <= j
        BY <1>1, <1>8, <3>3, <4>1
      <4>3. u[s + 1] = l[s]
        BY <1>1, <1>9, <4>2
      <4> QED
        BY <3>1, <4>2, <4>3 DEF Content
    <3> QED
      BY <1>1, <1>8, <3>2, <3>3
  <2> QED
    BY <2>1, <2>2, <2>3
<1>14. Content(u) = Content(l) \cup {new}
  BY <1>13
<1> QED
  BY <1>11, <1>12, <1>14 DEF u, new

\* remove takes one key out and closes the gap.
LEMMA RemoveLemma ==
  ASSUME NEW l \in Leaves, Sorted(l), NEW k \in Keys
  PROVE  LET u == remove(l, k)
         IN  /\ u \in Leaves /\ Sorted(u)
             /\ Content(u) = {e \in Content(l) : e.key # k}
<1> DEFINE u == remove(l, k)
           x == Least(At(l, k))
<1>1. CASE At(l, k) = {}
  <2>1. u = l /\ k \notin KeysOf(l)
    BY <1>1, FoundLemma DEF remove
  <2> QED
    BY <2>1, KeysLemma
<1>2. CASE At(l, k) # {}
  <2>1. /\ N \in Nat /\ N > 1 /\ Slots = 0 .. N - 1 /\ Slots \subseteq Nat
        /\ N - 1 \in Slots /\ k # InvalidKey
    BY SlotLemma DEF Slots, Keys
  <2>2. x \in Slots /\ l[x].key = k /\ \A s \in Slots : l[s].key = k => s = x
    BY <1>2, FoundLemma
  <2>3. u = [s \in Slots |-> IF s < x THEN l[s]
                             ELSE IF s < N - 1 THEN l[s + 1] ELSE Empty]
    BY <1>2 DEF remove
  <2> HIDE DEF u, x
  <2>4. /\ \A s \in Slots : s < x => u[s] = l[s]
        /\ \A s \in Slots : x <= s /\ s < N - 1 => s + 1 \in Slots /\ u[s] = l[s + 1]
        /\ u[N - 1] = Empty
    BY <2>1, <2>2, <2>3
  <2>5. \A s \in Slots : u[s] \in Entries \cup {Empty}
    BY <2>1, <2>2, <2>4, SlotLemma
  <2>6. u \in Leaves
    <3>1. DOMAIN u = Slots /\ u = [s \in Slots |-> u[s]]
      BY <2>3
    <3> QED
      BY <2>5, <3>1 DEF Leaves
  <2>7. Sorted(u)
    <3> SUFFICES ASSUME NEW s \in Slots, NEW t \in Slots, s < t
                 PROVE  u[s].key < u[t].key \/ u[t] = Empty
      BY DEF Sorted
    <3>0. \A a, b \in Slots : a < b => l[a].key < l[b].key \/ l[b] = Empty
      BY DEF Sorted
    <3>1. CASE t < x
      BY <2>1, <2>2, <2>4, <3>0, <3>1
    <3>2. CASE x <= t /\ t < N - 1
      <4>1. t + 1 \in Slots /\ u[t] = l[t + 1]
        BY <2>4, <3>2
      <4>2. CASE s < x
        BY <2>1, <2>4, <3>0, <4>1, <4>2
      <4>3. CASE x <= s
        <5>1. s + 1 \in Slots /\ u[s] = l[s + 1] /\ s + 1 < t + 1
          BY <2>1, <2>4, <3>2, <4>3
        <5> QED
          BY <3>0, <4>1, <5>1
      <4> QED
        BY <2>1, <2>2, <4>2, <4>3
    <3>3. CASE t = N - 1
      BY <2>4, <3>3
    <3> QED
      BY <2>1, <2>2, <3>1, <3>2, <3>3
  <2>8. ASSUME NEW e
        PROVE  e \in Content(u) <=> e \in Content(l) /\ e.key # k
    <3>1. ASSUME e \in Content(u) PROVE e \in Content(l) /\ e.key # k
      <4>1. PICK s \in Slots : u[s] = e /\ e # Empty
        BY <3>1 DEF Content
      <4>2. \E t \in Slots : u[s] = l[t] /\ t # x
        <5>1. CASE s < x
          BY <2>1, <2>4, <5>1
        <5>2. CASE x <= s
          <6>1. s < N - 1
            BY <2>1, <2>4, <4>1
          <6>2. s + 1 \in Slots /\ u[s] = l[s + 1] /\ s + 1 # x
            BY <2>1, <2>2, <2>4, <5>2, <6>1
          <6> QED
            BY <6>2
        <5> QED
          BY <2>1, <2>2, <5>1, <5>2
      <4> QED
        BY <2>2, <4>1, <4>2 DEF Content
    <3>2. ASSUME e \in Content(l), e.key # k PROVE e \in Content(u)
      <4>1. PICK s \in Slots : l[s] = e /\ e # Empty /\ s # x
        BY <2>2, <3>2 DEF Content
      <4>2. CASE s < x
        BY <2>4, <4>1, <4>2 DEF Content
      <4>3. CASE x < s
        <5>1. s - 1 \in Slots /\ x <= s - 1 /\ s - 1 < N - 1
          BY <2>1, <2>2, <4>3
        <5>2. u[s - 1] = l[s]
          BY <2>1, <2>4, <5>1
        <5> QED
          BY <4>1, <5>1, <5>2 DEF Content
      <4> QED
        BY <2>1, <2>2, <4>1, <4>2, <4>3
    <3> QED
      BY <3>1, <3>2
  <2>9. Content(u) = {e \in Content(l) : e.key # k}
    BY <2>8
  <2> QED
    BY <2>6, <2>7, <2>9 DEF u
<1> QED
  BY <1>1, <1>2

\* insert_synonym: a full leaf is split in two halves, the keys of the lower one
\* below those of the upper one. With an odd number of slots the last key would stay
\* behind in the lower one, above the keys that moved.
LEMMA HalvesLemma ==
  ASSUME N % 2 = 0, NEW l \in Leaves, Sorted(l), isfull(l)
  PROVE  LET low == lower_half(l)
             high == upper_half(l)
         IN  /\ low \in Leaves /\ Sorted(low) /\ ~ isfull(low) /\ ~ isEmpty(low)
             /\ high \in Leaves /\ Sorted(high) /\ ~ isfull(high) /\ ~ isEmpty(high)
             /\ Content(low) \cup Content(high) = Content(l)
             /\ \A a \in KeysOf(low), b \in KeysOf(high) : a < b
<1> DEFINE low == lower_half(l)
           high == upper_half(l)
<1>1. /\ N \in Nat /\ N > 1 /\ Slots = 0 .. N - 1 /\ Slots \subseteq Nat
      /\ 0 \in Slots /\ N - 1 \in Slots
  BY SlotLemma DEF Slots
<1>2. mid \in Nat /\ N = 2 * mid /\ mid > 0 /\ mid \in Slots
  <2>1. N = 2 * (N \div 2) + (N % 2) /\ N \div 2 \in Nat
    BY <1>1
  <2> QED
    BY <1>1, <2>1 DEF mid
<1>3. \A s \in Slots : l[s] # Empty /\ l[s].key # InvalidKey
  <2>1. l[N - 1].key # InvalidKey /\ l[N - 1] # Empty
    BY <1>1, SlotLemma DEF isfull
  <2>2. ASSUME NEW s \in Slots PROVE l[s] # Empty
    <3>1. s = N - 1 \/ (s < N - 1 /\ l[s].key < l[N - 1].key)
      BY <1>1, <2>1 DEF Sorted
    <3>2. l[N - 1].key \in 0 .. InvalidKey /\ InvalidKey \in Nat
      BY <1>1, SlotLemma
    <3> QED
      BY <2>1, <3>1, <3>2 DEF Empty
  <2> QED
    BY <2>2, SlotLemma
<1>4. \A s, t \in Slots : s < t => l[s].key < l[t].key
  BY <1>3 DEF Sorted
<1>5. /\ DOMAIN low = Slots /\ low = [s \in Slots |-> low[s]]
      /\ DOMAIN high = Slots /\ high = [s \in Slots |-> high[s]]
  BY DEF lower_half, upper_half
<1>6. /\ \A s \in Slots : s < mid => low[s] = l[s]
      /\ \A s \in Slots : mid <= s => low[s] = Empty /\ s < 2 * mid
      /\ \A s \in Slots : s < mid => mid + s \in Slots /\ high[s] = l[mid + s]
      /\ \A s \in Slots : mid <= s => high[s] = Empty
  BY <1>1, <1>2 DEF lower_half, upper_half
<1> HIDE DEF low, high
<1>7. low \in Leaves /\ high \in Leaves
  <2>1. \A s \in Slots : low[s] \in Entries \cup {Empty} /\ high[s] \in Entries \cup {Empty}
    BY <1>1, <1>2, <1>6, SlotLemma
  <2> QED
    BY <1>5, <2>1 DEF Leaves
<1>8. Sorted(low)
  BY <1>1, <1>2, <1>4, <1>6 DEF Sorted
<1>9. Sorted(high)
  <2> SUFFICES ASSUME NEW s \in Slots, NEW t \in Slots, s < t
               PROVE  high[s].key < high[t].key \/ high[t] = Empty
    BY DEF Sorted
  <2>1. CASE t < mid
    <3>1. mid + s \in Slots /\ mid + t \in Slots /\ mid + s < mid + t
          /\ high[s] = l[mid + s] /\ high[t] = l[mid + t]
      <4>1. s \in Nat /\ t \in Nat /\ mid \in Nat
        BY <1>1, <1>2
      <4>2. s < mid /\ mid + s < mid + t
        BY <2>1, <4>1
      <4> QED
        BY <1>6, <2>1, <4>2, Zenon
    <3> QED
      BY <1>4, <3>1
  <2>2. CASE mid <= t
    BY <1>6, <2>2
  <2> QED
    BY <1>1, <1>2, <2>1, <2>2
<1>10. ~ isfull(low) /\ ~ isEmpty(low) /\ ~ isfull(high) /\ ~ isEmpty(high)
  <2>1. low[N - 1] = Empty /\ high[N - 1] = Empty
    BY <1>1, <1>2, <1>6
  <2>2. low[0] = l[0] /\ high[0] = l[mid]
    BY <1>1, <1>2, <1>6
  <2> QED
    BY <1>1, <1>2, <1>3, <2>1, <2>2 DEF isfull, isEmpty, Empty
<1>11. /\ \A e : e \in Content(low) => \E s \in Slots : s < mid /\ e = l[s]
       /\ \A e : e \in Content(high) => \E s \in Slots : mid <= s /\ e = l[s]
  <2>1. ASSUME NEW e \in Content(low) PROVE \E s \in Slots : s < mid /\ e = l[s]
    BY <1>1, <1>2, <1>6 DEF Content
  <2>2. ASSUME NEW e \in Content(high) PROVE \E s \in Slots : mid <= s /\ e = l[s]
    <3>1. PICK s \in Slots : high[s] = e /\ e # Empty
      BY DEF Content
    <3>2. s < mid /\ mid + s \in Slots /\ e = l[mid + s]
      BY <1>1, <1>2, <1>6, <3>1
    <3> QED
      BY <1>1, <1>2, <3>2
  <2> QED
    BY <2>1, <2>2
<1>12. ASSUME NEW e \in Content(l) PROVE e \in Content(low) \/ e \in Content(high)
  <2>1. PICK s \in Slots : l[s] = e /\ e # Empty
    BY DEF Content
  <2>2. CASE s < mid
    BY <1>6, <2>1, <2>2 DEF Content
  <2>3. CASE mid <= s
    <3>1. s - mid \in Slots /\ s - mid < mid /\ mid + (s - mid) = s
      BY <1>1, <1>2, <2>3
    <3>2. high[s - mid] = l[s]
      BY <1>6, <3>1
    <3> QED
      BY <2>1, <3>1, <3>2 DEF Content
  <2> QED
    BY <1>1, <1>2, <2>2, <2>3
<1>13. Content(low) \cup Content(high) = Content(l)
  <2>1. ASSUME NEW s \in Slots PROVE l[s] \in Content(l)
    BY <1>3 DEF Content
  <2> QED
    BY <1>11, <1>12, <2>1
<1>14. ASSUME NEW a \in KeysOf(low), NEW b \in KeysOf(high) PROVE a < b
  <2>1. PICK c \in Content(low) : c.key = a
    BY <1>7, KeysLemma
  <2>2. PICK d \in Content(high) : d.key = b
    BY <1>7, KeysLemma
  <2>3. PICK s \in Slots : s < mid /\ c = l[s]
    BY <1>11
  <2>4. PICK t \in Slots : mid <= t /\ d = l[t]
    BY <1>11
  <2>5. s < t
    BY <1>1, <1>2, <2>3, <2>4
  <2> QED
    BY <1>4, <2>1, <2>2, <2>3, <2>4, <2>5
<1> QED
  BY <1>7, <1>8, <1>9, <1>10, <1>13, <1>14 DEF low, high
-----------------------------------------------------------------------------
TableEntries(n) == [leaf_num : Nat, synonym_leaf : 0 .. n - 1]

\* The links of a table stay inside its synonym table.
Linked(lt) ==
  /\ lt.next \in Nat \ {0}
  /\ lt \in [table : [DOMAIN lt.table -> TableEntries(lt.next)],
             syn   : [1 .. lt.next - 1 -> TableEntries(lt.next)],
             next  : {lt.next}]

\* They go round in no circle.
Ranks(lt, rank, top) ==
  /\ rank \in [0 .. lt.next - 1 -> 0 .. top]
  /\ \A s \in 1 .. lt.next - 1 : rank[lt.syn[s].synonym_leaf] < rank[s]

Ranked(lt) == \E top \in Nat : \E rank : Ranks(lt, rank, top)

\* c is what the links from slot s on go through.
Walk(lt, s, c) ==
  /\ c \in Seq(1 .. lt.next - 1)
  /\ s = 0 <=> Len(c) = 0
  /\ s # 0 => c[1] = s /\ lt.syn[c[Len(c)]].synonym_leaf = 0
  /\ \A p \in 1 .. Len(c) - 1 : c[p + 1] = lt.syn[c[p]].synonym_leaf

Once(c) == \A p, q \in 1 .. Len(c) : c[p] = c[q] => p = q

\* The recursive function of Chain
Follow(lt, f, s) == IF s = 0 THEN <<>> ELSE <<s>> \o f[lt.syn[s].synonym_leaf]

From(lt) == CHOOSE f : f = [s \in 0 .. lt.next - 1 |-> Follow(lt, f, s)]

\* Every slot of a chain is a slot of its table.
LEMMA ElementLemma ==
  ASSUME NEW S, NEW c \in Seq(S), NEW i \in 1 .. Len(c)
  PROVE  c[i] \in S
OBVIOUS

\* Where its slots are decides what a chain is a sequence of.
LEMMA SeqLemma ==
  ASSUME NEW S, NEW c \in Seq(S), NEW T, \A i \in 1 .. Len(c) : c[i] \in T
  PROVE  c \in Seq(T)
<1>1. c = [i \in 1 .. Len(c) |-> c[i]] /\ Len(c) \in Nat
  OBVIOUS
<1>2. [i \in 1 .. Len(c) |-> c[i]] \in Seq(T)
  BY <1>1
<1> QED
  BY <1>1, <1>2

\* A slot put in front of a chain
LEMMA PrependLemma ==
  ASSUME NEW S, NEW s \in S, NEW t \in Seq(S)
  PROVE  /\ <<s>> \o t \in Seq(S) /\ Len(<<s>> \o t) = Len(t) + 1
         /\ (<<s>> \o t)[1] = s
         /\ \A i \in 1 .. Len(t) : (<<s>> \o t)[i + 1] = t[i]
<1>1. <<s>> \in Seq(S) /\ Len(<<s>>) = 1 /\ <<s>>[1] = s
  OBVIOUS
<1> QED
  BY <1>1

\* What Linked says, field by field
LEMMA LinkedLemma ==
  ASSUME NEW lt, Linked(lt)
  PROVE  /\ lt.next \in Nat /\ lt.next > 0 /\ 0 \in 0 .. lt.next - 1
         /\ 1 .. lt.next - 1 \subseteq 0 .. lt.next - 1
         /\ \A s \in 1 .. lt.next - 1 : /\ lt.syn[s] \in TableEntries(lt.next)
                                        /\ lt.syn[s].synonym_leaf \in 0 .. lt.next - 1
         /\ \A i \in DOMAIN lt.table : /\ lt.table[i] \in TableEntries(lt.next)
                                       /\ lt.table[i].synonym_leaf \in 0 .. lt.next - 1
<1>1. lt.next \in Nat /\ lt.next > 0
  BY DEF Linked
<1>2. /\ lt.syn \in [1 .. lt.next - 1 -> TableEntries(lt.next)]
      /\ lt.table \in [DOMAIN lt.table -> TableEntries(lt.next)]
  BY DEF Linked
<1>3. \A e \in TableEntries(lt.next) : e.synonym_leaf \in 0 .. lt.next - 1
  BY DEF TableEntries
<1> QED
  BY <1>1, <1>2, <1>3

\* The equation of Chain has a solution when the links go round in no circle.
LEMMA FromExists ==
  ASSUME NEW lt, Linked(lt), Ranked(lt)
  PROVE  From(lt) = [s \in 0 .. lt.next - 1 |-> Follow(lt, From(lt), s)]
<1> DEFINE D == 0 .. lt.next - 1
           Solves(g, n, rank) == \A s \in D : rank[s] < n => g[s] = Follow(lt, g, s)
<1>1. PICK top \in Nat : \E rank : Ranks(lt, rank, top)
  BY DEF Ranked
<1>2. PICK rank : Ranks(lt, rank, top)
  BY <1>1
<1>3. /\ \A s \in D : rank[s] \in Nat /\ rank[s] <= top
      /\ \A s \in D : s # 0 => /\ lt.syn[s].synonym_leaf \in D
                              /\ rank[lt.syn[s].synonym_leaf] < rank[s]
  BY <1>2, LinkedLemma DEF Ranks
<1> DEFINE S == {n \in Nat : ~ \E g : Solves(g, n, rank)}
<1>4. S = {}
  <2> SUFFICES ASSUME S # {} PROVE FALSE
    OBVIOUS
  <2>1. PICK n \in S : \A m \in S : n <= m
    BY LeastNumber
  <2>2. CASE n = 0
    <3>1. Solves(<<>>, 0, rank)
      BY <1>3
    <3> QED
      BY <2>1, <2>2, <3>1
  <2>3. CASE n # 0
    <3>1. n - 1 \in Nat /\ n - 1 \notin S
      BY <2>1, <2>3
    <3>2. PICK g : Solves(g, n - 1, rank)
      BY <3>1
    <3> DEFINE h == [s \in D |-> Follow(lt, g, s)]
    <3>3. ASSUME NEW s \in D, rank[s] < n PROVE h[s] = Follow(lt, h, s)
      <4>1. CASE s = 0
        BY <4>1 DEF Follow
      <4>2. CASE s # 0
        <5> DEFINE t == lt.syn[s].synonym_leaf
        <5>1. t \in D /\ rank[t] < n - 1
          BY <1>3, <2>1, <3>3, <4>2
        <5>2. g[t] = Follow(lt, g, t)
          BY <3>2, <5>1
        <5>3. h[t] = g[t]
          BY <5>1, <5>2
        <5>4. h[s] = <<s>> \o g[t] /\ Follow(lt, h, s) = <<s>> \o h[t]
          BY <4>2 DEF Follow
        <5> QED
          BY <5>3, <5>4
      <4> QED
        BY <4>1, <4>2
    <3>4. Solves(h, n, rank)
      BY <3>3
    <3> HIDE DEF h, Solves
    <3>5. n \notin S
      BY <3>4
    <3> QED
      BY <2>1, <3>5
  <2> QED
    BY <2>2, <2>3
<1>5. PICK g : Solves(g, top + 1, rank)
  BY <1>1, <1>4
<1> DEFINE h == [s \in D |-> Follow(lt, g, s)]
<1>6. ASSUME NEW s \in D PROVE g[s] = Follow(lt, g, s)
  BY <1>1, <1>3, <1>5
<1>7. \A s \in D : h[s] = g[s]
  BY <1>6
<1>8. \A s \in D : s # 0 => lt.syn[s].synonym_leaf \in D
  BY <1>3
<1>9. \A s \in D : Follow(lt, h, s) = Follow(lt, g, s)
  BY <1>7, <1>8 DEF Follow
<1>10. h = [s \in D |-> Follow(lt, h, s)]
  BY <1>9
<1> HIDE DEF h
<1>11. \E f : f = [s \in D |-> Follow(lt, f, s)]
  BY <1>10
<1> QED
  BY <1>11 DEF From

\* A slot in front of a walk is a walk.
LEMMA WalkStep ==
  ASSUME NEW lt, Linked(lt), NEW s \in 1 .. lt.next - 1, NEW c,
         Walk(lt, lt.syn[s].synonym_leaf, c)
  PROVE  Walk(lt, s, <<s>> \o c)
<1> DEFINE t == lt.syn[s].synonym_leaf
           d == <<s>> \o c
<1>1. c \in Seq(1 .. lt.next - 1) /\ Len(c) \in Nat
  BY DEF Walk
<1>2. /\ d \in Seq(1 .. lt.next - 1) /\ Len(d) = Len(c) + 1 /\ d[1] = s
      /\ \A i \in 1 .. Len(c) : d[i + 1] = c[i]
  BY <1>1, PrependLemma
<1>3. s # 0 /\ Len(d) # 0
  BY <1>1, <1>2, LinkedLemma
<1> HIDE DEF d
<1>4. ASSUME NEW p \in 1 .. Len(d) - 1 PROVE d[p + 1] = lt.syn[d[p]].synonym_leaf
  <2>1. d[p + 1] = c[p]
    BY <1>1, <1>2, <1>4
  <2>2. CASE p = 1
    <3>1. Len(c) # 0
      BY <1>1, <1>2, <1>4
    <3> QED
      BY <1>2, <2>1, <2>2, <3>1 DEF Walk
  <2>3. CASE p > 1
    <3>1. p - 1 \in 1 .. Len(c) - 1 /\ p - 1 \in 1 .. Len(c) /\ (p - 1) + 1 = p
      BY <1>1, <1>2, <1>4, <2>3
    <3>2. c[p] = lt.syn[c[p - 1]].synonym_leaf
      BY <3>1 DEF Walk
    <3>3. d[p] = c[p - 1]
      BY <1>2, <3>1
    <3> QED
      BY <2>1, <3>2, <3>3
  <2> QED
    BY <1>4, <2>2, <2>3
<1>5. lt.syn[d[Len(d)]].synonym_leaf = 0
  <2>1. CASE Len(c) = 0
    <3>1. t = 0 /\ Len(d) = 1
      BY <1>2, <2>1 DEF Walk
    <3> QED
      BY <1>2, <3>1
  <2>2. CASE Len(c) # 0
    <3>1. Len(c) \in 1 .. Len(c) /\ t # 0
      BY <1>1, <2>2 DEF Walk
    <3>2. d[Len(d)] = c[Len(c)]
      BY <1>2, <3>1
    <3> QED
      BY <3>1, <3>2 DEF Walk
  <2> QED
    BY <2>1, <2>2
<1> QED
  BY <1>2, <1>3, <1>4, <1>5 DEF Walk, d

\* Chain goes through the slots that the links go through, each once.
LEMMA FromWalks ==
  ASSUME NEW lt, Linked(lt), NEW rank, NEW top \in Nat, Ranks(lt, rank, top)
  PROVE  \A s \in 0 .. lt.next - 1 :
           LET c == From(lt)[s]
           IN  /\ Walk(lt, s, c) /\ Once(c)
               /\ \A p \in 1 .. Len(c) : rank[c[p]] <= rank[s]
<1> DEFINE D == 0 .. lt.next - 1
           c(s) == From(lt)[s]
           Good(s) == /\ Walk(lt, s, c(s)) /\ Once(c(s))
                      /\ \A p \in 1 .. Len(c(s)) : rank[c(s)[p]] <= rank[s]
           S == {rank[s] : s \in {x \in D : ~ Good(x)}}
<1>1. From(lt) = [s \in D |-> Follow(lt, From(lt), s)]
  BY FromExists DEF Ranked
<1>2. \A s \in D : c(s) = Follow(lt, From(lt), s)
  BY <1>1
<1>12. lt.next \in Nat /\ \A s \in D : s # 0 => s \in 1 .. lt.next - 1
  BY LinkedLemma
<1>13. \A s \in 1 .. lt.next - 1 : s \in D /\ lt.syn[s].synonym_leaf \in D
  BY LinkedLemma
<1>14. \A s \in D : rank[s] \in 0 .. top
  BY DEF Ranks
<1>15. \A s \in 1 .. lt.next - 1 : rank[lt.syn[s].synonym_leaf] < rank[s]
  BY DEF Ranks
<1>3. /\ lt.next \in Nat /\ \A s \in D : rank[s] \in Nat
      /\ \A s \in D : s # 0 => /\ s \in 1 .. lt.next - 1
                               /\ lt.syn[s].synonym_leaf \in D
                               /\ rank[lt.syn[s].synonym_leaf] < rank[s]
  <2> HIDE DEF D, Good, c, S
  <2> QED
    BY ONLY <1>12, <1>13, <1>14, <1>15, top \in Nat
<1>4. SUFFICES ASSUME S # {} PROVE FALSE
  OBVIOUS
<1> HIDE DEF Good, c
<1>5. S \in SUBSET Nat
  BY <1>3
<1>6. PICK s \in D : ~ Good(s) /\ \A x \in D : ~ Good(x) => rank[s] <= rank[x]
  <2>1. PICK r \in S : \A n \in S : r <= n
    BY <1>4, <1>5, LeastNumber
  <2> QED
    BY <2>1
<1> DEFINE t == lt.syn[s].synonym_leaf
<1>7. CASE s = 0
  <2>1. c(s) = <<>>
    BY <1>2, <1>7 DEF Follow
  <2>2. c(s) \in Seq(1 .. lt.next - 1) /\ Len(c(s)) = 0
    BY <2>1
  <2>3. Good(s)
    BY <1>7, <2>2 DEF Good, Walk, Once
  <2> QED
    BY <1>6, <2>3
<1>8. CASE s # 0
  <2>1. s \in 1 .. lt.next - 1 /\ t \in D /\ rank[t] < rank[s]
    BY <1>3, <1>8
  <2>2. Good(t)
    BY <1>3, <1>6, <2>1
  <2>3. Walk(lt, t, c(t)) /\ Once(c(t)) /\ \A p \in 1 .. Len(c(t)) : rank[c(t)[p]] <= rank[t]
    BY <2>2 DEF Good
  <2>4. c(s) = <<s>> \o c(t)
    BY <1>2, <1>8 DEF Follow, c
  <2>5. Walk(lt, s, c(s))
    BY <2>1, <2>3, <2>4, WalkStep
  <2>6. c(t) \in Seq(1 .. lt.next - 1) /\ Len(c(t)) \in Nat
    BY <2>3 DEF Walk
  <2>7. /\ Len(c(s)) = Len(c(t)) + 1 /\ c(s)[1] = s
        /\ \A i \in 1 .. Len(c(t)) : c(s)[i + 1] = c(t)[i]
    BY <2>1, <2>4, <2>6, PrependLemma
  <2>8. ASSUME NEW p \in 1 .. Len(c(s)), p # 1
        PROVE  /\ p - 1 \in 1 .. Len(c(t)) /\ c(s)[p] = c(t)[p - 1]
               /\ c(t)[p - 1] \in D /\ rank[c(s)[p]] < rank[s]
    <3>1. p - 1 \in 1 .. Len(c(t)) /\ (p - 1) + 1 = p
      BY <2>6, <2>7, <2>8
    <3>2. c(s)[p] = c(t)[p - 1]
      BY <2>7, <3>1
    <3>3. c(t)[p - 1] \in 1 .. lt.next - 1
      BY <2>6, <3>1, ElementLemma
    <3>4. c(t)[p - 1] \in D
      BY <1>13, <3>3
    <3>5. rank[c(t)[p - 1]] <= rank[t]
      BY <2>3, <3>1
    <3>6. rank[c(t)[p - 1]] < rank[s]
      BY ONLY <1>3, <2>1, <3>4, <3>5, <1>6
    <3> QED
      BY <3>1, <3>2, <3>4, <3>6
  <2>9. Once(c(s))
    <3> SUFFICES ASSUME NEW p \in 1 .. Len(c(s)), NEW q \in 1 .. Len(c(s)), c(s)[p] = c(s)[q]
                 PROVE  p = q
      BY DEF Once
    <3>1. CASE p = 1 /\ q = 1
      BY <3>1
    <3>2. CASE p # 1 /\ q = 1
      BY <1>3, <2>7, <2>8, <3>2
    <3>3. CASE p = 1 /\ q # 1
      BY <1>3, <2>7, <2>8, <3>3
    <3>4. CASE p # 1 /\ q # 1
      <4>1. p - 1 = q - 1
        BY <2>3, <2>8, <3>4 DEF Once
      <4> QED
        BY <4>1
    <3> QED
      BY <3>1, <3>2, <3>3, <3>4
  <2>10. \A p \in 1 .. Len(c(s)) : rank[c(s)[p]] <= rank[s]
    BY <1>3, <2>7, <2>8
  <2>11. Good(s)
    BY <2>5, <2>9, <2>10 DEF Good
  <2> QED
    BY <1>6, <2>11
<1> QED
  BY <1>7, <1>8

\* s_leaves: the chain of an entry is what its links go through, each slot once.
LEMMA ChainWalks ==
  ASSUME NEW lt, Linked(lt), Ranked(lt), NEW i \in DOMAIN lt.table
  PROVE  Walk(lt, lt.table[i].synonym_leaf, Chain(lt, i)) /\ Once(Chain(lt, i))
<1>1. Chain(lt, i) = From(lt)[lt.table[i].synonym_leaf]
  BY DEF Chain, From, Follow
<1>2. PICK top \in Nat : \E rank : Ranks(lt, rank, top)
  BY DEF Ranked
<1>3. PICK rank : Ranks(lt, rank, top)
  BY <1>2
<1> QED
  BY <1>1, <1>3, FromWalks, LinkedLemma

\* The links leave no choice.
LEMMA WalkUnique ==
  ASSUME NEW lt, Linked(lt), NEW s, NEW c, Walk(lt, s, c), NEW d, Walk(lt, s, d)
  PROVE  c = d
<1> DEFINE S == {n \in Nat : n \in 1 .. Len(c) /\ n \in 1 .. Len(d) /\ c[n] # d[n]}
<1>1. /\ c \in Seq(1 .. lt.next - 1) /\ Len(c) \in Nat
      /\ d \in Seq(1 .. lt.next - 1) /\ Len(d) \in Nat
  BY DEF Walk
<1>2. S = {}
  <2> SUFFICES ASSUME S # {} PROVE FALSE
    OBVIOUS
  <2>1. PICK n \in S : \A m \in S : n <= m
    BY LeastNumber
  <2>2. n # 1
    BY <1>1, <2>1 DEF Walk
  <2>3. n - 1 \in 1 .. Len(c) - 1 /\ n - 1 \in 1 .. Len(d) - 1 /\ (n - 1) + 1 = n
    BY <1>1, <2>1, <2>2
  <2>4. c[n - 1] = d[n - 1]
    BY <1>1, <2>1, <2>3
  <2>5. c[n] = lt.syn[c[n - 1]].synonym_leaf /\ d[n] = lt.syn[d[n - 1]].synonym_leaf
    BY <2>3 DEF Walk
  <2> QED
    BY <2>1, <2>4, <2>5
<1>3. \A n \in 1 .. Len(c) : n <= Len(d) => c[n] = d[n]
  BY <1>1, <1>2
<1>4. ASSUME NEW x, Walk(lt, s, x), NEW y, Walk(lt, s, y), Len(x) < Len(y),
             \A n \in 1 .. Len(x) : x[n] = y[n]
      PROVE  FALSE
  <2>1. /\ x \in Seq(1 .. lt.next - 1) /\ Len(x) \in Nat
        /\ y \in Seq(1 .. lt.next - 1) /\ Len(y) \in Nat
    BY <1>4 DEF Walk
  <2>2. CASE Len(x) = 0
    BY <1>4, <2>1, <2>2 DEF Walk
  <2>3. CASE Len(x) # 0
    <3>1. lt.syn[x[Len(x)]].synonym_leaf = 0
      BY <1>4, <2>1, <2>3 DEF Walk
    <3>2. Len(x) \in 1 .. Len(x) /\ Len(x) \in 1 .. Len(y) - 1 /\ Len(x) + 1 \in 1 .. Len(y)
      BY <1>4, <2>1, <2>3
    <3>3. y[Len(x) + 1] = lt.syn[y[Len(x)]].synonym_leaf
      BY <1>4, <3>2 DEF Walk
    <3>4. y[Len(x) + 1] \in 1 .. lt.next - 1
      BY <2>1, <3>2, ElementLemma
    <3>5. lt.next \in Nat
      BY LinkedLemma
    <3> QED
      BY <1>4, <3>1, <3>2, <3>3, <3>4, <3>5
  <2> QED
    BY <2>2, <2>3
<1>5. Len(c) = Len(d)
  <2>1. ~ Len(c) < Len(d)
    BY <1>1, <1>3, <1>4
  <2>2. ~ Len(d) < Len(c)
    BY <1>1, <1>3, <1>4
  <2> QED
    BY <1>1, <2>1, <2>2
<1> QED
  BY <1>1, <1>3, <1>5

\* No slot belongs to two entries.
Apart(lt) ==
  \A i, j \in DOMAIN lt.table : i # j =>
    \A p \in 1 .. Len(Chain(lt, i)), q \in 1 .. Len(Chain(lt, j)) :
      Chain(lt, i)[p] # Chain(lt, j)[q]

Sound(lt) == Linked(lt) /\ Ranked(lt) /\ Apart(lt)

\* The chain of an entry in a sound table, place by place
LEMMA ChainLemma ==
  ASSUME NEW lt, Sound(lt), NEW i \in DOMAIN lt.table
  PROVE  /\ Walk(lt, lt.table[i].synonym_leaf, Chain(lt, i))
         /\ Chain(lt, i) \in Seq(1 .. lt.next - 1) /\ Len(Chain(lt, i)) \in Nat
         /\ \A p \in 1 .. Len(Chain(lt, i)) : Chain(lt, i)[p] \in 1 .. lt.next - 1
         /\ \A p, q \in 1 .. Len(Chain(lt, i)) :
              Chain(lt, i)[p] = Chain(lt, i)[q] => p = q
<1>1. Walk(lt, lt.table[i].synonym_leaf, Chain(lt, i)) /\ Once(Chain(lt, i))
  BY ChainWalks DEF Sound
<1> DEFINE c == Chain(lt, i)
<1>2. c \in Seq(1 .. lt.next - 1) /\ Len(c) \in Nat
  BY <1>1 DEF Walk
<1> HIDE DEF c
<1>3. \A p \in 1 .. Len(c) : c[p] \in 1 .. lt.next - 1
  BY <1>2, ElementLemma
<1> QED
  BY <1>1, <1>2, <1>3 DEF Once, c

\* synonym_emplace_back, field by field: the new slot takes over the link that led
\* past place p, and that link leads to the new slot.
LEMMA EmplaceFields ==
  ASSUME NEW lt, Sound(lt), NEW i \in DOMAIN lt.table,
         NEW p \in 0 .. Len(Chain(lt, i)), NEW n \in Nat
  PROVE  LET new == synonym_emplace_back(lt, i, p, n)
             idx == lt.next
             prev == Chain(lt, i)[p]
             after == IF p = 0 THEN lt.table[i].synonym_leaf ELSE lt.syn[prev].synonym_leaf
         IN  /\ Linked(new) /\ new.next = idx + 1
             /\ DOMAIN new.table = DOMAIN lt.table
             /\ \A j \in DOMAIN lt.table :
                  /\ new.table[j].leaf_num = lt.table[j].leaf_num
                  /\ new.table[j].synonym_leaf =
                       IF j = i /\ p = 0 THEN idx ELSE lt.table[j].synonym_leaf
             /\ \A s \in 1 .. idx - 1 :
                  /\ new.syn[s].leaf_num = lt.syn[s].leaf_num
                  /\ new.syn[s].synonym_leaf =
                       IF p # 0 /\ s = prev THEN idx ELSE lt.syn[s].synonym_leaf
             /\ new.syn[idx] = TE(n, after)
             /\ after \in 0 .. idx - 1
<1> DEFINE new == synonym_emplace_back(lt, i, p, n)
           idx == lt.next
           prev == Chain(lt, i)[p]
           after == IF p = 0 THEN lt.table[i].synonym_leaf ELSE lt.syn[prev].synonym_leaf
           grown == [s \in 1 .. idx |-> IF s = idx THEN TE(n, after) ELSE lt.syn[s]]
<1>1. /\ idx \in Nat /\ idx > 0 /\ 0 \in 0 .. idx - 1
      /\ \A s \in 1 .. idx - 1 : /\ lt.syn[s] \in TableEntries(idx)
                                 /\ lt.syn[s].synonym_leaf \in 0 .. idx - 1
      /\ \A j \in DOMAIN lt.table : /\ lt.table[j] \in TableEntries(idx)
                                    /\ lt.table[j].synonym_leaf \in 0 .. idx - 1
  BY LinkedLemma DEF Sound
<1>2. p # 0 => prev \in 1 .. idx - 1
  BY ChainLemma
<1>3. after \in 0 .. idx - 1
  BY <1>1, <1>2
<1>4. /\ new.table = IF p = 0 THEN [lt.table EXCEPT ![i].synonym_leaf = idx] ELSE lt.table
      /\ new.syn = IF p = 0 THEN grown ELSE [grown EXCEPT ![prev].synonym_leaf = idx]
      /\ new.next = idx + 1
      /\ new = [table |-> new.table, syn |-> new.syn, next |-> new.next]
  BY DEF synonym_emplace_back
<1>5. lt.table \in [DOMAIN lt.table -> TableEntries(idx)]
  BY DEF Sound, Linked
<1>6. \A e \in TableEntries(idx) : e \in TableEntries(idx + 1)
  BY <1>1 DEF TableEntries
<1>7. /\ TE(n, after) \in TableEntries(idx + 1)
      /\ TE(n, after).leaf_num = n /\ TE(n, after).synonym_leaf = after
  BY <1>1, <1>3 DEF TE, TableEntries
<1>8. \A e \in TableEntries(idx + 1) :
        /\ [e EXCEPT !.synonym_leaf = idx] \in TableEntries(idx + 1)
        /\ [e EXCEPT !.synonym_leaf = idx].synonym_leaf = idx
        /\ [e EXCEPT !.synonym_leaf = idx].leaf_num = e.leaf_num
  BY <1>1 DEF TableEntries
<1> HIDE DEF new, idx, prev, after
<1>9. /\ new.table \in [DOMAIN lt.table -> TableEntries(idx + 1)]
      /\ \A j \in DOMAIN lt.table :
           /\ new.table[j].leaf_num = lt.table[j].leaf_num
           /\ new.table[j].synonym_leaf =
                IF j = i /\ p = 0 THEN idx ELSE lt.table[j].synonym_leaf
  <2>1. CASE p = 0
    <3>1. new.table = [lt.table EXCEPT ![i].synonym_leaf = idx]
      BY <1>4, <2>1
    <3>2. new.table[i] = [lt.table[i] EXCEPT !.synonym_leaf = idx]
      BY <1>5, <3>1
    <3>3. \A j \in DOMAIN lt.table : j # i => new.table[j] = lt.table[j]
      BY <1>5, <3>1
    <3>4. DOMAIN new.table = DOMAIN lt.table /\ new.table = [j \in DOMAIN lt.table |-> new.table[j]]
      BY <1>5, <3>1
    <3>5. \A j \in DOMAIN lt.table : new.table[j] \in TableEntries(idx + 1)
      BY <1>1, <1>6, <1>8, <3>2, <3>3
    <3>6. new.table \in [DOMAIN lt.table -> TableEntries(idx + 1)]
      BY <3>4, <3>5
    <3> QED
      BY <1>1, <1>6, <1>8, <2>1, <3>2, <3>3, <3>6
  <2>2. CASE p # 0
    <3>1. new.table = lt.table
      BY <1>4, <2>2
    <3> QED
      BY <1>5, <1>6, <2>2, <3>1
  <2> QED
    BY <2>1, <2>2
<1>10. /\ grown \in [1 .. idx -> TableEntries(idx + 1)]
       /\ grown[idx] = TE(n, after)
       /\ \A s \in 1 .. idx - 1 : s \in 1 .. idx /\ s # idx /\ grown[s] = lt.syn[s]
  BY <1>1, <1>6, <1>7
<1> HIDE DEF grown
<1>11. /\ new.syn \in [1 .. idx -> TableEntries(idx + 1)]
       /\ new.syn[idx] = TE(n, after)
       /\ \A s \in 1 .. idx - 1 :
            /\ new.syn[s].leaf_num = lt.syn[s].leaf_num
            /\ new.syn[s].synonym_leaf =
                 IF p # 0 /\ s = prev THEN idx ELSE lt.syn[s].synonym_leaf
  <2>1. CASE p = 0
    BY <1>4, <1>10, <2>1
  <2>2. CASE p # 0
    <3>1. new.syn = [grown EXCEPT ![prev].synonym_leaf = idx]
      BY <1>4, <2>2
    <3>2. prev \in 1 .. idx /\ prev # idx
      BY <1>2, <1>10, <2>2
    <3>3. new.syn[prev] = [grown[prev] EXCEPT !.synonym_leaf = idx]
      BY <1>10, <3>1, <3>2
    <3>4. \A s \in 1 .. idx : s # prev => new.syn[s] = grown[s]
      BY <1>10, <3>1
    <3>5. DOMAIN new.syn = 1 .. idx /\ new.syn = [s \in 1 .. idx |-> new.syn[s]]
      BY <1>10, <3>1
    <3>6. \A s \in 1 .. idx : new.syn[s] \in TableEntries(idx + 1)
      BY <1>8, <1>10, <3>2, <3>3, <3>4
    <3>7. new.syn \in [1 .. idx -> TableEntries(idx + 1)]
      BY <3>5, <3>6
    <3>8. idx \in 1 .. idx
      BY <1>1
    <3>9. new.syn[idx] = TE(n, after)
      BY <1>10, <3>2, <3>4, <3>8
    <3>10. ASSUME NEW s \in 1 .. idx - 1
           PROVE  /\ new.syn[s].leaf_num = lt.syn[s].leaf_num
                  /\ new.syn[s].synonym_leaf = IF s = prev THEN idx ELSE lt.syn[s].synonym_leaf
      <4>1. s \in 1 .. idx /\ grown[s] = lt.syn[s] /\ grown[s] \in TableEntries(idx + 1)
        BY <1>10
      <4>2. CASE s = prev
        BY <1>8, <3>3, <4>1, <4>2
      <4>3. CASE s # prev
        BY <3>4, <4>1, <4>3
      <4> QED
        BY <4>2, <4>3
    <3> QED
      BY <2>2, <3>7, <3>9, <3>10
  <2> QED
    BY <2>1, <2>2
<1>12. Linked(new)
  <2>1. new.next = idx + 1 /\ new.next \in Nat \ {0} /\ new.next - 1 = idx
    BY <1>1, <1>4
  <2>2. new.table \in [DOMAIN new.table -> TableEntries(new.next)]
    BY <1>9, <2>1
  <2>3. new.syn \in [1 .. new.next - 1 -> TableEntries(new.next)]
    BY <1>11, <2>1
  <2>4. new \in [table : [DOMAIN new.table -> TableEntries(new.next)],
                 syn : [1 .. new.next - 1 -> TableEntries(new.next)], next : {new.next}]
    BY <1>4, <2>2, <2>3
  <2> QED
    BY <2>1, <2>4 DEF Linked
<1>13. DOMAIN new.table = DOMAIN lt.table
  BY <1>9
<1>14. new.next = idx + 1
  BY <1>4
<1> QED
  BY <1>3, <1>9, <1>11, <1>12, <1>13, <1>14 DEF new, idx, prev, after

\* A chain stays as it is while its links do.
LEMMA WalkKept ==
  ASSUME NEW lt, Linked(lt), NEW new, Linked(new), lt.next <= new.next,
         NEW s, NEW c, Walk(lt, s, c),
         \A p \in 1 .. Len(c) : new.syn[c[p]].synonym_leaf = lt.syn[c[p]].synonym_leaf
  PROVE  Walk(new, s, c)
<1>1. c \in Seq(1 .. lt.next - 1) /\ Len(c) \in Nat
  BY DEF Walk
<1>2. lt.next \in Nat /\ new.next \in Nat
  BY LinkedLemma
<1>3. c \in Seq(1 .. new.next - 1)
  <2>1. \A p \in 1 .. Len(c) : c[p] \in 1 .. new.next - 1
    BY <1>1, <1>2, ElementLemma
  <2> QED
    BY <1>1, <2>1, SeqLemma
<1>4. s = 0 <=> Len(c) = 0
  BY DEF Walk
<1>5. s # 0 => c[1] = s /\ new.syn[c[Len(c)]].synonym_leaf = 0
  <2>1. s # 0 => Len(c) \in 1 .. Len(c)
    BY <1>1, <1>4
  <2> QED
    BY <2>1 DEF Walk
<1>6. \A p \in 1 .. Len(c) - 1 : c[p + 1] = new.syn[c[p]].synonym_leaf
  <2>1. \A p \in 1 .. Len(c) - 1 : p \in 1 .. Len(c)
    BY <1>1
  <2> QED
    BY <2>1 DEF Walk
<1> QED
  BY <1>3, <1>4, <1>5, <1>6 DEF Walk

\* A new slot gets a rank between those of the slots it comes between.
LEMMA EmplaceRanked ==
  ASSUME NEW lt, Sound(lt), NEW i \in DOMAIN lt.table,
         NEW p \in 0 .. Len(Chain(lt, i)), NEW n \in Nat
  PROVE  Ranked(synonym_emplace_back(lt, i, p, n))
<1> DEFINE new == synonym_emplace_back(lt, i, p, n)
           idx == lt.next
           prev == Chain(lt, i)[p]
           after == IF p = 0 THEN lt.table[i].synonym_leaf ELSE lt.syn[prev].synonym_leaf
<1>1. /\ new.next = idx + 1
      /\ \A s \in 1 .. idx - 1 :
           new.syn[s].synonym_leaf = IF p # 0 /\ s = prev THEN idx ELSE lt.syn[s].synonym_leaf
      /\ new.syn[idx] = TE(n, after)
      /\ after \in 0 .. idx - 1
  BY EmplaceFields
<1>11. TE(n, after).synonym_leaf = after
  BY DEF TE
<1>2. p # 0 => prev \in 1 .. idx - 1 /\ after = lt.syn[prev].synonym_leaf
  BY ChainLemma
<1>3. idx \in Nat /\ idx > 0 /\ \A s \in 1 .. idx - 1 : lt.syn[s].synonym_leaf \in 0 .. idx - 1
  BY LinkedLemma DEF Sound
<1>4. PICK top \in Nat : \E rank : Ranks(lt, rank, top)
  BY DEF Sound, Ranked
<1>5. PICK rank : Ranks(lt, rank, top)
  BY <1>4
<1>6. /\ \A s \in 0 .. idx - 1 : rank[s] \in 0 .. top
      /\ \A s \in 1 .. idx - 1 : rank[lt.syn[s].synonym_leaf] < rank[s]
  BY <1>5 DEF Ranks
<1> HIDE DEF new, idx, prev, after
<1> DEFINE top2 == 2 * top + 1
           rank2 == [s \in 0 .. idx |-> IF s = idx THEN 2 * rank[after] + 1 ELSE 2 * rank[s]]
<1>12. top2 \in Nat /\ rank[after] \in 0 .. top
  BY <1>1, <1>4, <1>6
<1>13. 2 * rank[after] + 1 \in 0 .. top2 /\ \A s \in 0 .. idx - 1 : 2 * rank[s] \in 0 .. top2
  BY <1>4, <1>6, <1>12
<1>7. /\ \A s \in 0 .. idx - 1 : s \in 0 .. idx /\ rank2[s] = 2 * rank[s] /\ rank2[s] \in 0 .. top2
      /\ rank2[idx] = 2 * rank[after] + 1 /\ rank2[idx] \in 0 .. top2
      /\ top2 \in Nat
  <2> HIDE DEF top2
  <2>1. rank2[idx] = 2 * rank[after] + 1
    BY <1>3
  <2>2. \A s \in 0 .. idx - 1 : s \in 0 .. idx /\ rank2[s] = 2 * rank[s]
    BY <1>3
  <2> QED
    BY <1>12, <1>13, <2>1, <2>2
<1>8. rank2 \in [0 .. idx -> 0 .. top2]
  <2> HIDE DEF top2
  <2>1. \A s \in 0 .. idx : s = idx \/ s \in 0 .. idx - 1
    BY <1>3
  <2>2. \A s \in 0 .. idx : rank2[s] \in 0 .. top2
    BY <1>7, <2>1
  <2> QED
    BY <2>2
<1> HIDE DEF top2, rank2
<1>9. ASSUME NEW s \in 1 .. idx PROVE rank2[new.syn[s].synonym_leaf] < rank2[s]
  <2>1. CASE s = idx
    <3>1. rank2[after] = 2 * rank[after] /\ rank[after] \in Nat
      BY <1>1, <1>6, <1>7
    <3>2. new.syn[s].synonym_leaf = after
      BY <1>1, <1>11, <2>1
    <3> QED
      BY <1>7, <2>1, <3>1, <3>2
  <2>2. CASE s # idx /\ p # 0 /\ s = prev
    <3>1. s \in 1 .. idx - 1 /\ s \in 0 .. idx - 1
      BY <1>3, <2>2
    <3>2. new.syn[s].synonym_leaf = idx /\ rank[after] < rank[s]
      BY <1>1, <1>2, <1>6, <2>2, <3>1
    <3>3. rank2[s] = 2 * rank[s] /\ rank[s] \in Nat /\ rank[after] \in Nat
      BY <1>1, <1>6, <1>7, <3>1
    <3> QED
      BY <1>7, <3>2, <3>3
  <2>3. CASE s # idx /\ ~ (p # 0 /\ s = prev)
    <3>1. s \in 1 .. idx - 1 /\ s \in 0 .. idx - 1
      BY <1>3, <2>3
    <3> DEFINE t == lt.syn[s].synonym_leaf
    <3>2. new.syn[s].synonym_leaf = t /\ rank[t] < rank[s] /\ t \in 0 .. idx - 1
      BY <1>1, <1>3, <1>6, <2>3, <3>1
    <3> HIDE DEF t
    <3>3. /\ rank2[s] = 2 * rank[s] /\ rank[s] \in Nat
          /\ rank2[t] = 2 * rank[t] /\ rank[t] \in Nat
      BY <1>6, <1>7, <3>1, <3>2
    <3> QED
      BY <3>2, <3>3
  <2> QED
    BY <2>1, <2>2, <2>3
<1>10. Ranks(new, rank2, top2)
  <2>1. new.next - 1 = idx
    BY <1>1, <1>3
  <2> QED
    BY <1>8, <1>9, <2>1 DEF Ranks
<1> QED
  BY <1>7, <1>10 DEF Ranked, new

\* The chain that gets the new slot, place by place
Inserted(c, p, idx) ==
  [q \in 1 .. Len(c) + 1 |-> IF q <= p THEN c[q] ELSE IF q = p + 1 THEN idx ELSE c[q - 1]]

\* synonym_emplace_back: the new slot is the leaf after place p, and nothing else moves.
LEMMA EmplaceLemma ==
  ASSUME NEW lt, Sound(lt), NEW i \in DOMAIN lt.table,
         NEW p \in 0 .. Len(Chain(lt, i)), NEW n \in Nat
  PROVE  LET new == synonym_emplace_back(lt, i, p, n)
         IN  /\ Sound(new)
             /\ Chain(new, i) = Inserted(Chain(lt, i), p, lt.next)
             /\ \A j \in DOMAIN lt.table : j # i => Chain(new, j) = Chain(lt, j)
<1> DEFINE new == synonym_emplace_back(lt, i, p, n)
           idx == lt.next
           c == Chain(lt, i)
           prev == c[p]
           after == IF p = 0 THEN lt.table[i].synonym_leaf ELSE lt.syn[prev].synonym_leaf
           d == Inserted(c, p, idx)
<1>1. /\ Linked(new) /\ new.next = idx + 1
      /\ DOMAIN new.table = DOMAIN lt.table
      /\ \A j \in DOMAIN lt.table :
           new.table[j].synonym_leaf =
             IF j = i /\ p = 0 THEN idx ELSE lt.table[j].synonym_leaf
      /\ \A s \in 1 .. idx - 1 :
           new.syn[s].synonym_leaf = IF p # 0 /\ s = prev THEN idx ELSE lt.syn[s].synonym_leaf
      /\ new.syn[idx] = TE(n, after)
      /\ after \in 0 .. idx - 1
  BY EmplaceFields
<1>2. new.syn[idx].synonym_leaf = after
  BY <1>1 DEF TE
<1>3. Ranked(new)
  BY EmplaceRanked
<1>4. /\ p \in 0 .. Len(c) /\ p \in Nat
      /\ Walk(lt, lt.table[i].synonym_leaf, c)
      /\ c \in Seq(1 .. idx - 1) /\ Len(c) \in Nat
      /\ \A q \in 1 .. Len(c) : c[q] \in 1 .. idx - 1
      /\ \A q, r \in 1 .. Len(c) : c[q] = c[r] => q = r
  BY ChainLemma
<1>5. idx \in Nat /\ idx > 0 /\ Linked(lt) /\ Ranked(lt)
  BY LinkedLemma DEF Sound
<1>6. /\ d = [q \in 1 .. Len(c) + 1 |-> d[q]]
      /\ Len(d) = Len(c) + 1
      /\ \A q \in 1 .. Len(c) : q <= p => d[q] = c[q]
      /\ d[p + 1] = idx
      /\ \A q \in 1 .. Len(c) : q > p => d[q + 1] = c[q]
      /\ \A q \in 1 .. Len(c) + 1 : d[q] \in 1 .. idx
  <2>1. /\ Len(d) = Len(c) + 1 /\ d = [q \in 1 .. Len(c) + 1 |-> d[q]]
        /\ \A q \in 1 .. Len(c) + 1 :
             d[q] = IF q <= p THEN c[q] ELSE IF q = p + 1 THEN idx ELSE c[q - 1]
    BY <1>4 DEF Inserted
  <2> HIDE DEF d, c, idx
  <2>2. \A q \in 1 .. Len(c) : q <= p => d[q] = c[q]
    BY <1>4, <2>1
  <2>3. d[p + 1] = idx
    BY <1>4, <2>1
  <2>4. \A q \in 1 .. Len(c) : q > p => d[q + 1] = c[q]
    BY <1>4, <2>1
  <2>5. ASSUME NEW q \in 1 .. Len(c) + 1 PROVE d[q] \in 1 .. idx
    <3>1. q \in 1 .. Len(c) \/ q - 1 \in 1 .. Len(c) \/ q = p + 1
      BY <1>4
    <3>2. \A r \in 1 .. Len(c) : c[r] \in 1 .. idx
      BY <1>4, <1>5
    <3>3. CASE q <= p
      BY <1>4, <2>1, <3>2, <3>3
    <3>4. CASE q = p + 1
      BY <1>5, <2>3, <3>4
    <3>5. CASE q > p + 1
      <4>1. q - 1 \in 1 .. Len(c) /\ d[q] = c[q - 1]
        BY <1>4, <2>1, <3>5
      <4> QED
        BY <3>2, <4>1
    <3> QED
      BY <1>4, <3>3, <3>4, <3>5
  <2> QED
    BY <2>1, <2>2, <2>3, <2>4, <2>5
<1>16. d \in Seq(1 .. idx)
  <2> HIDE DEF d
  <2> QED
    BY <1>4, <1>6
<1> HIDE DEF new, d, after
<1>7. Walk(new, new.table[i].synonym_leaf, d)
  <2> HIDE DEF idx, c, prev
  <2>1. d[1] = new.table[i].synonym_leaf /\ new.table[i].synonym_leaf # 0
    <3>1. CASE p = 0
      BY <1>1, <1>5, <1>6, <3>1
    <3>2. CASE p # 0
      <4>1. 1 \in 1 .. Len(c) /\ 1 <= p /\ Len(c) # 0
        BY <1>4, <3>2
      <4>2. c[1] = lt.table[i].synonym_leaf /\ c[1] \in 1 .. idx - 1
        BY <1>4, <4>1 DEF Walk
      <4>3. d[1] = c[1]
        BY <1>6, <4>1
      <4>4. c[1] # 0
        BY <1>5, <4>2
      <4> QED
        BY <1>1, <3>2, <4>2, <4>3, <4>4
    <3> QED
      BY <3>1, <3>2
  <2>2. ASSUME NEW q \in 1 .. Len(c), q # p
        PROVE  new.syn[c[q]].synonym_leaf = lt.syn[c[q]].synonym_leaf
    <3>1. c[q] \in 1 .. idx - 1
      BY <1>4
    <3>2. p # 0 => p \in 1 .. Len(c) /\ prev = c[p]
      BY <1>4 DEF prev
    <3>3. ~ (p # 0 /\ c[q] = prev)
      BY <1>4, <2>2, <3>2
    <3> QED
      BY <1>1, <3>1, <3>3
  <2>3. p # 0 => new.syn[c[p]].synonym_leaf = idx /\ after = lt.syn[c[p]].synonym_leaf
    <3>1. p # 0 => p \in 1 .. Len(c) /\ prev = c[p] /\ c[p] \in 1 .. idx - 1
      BY <1>4 DEF prev
    <3> QED
      BY <1>1, <3>1 DEF after
  <2>4. p = 0 => after = lt.table[i].synonym_leaf
    BY DEF after
  <2>5. new.syn[d[Len(d)]].synonym_leaf = 0
    <3>1. CASE p = Len(c)
      <4>1. d[Len(d)] = idx
        BY <1>6, <3>1
      <4>2. after = 0
        <5>1. CASE p = 0
          BY <1>4, <2>4, <3>1, <5>1 DEF Walk
        <5>2. CASE p # 0
          <6>1. lt.table[i].synonym_leaf # 0
            BY <1>4, <3>1, <5>2 DEF Walk
          <6> QED
            BY <1>4, <2>3, <3>1, <5>2, <6>1 DEF Walk
        <5> QED
          BY <5>1, <5>2
      <4> QED
        BY <1>2, <4>1, <4>2
    <3>2. CASE p < Len(c)
      <4>1. Len(c) \in 1 .. Len(c) /\ Len(c) # p /\ Len(c) > p
        BY <1>4, <3>2
      <4>2. d[Len(d)] = c[Len(c)]
        BY <1>6, <4>1
      <4>3. lt.syn[c[Len(c)]].synonym_leaf = 0
        BY <1>4, <4>1 DEF Walk
      <4> QED
        BY <2>2, <4>1, <4>2, <4>3
    <3> QED
      BY <1>4, <3>1, <3>2
  <2>6. ASSUME NEW q \in 1 .. Len(d) - 1 PROVE d[q + 1] = new.syn[d[q]].synonym_leaf
    <3>0. q \in 1 .. Len(c) /\ q \in Nat
      BY <1>4, <1>6
    <3>1. CASE q < p
      <4>1. q + 1 \in 1 .. Len(c) /\ q \in 1 .. Len(c) - 1 /\ q <= p /\ q + 1 <= p /\ q # p
        BY <1>4, <3>0, <3>1
      <4>2. c[q + 1] = lt.syn[c[q]].synonym_leaf
        BY <1>4, <4>1 DEF Walk
      <4>3. d[q] = c[q] /\ d[q + 1] = c[q + 1]
        BY <1>6, <3>0, <4>1
      <4> QED
        BY <2>2, <3>0, <4>1, <4>2, <4>3
    <3>2. CASE q = p
      <4>1. p # 0 /\ q <= p
        BY <3>0, <3>2
      <4>2. d[q] = c[p] /\ d[q + 1] = idx
        BY <1>6, <3>0, <3>2, <4>1
      <4> QED
        BY <2>3, <4>1, <4>2
    <3>3. CASE q = p + 1
      <4>1. d[q] = idx /\ q > p
        BY <1>6, <3>3
      <4>2. d[q + 1] = c[q]
        BY <1>6, <3>0, <4>1
      <4>3. CASE p = 0
        <5>1. q = 1 /\ Len(c) # 0
          BY <3>0, <3>3, <4>3
        <5>2. c[1] = lt.table[i].synonym_leaf
          BY <1>4, <5>1 DEF Walk
        <5> QED
          BY <1>2, <2>4, <4>1, <4>2, <4>3, <5>1, <5>2
      <4>4. CASE p # 0
        <5>1. p \in 1 .. Len(c) - 1
          BY <3>0, <3>3, <4>4
        <5>2. c[p + 1] = lt.syn[c[p]].synonym_leaf
          BY <1>4, <5>1 DEF Walk
        <5> QED
          BY <1>2, <2>3, <3>3, <4>1, <4>2, <4>4, <5>2
      <4> QED
        BY <4>3, <4>4
    <3>4. CASE q > p + 1
      <4>1. /\ q - 1 \in 1 .. Len(c) - 1 /\ q - 1 \in 1 .. Len(c) /\ q - 1 > p
            /\ (q - 1) + 1 = q /\ q > p /\ q - 1 # p
        BY <3>0, <3>4
      <4>2. c[(q - 1) + 1] = lt.syn[c[q - 1]].synonym_leaf
        BY <1>4, <4>1 DEF Walk
      <4>3. d[(q - 1) + 1] = c[q - 1] /\ d[q + 1] = c[q]
        BY <1>6, <3>0, <4>1
      <4> QED
        BY <2>2, <4>1, <4>2, <4>3
    <3> QED
      BY <3>0, <3>1, <3>2, <3>3, <3>4
  <2>7. d \in Seq(1 .. new.next - 1) /\ Len(d) # 0
    <3>1. new.next - 1 = idx
      BY <1>1, <1>5
    <3> QED
      BY <1>4, <1>6, <1>16, <3>1
  <2> QED
    BY <2>1, <2>5, <2>6, <2>7 DEF Walk
<1>8. Chain(new, i) = d
  BY <1>1, <1>3, <1>7, ChainWalks, WalkUnique
<1>9. ASSUME NEW j \in DOMAIN lt.table, j # i PROVE Chain(new, j) = Chain(lt, j)
  <2> DEFINE e == Chain(lt, j)
  <2>1. Walk(lt, lt.table[j].synonym_leaf, e) /\ \A q \in 1 .. Len(e) : e[q] \in 1 .. idx - 1
    BY ChainLemma
  <2>2. ASSUME NEW q \in 1 .. Len(e)
        PROVE  new.syn[e[q]].synonym_leaf = lt.syn[e[q]].synonym_leaf
    <3>1. p # 0 => p \in 1 .. Len(c)
      BY <1>4
    <3>2. ~ (p # 0 /\ e[q] = prev)
      BY <1>9, <3>1 DEF Sound, Apart
    <3> HIDE DEF e, prev, idx
    <3> QED
      BY <1>1, <2>1, <3>2
  <2>3. new.table[j].synonym_leaf = lt.table[j].synonym_leaf /\ lt.next <= new.next
    BY <1>1, <1>5, <1>9
  <2> HIDE DEF e
  <2>4. Walk(new, new.table[j].synonym_leaf, e)
    BY <1>1, <1>5, <2>1, <2>2, <2>3, WalkKept
  <2>5. Walk(new, new.table[j].synonym_leaf, Chain(new, j))
    BY <1>1, <1>3, ChainWalks
  <2>6. Chain(new, j) = e
    BY <1>1, <2>4, <2>5, WalkUnique
  <2> QED
    BY <2>6 DEF e
<1>10. Apart(new)
  <2>1. ASSUME NEW j \in DOMAIN lt.table, j # i,
               NEW q \in 1 .. Len(d), NEW r \in 1 .. Len(Chain(lt, j))
        PROVE  d[q] # Chain(lt, j)[r]
    <3>1. Chain(lt, j)[r] \in 1 .. idx - 1
      BY ChainLemma
    <3>2. \A x \in 1 .. Len(c) : c[x] # Chain(lt, j)[r]
      BY <2>1 DEF Sound, Apart
    <3>3. d[q] = idx \/ \E x \in 1 .. Len(c) : d[q] = c[x]
      <4> HIDE DEF c, idx
      <4>0. q \in 1 .. Len(c) + 1 /\ q \in Nat
        BY <1>4, <1>6, <2>1
      <4>1. CASE q <= p
        <5>1. q \in 1 .. Len(c)
          BY <1>4, <4>0, <4>1
        <5> QED
          BY <1>6, <4>1, <5>1
      <4>2. CASE q = p + 1
        BY <1>6, <4>2
      <4>3. CASE q > p + 1
        <5>1. q - 1 \in 1 .. Len(c) /\ q - 1 > p /\ (q - 1) + 1 = q
          BY <1>4, <4>0, <4>3
        <5> QED
          BY <1>6, <5>1
      <4> QED
        BY <1>4, <4>0, <4>1, <4>2, <4>3
    <3>4. idx # Chain(lt, j)[r]
      BY <1>5, <3>1
    <3> QED
      BY <3>2, <3>3, <3>4
  <2> SUFFICES ASSUME NEW j \in DOMAIN new.table, NEW k \in DOMAIN new.table, j # k,
                      NEW q \in 1 .. Len(Chain(new, j)), NEW r \in 1 .. Len(Chain(new, k))
               PROVE  Chain(new, j)[q] # Chain(new, k)[r]
    BY DEF Apart
  <2>2. CASE j = i
    BY <1>1, <1>8, <1>9, <2>1, <2>2
  <2>3. CASE k = i
    BY <1>1, <1>8, <1>9, <2>1, <2>3
  <2>4. CASE j # i /\ k # i
    BY <1>1, <1>9, <2>4 DEF Sound, Apart
  <2> QED
    BY <2>2, <2>3, <2>4
<1> QED
  BY <1>1, <1>3, <1>8, <1>9, <1>10 DEF Sound, new, d

\* synonym_table_remove, field by field: one link changes.
LEMMA UnlinkFields ==
  ASSUME NEW lt, Sound(lt), NEW i \in DOMAIN lt.table, NEW p \in 1 .. Len(Chain(lt, i))
  PROVE  LET new == synonym_table_remove(lt, i, p)
             c == Chain(lt, i)
             after == lt.syn[c[p]].synonym_leaf
         IN  /\ Linked(new) /\ Ranked(new) /\ new.next = lt.next
             /\ DOMAIN new.table = DOMAIN lt.table
             /\ \A j \in DOMAIN lt.table :
                  /\ new.table[j].leaf_num = lt.table[j].leaf_num
                  /\ new.table[j].synonym_leaf =
                       IF j = i /\ p = 1 THEN after ELSE lt.table[j].synonym_leaf
             /\ \A s \in 1 .. lt.next - 1 :
                  /\ new.syn[s].leaf_num = lt.syn[s].leaf_num
                  /\ new.syn[s].synonym_leaf =
                       IF p # 1 /\ s = c[p - 1] THEN after ELSE lt.syn[s].synonym_leaf
<1> DEFINE new == synonym_table_remove(lt, i, p)
           idx == lt.next
           c == Chain(lt, i)
           after == lt.syn[c[p]].synonym_leaf
           prev == c[p - 1]
<1>1. /\ idx \in Nat /\ idx > 0
      /\ \A s \in 1 .. idx - 1 : /\ lt.syn[s] \in TableEntries(idx)
                                 /\ lt.syn[s].synonym_leaf \in 0 .. idx - 1
  BY LinkedLemma DEF Sound
<1>2. /\ p \in Nat /\ p # 0 /\ Len(c) \in Nat /\ p <= Len(c)
      /\ \A q \in 1 .. Len(c) : c[q] \in 1 .. idx - 1
      /\ Walk(lt, lt.table[i].synonym_leaf, c)
  BY ChainLemma
<1>3. c[p] \in 1 .. idx - 1 /\ after \in 0 .. idx - 1
  BY <1>1, <1>2
<1>4. p # 1 => prev \in 1 .. idx - 1 /\ lt.syn[prev].synonym_leaf = c[p]
  <2>1. p # 1 => p - 1 \in 1 .. Len(c) - 1 /\ p - 1 \in 1 .. Len(c) /\ (p - 1) + 1 = p
    BY <1>2
  <2>2. p # 1 => c[(p - 1) + 1] = lt.syn[prev].synonym_leaf
    BY <1>2, <2>1 DEF Walk
  <2> QED
    BY <1>2, <2>1, <2>2
<1>5. /\ lt.table \in [DOMAIN lt.table -> TableEntries(idx)]
      /\ lt.syn \in [1 .. idx - 1 -> TableEntries(idx)]
      /\ lt = [table |-> lt.table, syn |-> lt.syn, next |-> idx]
  BY DEF Sound, Linked
<1>6. /\ p = 1 => new = [table |-> [lt.table EXCEPT ![i].synonym_leaf = after],
                         syn |-> lt.syn, next |-> idx]
      /\ p # 1 => new = [table |-> lt.table,
                         syn |-> [lt.syn EXCEPT ![prev].synonym_leaf = after],
                         next |-> idx]
  <2>1. new = IF p = 1 THEN [lt EXCEPT !.table[i].synonym_leaf = after]
                       ELSE [lt EXCEPT !.syn[prev].synonym_leaf = after]
    BY DEF synonym_table_remove
  <2> HIDE DEF new, idx, after, prev, c
  <2> QED
    BY <1>5, <2>1
<1>7. \A e \in TableEntries(idx) :
        /\ [e EXCEPT !.synonym_leaf = after] \in TableEntries(idx)
        /\ [e EXCEPT !.synonym_leaf = after].synonym_leaf = after
        /\ [e EXCEPT !.synonym_leaf = after].leaf_num = e.leaf_num
  BY <1>3 DEF TableEntries
<1> HIDE DEF new, idx, after, prev, c
<1>8. /\ new.table \in [DOMAIN lt.table -> TableEntries(idx)]
      /\ \A j \in DOMAIN lt.table :
           /\ new.table[j].leaf_num = lt.table[j].leaf_num
           /\ new.table[j].synonym_leaf =
                IF j = i /\ p = 1 THEN after ELSE lt.table[j].synonym_leaf
  <2>1. CASE p = 1
    <3>1. new.table = [lt.table EXCEPT ![i].synonym_leaf = after]
      BY <1>6, <2>1
    <3>2. new.table[i] = [lt.table[i] EXCEPT !.synonym_leaf = after]
      BY <1>5, <3>1
    <3>3. \A j \in DOMAIN lt.table : j # i => new.table[j] = lt.table[j]
      BY <1>5, <3>1
    <3>4. DOMAIN new.table = DOMAIN lt.table /\ new.table = [j \in DOMAIN lt.table |-> new.table[j]]
      BY <1>5, <3>1
    <3>5. \A j \in DOMAIN lt.table : lt.table[j] \in TableEntries(idx)
      BY <1>5
    <3>6. \A j \in DOMAIN lt.table : new.table[j] \in TableEntries(idx)
      BY <1>7, <3>2, <3>3, <3>5
    <3>7. new.table \in [DOMAIN lt.table -> TableEntries(idx)]
      BY <3>4, <3>6
    <3>8. /\ new.table[i].leaf_num = lt.table[i].leaf_num
          /\ new.table[i].synonym_leaf = after
      <4>1. lt.table[i] \in TableEntries(idx)
        BY <3>5
      <4> QED
        BY <1>7, <3>2, <4>1, Zenon
    <3>9. \A j \in DOMAIN lt.table : j # i =>
            /\ new.table[j].leaf_num = lt.table[j].leaf_num
            /\ new.table[j].synonym_leaf = lt.table[j].synonym_leaf
      BY <3>3, Zenon
    <3> QED
      BY <2>1, <3>7, <3>8, <3>9, Zenon
  <2>2. CASE p # 1
    <3>1. new.table = lt.table
      BY <1>6, <2>2
    <3> QED
      BY <1>5, <2>2, <3>1
  <2> QED
    BY <2>1, <2>2
<1>9. /\ new.syn \in [1 .. idx - 1 -> TableEntries(idx)]
      /\ \A s \in 1 .. idx - 1 :
           /\ new.syn[s].leaf_num = lt.syn[s].leaf_num
           /\ new.syn[s].synonym_leaf =
                IF p # 1 /\ s = prev THEN after ELSE lt.syn[s].synonym_leaf
  <2>1. CASE p = 1
    <3>1. new.syn = lt.syn
      BY <1>6, <2>1
    <3> QED
      BY <1>5, <2>1, <3>1
  <2>2. CASE p # 1
    <3>1. new.syn = [lt.syn EXCEPT ![prev].synonym_leaf = after]
      BY <1>6, <2>2
    <3>2. prev \in 1 .. idx - 1
      BY <1>4, <2>2
    <3>3. new.syn[prev] = [lt.syn[prev] EXCEPT !.synonym_leaf = after]
      BY <1>5, <3>1, <3>2
    <3>4. \A s \in 1 .. idx - 1 : s # prev => new.syn[s] = lt.syn[s]
      BY <1>5, <3>1
    <3>5. DOMAIN new.syn = 1 .. idx - 1 /\ new.syn = [s \in 1 .. idx - 1 |-> new.syn[s]]
      BY <1>5, <3>1
    <3>6. \A s \in 1 .. idx - 1 : new.syn[s] \in TableEntries(idx)
      BY <1>1, <1>7, <3>2, <3>3, <3>4
    <3>7. new.syn \in [1 .. idx - 1 -> TableEntries(idx)]
      BY <3>5, <3>6
    <3>8. ASSUME NEW s \in 1 .. idx - 1
          PROVE  /\ new.syn[s].leaf_num = lt.syn[s].leaf_num
                 /\ new.syn[s].synonym_leaf = IF s = prev THEN after ELSE lt.syn[s].synonym_leaf
      <4>1. CASE s = prev
        BY <1>1, <1>7, <3>3, <4>1
      <4>2. CASE s # prev
        BY <3>4, <4>2
      <4> QED
        BY <4>1, <4>2
    <3> QED
      BY <2>2, <3>7, <3>8
  <2> QED
    BY <2>1, <2>2
<1>10. new.next = idx /\ new = [table |-> new.table, syn |-> new.syn, next |-> new.next]
  BY <1>6
<1>11. Linked(new)
  <2>1. new \in [table : [DOMAIN new.table -> TableEntries(new.next)],
                 syn : [1 .. new.next - 1 -> TableEntries(new.next)], next : {new.next}]
    BY <1>8, <1>9, <1>10
  <2> QED
    BY <1>1, <1>10, <2>1 DEF Linked
<1>12. Ranked(new)
  <2>1. PICK top \in Nat : \E rank : Ranks(lt, rank, top)
    BY DEF Sound, Ranked
  <2>2. PICK rank : Ranks(lt, rank, top)
    BY <2>1
  <2>3. /\ rank \in [0 .. idx - 1 -> 0 .. top]
        /\ \A s \in 1 .. idx - 1 : rank[lt.syn[s].synonym_leaf] < rank[s]
    BY <2>2 DEF Ranks, idx
  <2>4. p # 1 => rank[after] < rank[prev]
    <3>1. \A s \in 0 .. idx - 1 : rank[s] \in Nat
      BY <2>1, <2>3
    <3>2. rank[after] < rank[c[p]]
      BY <1>3, <2>3 DEF after
    <3>3. p # 1 => rank[c[p]] < rank[prev]
      BY <1>4, <2>3
    <3>4. p # 1 => c[p] \in 0 .. idx - 1 /\ prev \in 0 .. idx - 1
      BY <1>1, <1>3, <1>4
    <3> QED
      BY <1>3, <3>1, <3>2, <3>3, <3>4
  <2>5. Ranks(new, rank, top)
    BY <1>9, <1>10, <2>3, <2>4 DEF Ranks
  <2> QED
    BY <2>1, <2>5 DEF Ranked
<1>13. DOMAIN new.table = DOMAIN lt.table
  BY <1>8
<1> QED
  BY <1>8, <1>9, <1>10, <1>11, <1>12, <1>13 DEF new, idx, after, prev, c

\* The chain that loses a slot, place by place
Removed(c, p) ==
  [q \in 1 .. Len(c) - 1 |-> IF q < p THEN c[q] ELSE c[q + 1]]

\* synonym_table_remove: the slot at place p is skipped, and nothing else moves.
LEMMA UnlinkLemma ==
  ASSUME NEW lt, Sound(lt), NEW i \in DOMAIN lt.table, NEW p \in 1 .. Len(Chain(lt, i))
  PROVE  LET new == synonym_table_remove(lt, i, p)
         IN  /\ Sound(new)
             /\ Chain(new, i) = Removed(Chain(lt, i), p)
             /\ \A j \in DOMAIN lt.table : j # i => Chain(new, j) = Chain(lt, j)
<1> DEFINE new == synonym_table_remove(lt, i, p)
           idx == lt.next
           c == Chain(lt, i)
           after == lt.syn[c[p]].synonym_leaf
           d == Removed(c, p)
<1>1. /\ Linked(new) /\ Ranked(new) /\ new.next = idx
      /\ DOMAIN new.table = DOMAIN lt.table
      /\ \A j \in DOMAIN lt.table :
           new.table[j].synonym_leaf =
             IF j = i /\ p = 1 THEN after ELSE lt.table[j].synonym_leaf
      /\ \A s \in 1 .. idx - 1 :
           new.syn[s].synonym_leaf =
             IF p # 1 /\ s = c[p - 1] THEN after ELSE lt.syn[s].synonym_leaf
  BY UnlinkFields
<1>2. /\ p \in 1 .. Len(c) /\ p \in Nat /\ p # 0 /\ p <= Len(c)
      /\ Walk(lt, lt.table[i].synonym_leaf, c)
      /\ c \in Seq(1 .. idx - 1) /\ Len(c) \in Nat
      /\ \A q \in 1 .. Len(c) : c[q] \in 1 .. idx - 1
      /\ \A q, r \in 1 .. Len(c) : c[q] = c[r] => q = r
  BY ChainLemma
<1>3. idx \in Nat /\ idx > 0 /\ Linked(lt) /\ Ranked(lt)
  BY LinkedLemma DEF Sound
<1>12. p \in Nat /\ p > 0 /\ p <= Len(c) /\ Len(c) \in Nat /\ Len(c) > 0
  BY <1>2
<1>4. /\ d = [q \in 1 .. Len(c) - 1 |-> d[q]]
      /\ Len(d) = Len(c) - 1
      /\ \A q \in 1 .. Len(d) : /\ q < p => d[q] = c[q] /\ q \in 1 .. Len(c)
                                /\ q >= p => d[q] = c[q + 1] /\ q + 1 \in 1 .. Len(c)
  <2>1. Len(d) = Len(c) - 1 /\ d = [q \in 1 .. Len(c) - 1 |-> d[q]]
    BY <1>2 DEF Removed
  <2>2. \A q \in 1 .. Len(c) - 1 : d[q] = IF q < p THEN c[q] ELSE c[q + 1]
    BY <1>2 DEF Removed
  <2> HIDE DEF d, c, idx
  <2> QED
    BY <1>2, <2>1, <2>2
<1>11. /\ Len(d) \in Nat /\ (Len(d) # 0 => Len(d) \in 1 .. Len(d))
       /\ \A q \in 1 .. Len(d) : \E r \in 1 .. Len(c) : d[q] = c[r]
  <2> HIDE DEF d, c, idx
  <2>3. \A n \in Nat : (n > 0 => n - 1 \in Nat) /\ (n # 0 => n \in 1 .. n)
    OBVIOUS
  <2>4. Len(c) - 1 \in Nat
    BY <1>12, <2>3
  <2>5. Len(d) \in Nat
    BY <1>4, <2>4
  <2>1. Len(d) \in Nat /\ (Len(d) # 0 => Len(d) \in 1 .. Len(d))
    BY <2>3, <2>5
  <2>2. ASSUME NEW q \in 1 .. Len(d) PROVE \E r \in 1 .. Len(c) : d[q] = c[r]
    <3>1. q < p \/ q >= p
      BY <1>2, <2>1
    <3> QED
      BY <1>4, <3>1
  <2> QED
    BY <2>1, <2>2
<1>5. d \in Seq(1 .. idx - 1)
  <2> HIDE DEF d, c, idx
  <2>1. \A q \in 1 .. Len(d) : d[q] \in 1 .. idx - 1
    BY <1>2, <1>11
  <2>2. [q \in 1 .. Len(d) |-> d[q]] \in Seq(1 .. idx - 1)
    BY <1>11, <2>1
  <2> QED
    BY <1>4, <2>2
<1>6. after = IF p = Len(c) THEN 0 ELSE c[p + 1]
  <2>1. lt.table[i].synonym_leaf # 0
    BY <1>2 DEF Walk
  <2>2. p = Len(c) => after = 0
    BY <1>2, <2>1 DEF Walk
  <2>3. p # Len(c) => p \in 1 .. Len(c) - 1
    BY <1>2
  <2>4. p # Len(c) => after = c[p + 1]
    BY <1>2, <2>3 DEF Walk
  <2> QED
    BY <2>2, <2>4
<1> HIDE DEF new, d, after
<1>7. Walk(new, new.table[i].synonym_leaf, d)
  <2> HIDE DEF idx, c
  <2>1. ASSUME NEW q \in 1 .. Len(c), q # p - 1
        PROVE  new.syn[c[q]].synonym_leaf = lt.syn[c[q]].synonym_leaf
    <3>1. c[q] \in 1 .. idx - 1
      BY <1>2
    <3>2. p # 1 => p - 1 \in 1 .. Len(c)
      BY <1>2
    <3>3. ~ (p # 1 /\ c[q] = c[p - 1])
      BY <1>2, <2>1, <3>2
    <3> QED
      BY <1>1, <3>1, <3>3
  <2>2. p # 1 => new.syn[c[p - 1]].synonym_leaf = after
    <3>1. p # 1 => c[p - 1] \in 1 .. idx - 1
      BY <1>2
    <3> QED
      BY <1>1, <3>1
  <2>3. new.table[i].synonym_leaf = 0 <=> Len(d) = 0
    <3>1. CASE p = 1
      <4>3. \A n \in Nat : n > 0 /\ n # 1 => 2 \in 1 .. n
        OBVIOUS
      <4>0. Len(c) # 1 => 2 \in 1 .. Len(c)
        BY <1>12, <4>3
      <4>1. Len(c) # 1 => c[2] \in 1 .. idx - 1
        BY <1>2, <4>0
      <4>2. Len(c) # 1 => c[2] # 0
        BY <1>3, <4>1
      <4> QED
        BY <1>1, <1>2, <1>4, <1>6, <3>1, <4>2
    <3>2. CASE p # 1
      <4>1. Len(d) # 0
        BY <1>2, <1>4, <3>2
      <4>2. new.table[i].synonym_leaf = lt.table[i].synonym_leaf /\ Len(c) # 0
        BY <1>1, <1>2, <3>2
      <4> QED
        BY <1>2, <4>1, <4>2 DEF Walk
    <3> QED
      BY <3>1, <3>2
  <2>4. Len(d) # 0 => d[1] = new.table[i].synonym_leaf
    <3>1. CASE p = 1 /\ Len(d) # 0
      <4>1. 1 \in 1 .. Len(d) /\ Len(c) # 1
        BY <1>2, <1>4, <3>1
      <4>2. d[1] = c[2]
        <5>1. 1 >= p /\ 1 + 1 = 2
          BY <3>1
        <5> QED
          BY <1>4, <4>1, <5>1
      <4> QED
        BY <1>1, <1>6, <3>1, <4>1, <4>2
    <3>2. CASE p # 1
      <4>1. 1 \in 1 .. Len(d) /\ 1 < p /\ Len(c) # 0
        BY <1>2, <1>4, <3>2
      <4>2. d[1] = c[1]
        BY <1>4, <4>1
      <4>3. c[1] = lt.table[i].synonym_leaf
        BY <1>2, <4>1 DEF Walk
      <4> QED
        BY <1>1, <3>2, <4>2, <4>3
    <3> QED
      BY <3>1, <3>2
  <2>5. Len(d) # 0 => new.syn[d[Len(d)]].synonym_leaf = 0
    <3> SUFFICES ASSUME Len(d) # 0 PROVE new.syn[d[Len(d)]].synonym_leaf = 0
      OBVIOUS
    <3>0. Len(d) \in 1 .. Len(d)
      BY <1>11
    <3>1. CASE p = Len(c)
      <4>1. Len(d) < p /\ Len(d) = p - 1 /\ p # 1
        BY <1>2, <1>4, <3>0, <3>1
      <4>2. d[Len(d)] = c[p - 1]
        BY <1>4, <3>0, <4>1
      <4> QED
        BY <1>6, <2>2, <3>1, <4>1, <4>2
    <3>2. CASE p < Len(c)
      <4>1. Len(d) >= p /\ Len(d) + 1 = Len(c) /\ Len(c) \in 1 .. Len(c) /\ Len(c) # p - 1
        BY <1>2, <1>4, <3>2
      <4>2. d[Len(d)] = c[Len(c)]
        BY <1>4, <3>0, <4>1
      <4>3. lt.table[i].synonym_leaf # 0
        BY <1>2 DEF Walk
      <4>4. lt.syn[c[Len(c)]].synonym_leaf = 0
        BY <1>2, <4>3 DEF Walk
      <4> QED
        BY <2>1, <4>1, <4>2, <4>4
    <3> QED
      BY <1>2, <3>1, <3>2
  <2>6. ASSUME NEW q \in 1 .. Len(d) - 1 PROVE d[q + 1] = new.syn[d[q]].synonym_leaf
    <3>0. q \in Nat /\ q \in 1 .. Len(d) /\ q + 1 \in 1 .. Len(d) /\ q <= Len(c) - 2
      BY <1>2, <1>4
    <3>1. CASE q + 1 < p
      <4>1. q \in 1 .. Len(c) - 1 /\ q \in 1 .. Len(c) /\ q # p - 1 /\ q < p
        BY <1>2, <3>0, <3>1
      <4>2. c[q + 1] = lt.syn[c[q]].synonym_leaf
        BY <1>2, <4>1 DEF Walk
      <4>3. d[q] = c[q] /\ d[q + 1] = c[q + 1]
        BY <1>4, <3>0, <3>1, <4>1
      <4> QED
        BY <2>1, <4>1, <4>2, <4>3
    <3>2. CASE q + 1 = p
      <4>1. q < p /\ q = p - 1 /\ p # 1 /\ p # Len(c) /\ q + 1 >= p /\ (q + 1) + 1 = p + 1
        BY <1>2, <3>0, <3>2
      <4>2. d[q] = c[p - 1] /\ d[q + 1] = c[p + 1]
        BY <1>4, <3>0, <4>1
      <4> QED
        BY <1>6, <2>2, <4>1, <4>2
    <3>3. CASE q >= p
      <4>1. q + 1 \in 1 .. Len(c) - 1 /\ q + 1 \in 1 .. Len(c) /\ q + 1 # p - 1 /\ q + 1 >= p
        BY <1>2, <3>0, <3>3
      <4>2. c[(q + 1) + 1] = lt.syn[c[q + 1]].synonym_leaf
        BY <1>2, <4>1 DEF Walk
      <4>3. d[q] = c[q + 1] /\ d[q + 1] = c[(q + 1) + 1]
        BY <1>4, <3>0, <3>3, <4>1
      <4> QED
        BY <2>1, <4>1, <4>2, <4>3
    <3> QED
      BY <1>2, <3>0, <3>1, <3>2, <3>3
  <2>7. d \in Seq(1 .. new.next - 1)
    BY <1>1, <1>5
  <2> QED
    BY <2>3, <2>4, <2>5, <2>6, <2>7 DEF Walk
<1>8. Chain(new, i) = d
  BY <1>1, <1>7, ChainWalks, WalkUnique
<1>9. ASSUME NEW j \in DOMAIN lt.table, j # i PROVE Chain(new, j) = Chain(lt, j)
  <2> DEFINE e == Chain(lt, j)
  <2>1. Walk(lt, lt.table[j].synonym_leaf, e) /\ \A q \in 1 .. Len(e) : e[q] \in 1 .. idx - 1
    BY ChainLemma
  <2>2. ASSUME NEW q \in 1 .. Len(e)
        PROVE  new.syn[e[q]].synonym_leaf = lt.syn[e[q]].synonym_leaf
    <3>1. p # 1 => p - 1 \in 1 .. Len(c)
      BY <1>2
    <3>2. ~ (p # 1 /\ e[q] = c[p - 1])
      BY <1>9, <3>1 DEF Sound, Apart
    <3> HIDE DEF e, c, idx
    <3> QED
      BY <1>1, <2>1, <3>2
  <2>3. new.table[j].synonym_leaf = lt.table[j].synonym_leaf /\ lt.next <= new.next
    BY <1>1, <1>3, <1>9
  <2> HIDE DEF e
  <2>4. Walk(new, new.table[j].synonym_leaf, e)
    BY <1>1, <1>3, <2>1, <2>2, <2>3, WalkKept
  <2>5. Walk(new, new.table[j].synonym_leaf, Chain(new, j))
    BY <1>1, ChainWalks
  <2>6. Chain(new, j) = e
    BY <1>1, <2>4, <2>5, WalkUnique
  <2> QED
    BY <2>6 DEF e
<1>10. Apart(new)
  <2>1. ASSUME NEW j \in DOMAIN lt.table, j # i,
               NEW q \in 1 .. Len(d), NEW r \in 1 .. Len(Chain(lt, j))
        PROVE  d[q] # Chain(lt, j)[r]
    <3>1. \A x \in 1 .. Len(c) : c[x] # Chain(lt, j)[r]
      BY <2>1 DEF Sound, Apart
    <3>2. \E x \in 1 .. Len(c) : d[q] = c[x]
      BY <1>11
    <3> QED
      BY <3>1, <3>2
  <2> SUFFICES ASSUME NEW j \in DOMAIN new.table, NEW k \in DOMAIN new.table, j # k,
                      NEW q \in 1 .. Len(Chain(new, j)), NEW r \in 1 .. Len(Chain(new, k))
               PROVE  Chain(new, j)[q] # Chain(new, k)[r]
    BY DEF Apart
  <2>2. CASE j = i
    BY <1>1, <1>8, <1>9, <2>1, <2>2
  <2>3. CASE k = i
    BY <1>1, <1>8, <1>9, <2>1, <2>3
  <2>4. CASE j # i /\ k # i
    BY <1>1, <1>9, <2>4 DEF Sound, Apart
  <2> QED
    BY <2>2, <2>3, <2>4
<1> QED
  BY <1>1, <1>8, <1>9, <1>10 DEF Sound, new, d

\* LeafTable() with train_emplace_back: a new table has no synonym leaves.
LEMMA NewTableLemma ==
  ASSUME NEW leaf_nums \in Seq(Nat)
  PROVE  LET new == NewTable(leaf_nums)
         IN  /\ Sound(new) /\ new.next = 1
             /\ DOMAIN new.table = 0 .. Len(leaf_nums) - 1
             /\ \A i \in DOMAIN new.table : /\ new.table[i].leaf_num = leaf_nums[i + 1]
                                            /\ Len(Chain(new, i)) = 0
<1> DEFINE new == NewTable(leaf_nums)
<1>1. /\ new.next = 1 /\ new.syn = <<>>
      /\ new.table = [i \in 0 .. Len(leaf_nums) - 1 |-> TE(leaf_nums[i + 1], 0)]
      /\ new = [table |-> new.table, syn |-> new.syn, next |-> new.next]
  BY DEF NewTable
<1> HIDE DEF new
<1>2. \A i \in 0 .. Len(leaf_nums) - 1 : leaf_nums[i + 1] \in Nat
  <2>1. Len(leaf_nums) \in Nat
    OBVIOUS
  <2>2. \A i \in 0 .. Len(leaf_nums) - 1 : i + 1 \in 1 .. Len(leaf_nums)
    BY <2>1
  <2> QED
    BY <2>2, ElementLemma
<1>3. \A n \in Nat : /\ TE(n, 0) \in TableEntries(1)
                     /\ TE(n, 0).leaf_num = n /\ TE(n, 0).synonym_leaf = 0
  BY DEF TE, TableEntries
<1>4. \A i \in DOMAIN new.table : /\ new.table[i] \in TableEntries(1)
                                  /\ new.table[i].leaf_num = leaf_nums[i + 1]
                                  /\ new.table[i].synonym_leaf = 0
  BY <1>1, <1>2, <1>3
<1>5. new.syn \in [1 .. 0 -> TableEntries(1)]
  BY <1>1
<1>6. Linked(new)
  <2>3. new.next - 1 = 0
    BY <1>1
  <2>4. new.syn \in [1 .. new.next - 1 -> TableEntries(new.next)]
    BY <1>1, <1>5, <2>3
  <2>1. new.table \in [DOMAIN new.table -> TableEntries(new.next)]
    BY <1>1, <1>4
  <2>2. new \in [table : [DOMAIN new.table -> TableEntries(new.next)],
                 syn : [1 .. new.next - 1 -> TableEntries(new.next)], next : {new.next}]
    BY <1>1, <2>1, <2>4
  <2> QED
    BY <1>1, <2>2 DEF Linked
<1>7. Ranked(new)
  <2> DEFINE rank == [s \in 0 .. 0 |-> 0]
  <2>1. rank \in [0 .. 0 -> 0 .. 0]
    OBVIOUS
  <2> HIDE DEF rank
  <2>2. Ranks(new, rank, 0)
    BY <1>1, <2>1 DEF Ranks
  <2> QED
    BY <2>2 DEF Ranked
<1>8. \A i \in DOMAIN new.table : Len(Chain(new, i)) = 0
  BY <1>4, <1>6, <1>7, ChainWalks DEF Walk
<1>9. Apart(new)
  BY <1>8 DEF Apart
<1>10. DOMAIN new.table = 0 .. Len(leaf_nums) - 1
  BY <1>1
<1> QED
  BY <1>1, <1>4, <1>6, <1>7, <1>8, <1>9, <1>10 DEF Sound, new

\* A leaf of an entry is one that a field of the table names.
LEMMA LeafNumLemma ==
  ASSUME NEW lt, Sound(lt), NEW i \in DOMAIN lt.table, NEW p \in 0 .. Len(Chain(lt, i))
  PROVE  \/ p = 0 /\ LeafNum(lt, i, p) = lt.table[i].leaf_num
         \/ /\ p \in 1 .. Len(Chain(lt, i)) /\ Chain(lt, i)[p] \in 1 .. lt.next - 1
            /\ LeafNum(lt, i, p) = lt.syn[Chain(lt, i)[p]].leaf_num
<1>1. /\ Len(Chain(lt, i)) \in Nat
      /\ \A q \in 1 .. Len(Chain(lt, i)) : Chain(lt, i)[q] \in 1 .. lt.next - 1
  BY ChainLemma
<1>2. CASE p = 0
  BY <1>2 DEF LeafNum
<1>3. CASE p # 0
  <2>1. p \in 1 .. Len(Chain(lt, i))
    BY <1>1, <1>3
  <2> QED
    BY <1>1, <1>3, <2>1 DEF LeafNum
<1> QED
  BY <1>2, <1>3

\* The leaves of an entry are the same while its chain and their numbers are.
LEMMA SameLeaves ==
  ASSUME NEW lt, Sound(lt), NEW i \in DOMAIN lt.table, NEW new,
         Chain(new, i) = Chain(lt, i), new.table[i].leaf_num = lt.table[i].leaf_num,
         \A s \in 1 .. lt.next - 1 : new.syn[s].leaf_num = lt.syn[s].leaf_num,
         NEW p \in 0 .. Len(Chain(lt, i))
  PROVE  LeafNum(new, i, p) = LeafNum(lt, i, p)
BY LeafNumLemma DEF LeafNum

\* synonym_emplace_back: the leaves of every entry afterwards
LEMMA EmplaceLeaves ==
  ASSUME NEW lt, Sound(lt), NEW i \in DOMAIN lt.table,
         NEW p \in 0 .. Len(Chain(lt, i)), NEW n \in Nat
  PROVE  LET new == synonym_emplace_back(lt, i, p, n)
         IN  /\ Sound(new) /\ new.next = lt.next + 1
             /\ DOMAIN new.table = DOMAIN lt.table
             /\ \A j \in DOMAIN lt.table : j # i =>
                  /\ Len(Chain(new, j)) = Len(Chain(lt, j))
                  /\ \A q \in 0 .. Len(Chain(lt, j)) : LeafNum(new, j, q) = LeafNum(lt, j, q)
             /\ Len(Chain(new, i)) = Len(Chain(lt, i)) + 1
             /\ \A q \in 0 .. Len(Chain(lt, i)) + 1 :
                  LeafNum(new, i, q) = IF q <= p THEN LeafNum(lt, i, q)
                                       ELSE IF q = p + 1 THEN n
                                       ELSE LeafNum(lt, i, q - 1)
<1> DEFINE new == synonym_emplace_back(lt, i, p, n)
           idx == lt.next
           c == Chain(lt, i)
           d == Chain(new, i)
           after == IF p = 0 THEN lt.table[i].synonym_leaf ELSE lt.syn[c[p]].synonym_leaf
<1>0. new.syn[idx] = TE(n, after)
  BY EmplaceFields
<1>1. /\ new.next = idx + 1 /\ DOMAIN new.table = DOMAIN lt.table
      /\ \A j \in DOMAIN lt.table : new.table[j].leaf_num = lt.table[j].leaf_num
      /\ \A s \in 1 .. idx - 1 : new.syn[s].leaf_num = lt.syn[s].leaf_num
  BY EmplaceFields
<1>a. new.syn[idx].leaf_num = n
  <2> HIDE DEF new, idx, after
  <2> QED
    BY <1>0 DEF TE
<1>2. /\ Sound(new)
      /\ d = Inserted(c, p, idx)
      /\ \A j \in DOMAIN lt.table : j # i => Chain(new, j) = Chain(lt, j)
  BY EmplaceLemma
<1>3. /\ Len(c) \in Nat /\ p \in 0 .. Len(c) /\ p \in Nat
      /\ \A q \in 1 .. Len(c) : c[q] \in 1 .. idx - 1
  BY ChainLemma
<1> HIDE DEF new, idx
<1>4. ASSUME NEW j \in DOMAIN lt.table, j # i
      PROVE  /\ Len(Chain(new, j)) = Len(Chain(lt, j))
             /\ \A q \in 0 .. Len(Chain(lt, j)) : LeafNum(new, j, q) = LeafNum(lt, j, q)
  BY <1>1, <1>2, <1>4, SameLeaves DEF idx
<1> HIDE DEF c, d
<1>5. /\ Len(d) = Len(c) + 1
      /\ \A q \in 1 .. Len(c) + 1 :
           d[q] = IF q <= p THEN c[q] ELSE IF q = p + 1 THEN idx ELSE c[q - 1]
  BY <1>2, <1>3 DEF Inserted
<1>6. /\ \A q : LeafNum(lt, i, q) = IF q = 0 THEN lt.table[i].leaf_num ELSE lt.syn[c[q]].leaf_num
      /\ \A q : LeafNum(new, i, q) = IF q = 0 THEN new.table[i].leaf_num ELSE new.syn[d[q]].leaf_num
  BY DEF LeafNum, c, d
<1>7. ASSUME NEW q \in 0 .. Len(c) + 1
      PROVE  LeafNum(new, i, q) = IF q <= p THEN LeafNum(lt, i, q)
                                  ELSE IF q = p + 1 THEN n
                                  ELSE LeafNum(lt, i, q - 1)
  <2>0. q \in Nat
    BY <1>3
  <2>1. CASE q = 0
    BY <1>1, <1>3, <1>6, <2>1
  <2>2. CASE q # 0 /\ q <= p
    <3>1. q \in 1 .. Len(c) /\ q \in 1 .. Len(c) + 1
      BY <1>3, <2>0, <2>2
    <3>2. d[q] = c[q] /\ c[q] \in 1 .. idx - 1
      BY <1>3, <1>5, <2>2, <3>1
    <3> QED
      BY <1>1, <1>6, <2>2, <3>2
  <2>3. CASE q = p + 1
    <3>1. q \in 1 .. Len(c) + 1 /\ ~ (q <= p) /\ q # 0
      BY <1>3, <2>3
    <3>2. d[q] = idx
      BY <1>5, <2>3, <3>1
    <3> QED
      BY <1>a, <1>6, <2>3, <3>1, <3>2
  <2>4. CASE q > p + 1
    <3>1. /\ q \in 1 .. Len(c) + 1 /\ ~ (q <= p) /\ q # p + 1 /\ q # 0
          /\ q - 1 \in 1 .. Len(c) /\ q - 1 # 0
      BY <1>3, <2>0, <2>4
    <3>2. d[q] = c[q - 1] /\ c[q - 1] \in 1 .. idx - 1
      BY <1>3, <1>5, <3>1
    <3> QED
      BY <1>1, <1>6, <3>1, <3>2
  <2> QED
    BY <1>3, <2>0, <2>1, <2>2, <2>3, <2>4
<1> QED
  BY <1>1, <1>2, <1>4, <1>5, <1>7 DEF new, c, d, idx

\* synonym_table_remove: the leaves of every entry afterwards
LEMMA UnlinkLeaves ==
  ASSUME NEW lt, Sound(lt), NEW i \in DOMAIN lt.table, NEW p \in 1 .. Len(Chain(lt, i))
  PROVE  LET new == synonym_table_remove(lt, i, p)
         IN  /\ Sound(new) /\ new.next = lt.next
             /\ DOMAIN new.table = DOMAIN lt.table
             /\ \A j \in DOMAIN lt.table : j # i =>
                  /\ Len(Chain(new, j)) = Len(Chain(lt, j))
                  /\ \A q \in 0 .. Len(Chain(lt, j)) : LeafNum(new, j, q) = LeafNum(lt, j, q)
             /\ Len(Chain(new, i)) = Len(Chain(lt, i)) - 1
             /\ \A q \in 0 .. Len(Chain(lt, i)) - 1 :
                  LeafNum(new, i, q) = IF q < p THEN LeafNum(lt, i, q)
                                       ELSE LeafNum(lt, i, q + 1)
<1> DEFINE new == synonym_table_remove(lt, i, p)
           c == Chain(lt, i)
           d == Chain(new, i)
<1>1. /\ new.next = lt.next /\ DOMAIN new.table = DOMAIN lt.table
      /\ \A j \in DOMAIN lt.table : new.table[j].leaf_num = lt.table[j].leaf_num
      /\ \A s \in 1 .. lt.next - 1 : new.syn[s].leaf_num = lt.syn[s].leaf_num
  BY UnlinkFields
<1>2. /\ Sound(new)
      /\ d = Removed(c, p)
      /\ \A j \in DOMAIN lt.table : j # i => Chain(new, j) = Chain(lt, j)
  BY UnlinkLemma
<1>3. /\ Len(c) \in Nat /\ p \in 1 .. Len(c) /\ p \in Nat /\ p > 0 /\ Len(c) > 0
      /\ \A q \in 1 .. Len(c) : c[q] \in 1 .. lt.next - 1
  BY ChainLemma
<1> HIDE DEF new
<1>4. ASSUME NEW j \in DOMAIN lt.table, j # i
      PROVE  /\ Len(Chain(new, j)) = Len(Chain(lt, j))
             /\ \A q \in 0 .. Len(Chain(lt, j)) : LeafNum(new, j, q) = LeafNum(lt, j, q)
  BY <1>1, <1>2, <1>4, SameLeaves
<1> HIDE DEF c, d
<1>5. /\ Len(d) = Len(c) - 1
      /\ \A q \in 1 .. Len(c) - 1 : d[q] = IF q < p THEN c[q] ELSE c[q + 1]
  <2>1. \A n \in Nat : n > 0 => n - 1 \in Nat
    OBVIOUS
  <2>2. Len(c) - 1 \in Nat
    BY <1>3, <2>1
  <2> QED
    BY <1>2, <2>2 DEF Removed
<1>6. /\ \A q : LeafNum(lt, i, q) = IF q = 0 THEN lt.table[i].leaf_num ELSE lt.syn[c[q]].leaf_num
      /\ \A q : LeafNum(new, i, q) = IF q = 0 THEN new.table[i].leaf_num ELSE new.syn[d[q]].leaf_num
  BY DEF LeafNum, c, d
<1>7. ASSUME NEW q \in 0 .. Len(c) - 1
      PROVE  LeafNum(new, i, q) = IF q < p THEN LeafNum(lt, i, q) ELSE LeafNum(lt, i, q + 1)
  <2>0. q \in Nat
    BY <1>3
  <2>1. CASE q = 0
    BY <1>1, <1>3, <1>6, <2>1
  <2>2. CASE q # 0 /\ q < p
    <3>1. q \in 1 .. Len(c) /\ q \in 1 .. Len(c) - 1
      BY <1>3, <2>0, <2>2
    <3>2. d[q] = c[q] /\ c[q] \in 1 .. lt.next - 1
      BY <1>3, <1>5, <2>2, <3>1
    <3> QED
      BY <1>1, <1>6, <2>2, <3>2
  <2>3. CASE q # 0 /\ ~ (q < p)
    <3>1. q + 1 \in 1 .. Len(c) /\ q \in 1 .. Len(c) - 1 /\ q + 1 # 0
      BY <1>3, <2>0, <2>3
    <3>2. d[q] = c[q + 1] /\ c[q + 1] \in 1 .. lt.next - 1
      BY <1>3, <1>5, <2>3, <3>1
    <3> QED
      BY <1>1, <1>6, <2>3, <3>1, <3>2
  <2> QED
    BY <2>1, <2>2, <2>3
<1> QED
  BY <1>1, <1>2, <1>4, <1>5, <1>7 DEF new, c, d
-----------------------------------------------------------------------------
Steps(V, v0, G) ==
  \E f \in [Nat -> V] : f[0] = v0 /\ \A n \in Nat : f[n + 1] = G[<<n, f[n]>>]

\* What the loops of the model rest on: a function given by its first value and a
\* step exists, and its values stay in the set that the step keeps.
LEMMA StepByStep ==
  ASSUME NEW V, NEW v0 \in V, NEW G \in [Nat \X V -> V]
  PROVE  Steps(V, v0, G)
<1> DEFINE Upto(n, f) == /\ f \in [0 .. n -> V] /\ f[0] = v0
                         /\ \A m \in 0 .. n - 1 : f[m + 1] = G[<<m, f[m]>>]
           S == {n \in Nat : ~ \E f : Upto(n, f)}
<1>1. S = {}
  <2> SUFFICES ASSUME S # {} PROVE FALSE
    OBVIOUS
  <2>1. PICK n \in S : \A m \in S : n <= m
    BY LeastNumber
  <2>2. n # 0
    <3> DEFINE f == [m \in 0 .. 0 |-> v0]
    <3>1. Upto(0, f)
      OBVIOUS
    <3> QED
      BY <2>1, <3>1
  <2>3. n - 1 \in Nat /\ ~ (n <= n - 1)
    BY <2>1, <2>2
  <2>4. n - 1 \notin S
    BY <2>1, <2>3
  <2>5. PICK f : Upto(n - 1, f)
    BY <2>3, <2>4
  <2> DEFINE g == [m \in 0 .. n |-> IF m = n THEN G[<<n - 1, f[n - 1]>>] ELSE f[m]]
  <2>6. /\ f \in [0 .. n - 1 -> V] /\ f[0] = v0
        /\ \A m \in 0 .. (n - 1) - 1 : f[m + 1] = G[<<m, f[m]>>]
    BY <2>5
  <2>7. G[<<n - 1, f[n - 1]>>] \in V
    BY <2>3, <2>6
  <2>8. /\ g[n] = G[<<n - 1, f[n - 1]>>]
        /\ \A m \in 0 .. n - 1 : g[m] = f[m]
    BY <2>3
  <2>9. g \in [0 .. n -> V]
    BY <2>3, <2>6, <2>7
  <2> HIDE DEF g
  <2>10. \A m \in 0 .. n - 1 : g[m + 1] = G[<<m, g[m]>>]
    <3> SUFFICES ASSUME NEW m \in 0 .. n - 1 PROVE g[m + 1] = G[<<m, g[m]>>]
      OBVIOUS
    <3>1. CASE m = n - 1
      <4>1. m + 1 = n
        BY <2>3, <3>1
      <4> QED
        BY <2>8, <3>1, <4>1
    <3>2. CASE m # n - 1
      <4>1. m \in 0 .. (n - 1) - 1 /\ m + 1 \in 0 .. n - 1
        BY <2>3, <3>2
      <4> QED
        BY <2>6, <2>8, <4>1
    <3> QED
      BY <3>1, <3>2
  <2>11. Upto(n, g)
    BY <2>3, <2>6, <2>8, <2>9, <2>10
  <2> QED
    BY <2>1, <2>11
<1>2. ASSUME NEW n \in Nat, NEW k \in Nat, NEW f, Upto(n, f), NEW g, Upto(k, g)
      PROVE  \A m \in 0 .. n : m \in 0 .. k => f[m] = g[m]
  <2> DEFINE D == {m \in Nat : m \in 0 .. n /\ m \in 0 .. k /\ f[m] # g[m]}
  <2> SUFFICES ASSUME D # {} PROVE FALSE
    OBVIOUS
  <2>1. PICK m \in D : \A j \in D : m <= j
    BY LeastNumber
  <2>2. m # 0
    BY <1>2, <2>1
  <2>3. m - 1 \in Nat /\ m - 1 \in 0 .. n - 1 /\ m - 1 \in 0 .. k - 1 /\ (m - 1) + 1 = m
        /\ m - 1 \in 0 .. n /\ m - 1 \in 0 .. k /\ ~ (m <= m - 1)
    BY <2>1, <2>2
  <2>4. f[m - 1] = g[m - 1]
    BY <2>1, <2>3
  <2>5. f[(m - 1) + 1] = G[<<m - 1, f[m - 1]>>] /\ g[(m - 1) + 1] = G[<<m - 1, g[m - 1]>>]
    BY <1>2, <2>3
  <2> QED
    BY <2>1, <2>3, <2>4, <2>5
<1> DEFINE part(n) == CHOOSE f : Upto(n, f)
           h == [n \in Nat |-> part(n)[n]]
<1>3. \A n \in Nat : Upto(n, part(n))
  BY <1>1
<1> HIDE DEF part
<1>4. ASSUME NEW n \in Nat PROVE part(n)[n] \in V
  <2>1. part(n) \in [0 .. n -> V] /\ n \in 0 .. n
    BY <1>3
  <2> QED
    BY <2>1
<1>5. h \in [Nat -> V]
  BY <1>4
<1>6. h[0] = v0
  BY <1>3
<1>7. ASSUME NEW n \in Nat PROVE h[n + 1] = G[<<n, h[n]>>]
  <2>1. n + 1 \in Nat /\ n \in 0 .. n + 1 /\ n \in 0 .. n /\ n \in 0 .. (n + 1) - 1
    OBVIOUS
  <2>2. part(n + 1)[n + 1] = G[<<n, part(n + 1)[n]>>]
    BY <1>3, <2>1
  <2>3. part(n + 1)[n] = part(n)[n]
    <3> HIDE DEF Upto
    <3>1. Upto(n + 1, part(n + 1)) /\ Upto(n, part(n))
      BY <1>3, <2>1
    <3> QED
      BY <1>2, <2>1, <3>1
  <2> QED
    BY <2>1, <2>2, <2>3
<1> HIDE DEF h
<1> QED
  BY <1>5, <1>6, <1>7 DEF Steps
-----------------------------------------------------------------------------
\* 1 << e, as its recursion gives it
LEMMA BitLemma ==
  /\ bit[0] = 1
  /\ \A e \in Nat : /\ bit[e] \in Nat /\ bit[e] > 0 /\ bit[e] > e
                    /\ bit[e + 1] = 2 * bit[e]
<1> DEFINE G == [x \in Nat \X Nat |-> 2 * x[2]]
           F(f) == [e \in Nat |-> IF e = 0 THEN 1 ELSE 2 * f[e - 1]]
<1>1. G \in [Nat \X Nat -> Nat] /\ \A n, v \in Nat : G[<<n, v>>] = 2 * v
  OBVIOUS
<1> HIDE DEF G
<1>2. PICK f \in [Nat -> Nat] : f[0] = 1 /\ \A n \in Nat : f[n + 1] = G[<<n, f[n]>>]
  <2> DEFINE V == Nat
  <2>1. 1 \in V /\ G \in [Nat \X V -> V]
    BY <1>1
  <2> HIDE DEF V
  <2>2. Steps(V, 1, G)
    BY <2>1, StepByStep
  <2> QED
    BY <2>2 DEF V, Steps
<1>3. ASSUME NEW e \in Nat PROVE f[e] = F(f)[e]
  <2>1. CASE e = 0
    BY <1>2, <2>1
  <2>2. CASE e # 0
    <3>1. e - 1 \in Nat /\ (e - 1) + 1 = e
      BY <2>2
    <3>2. f[e] = G[<<e - 1, f[e - 1]>>] /\ f[e - 1] \in Nat
      BY <1>2, <3>1
    <3> QED
      BY <1>1, <2>2, <3>1, <3>2
  <2> QED
    BY <2>1, <2>2
<1>4. f = F(f)
  BY <1>2, <1>3
<1> HIDE DEF F
<1>5. bit = F(bit)
  <2>1. bit = CHOOSE g : g = F(g)
    BY DEF bit, F
  <2> QED
    BY <1>4, <2>1
<1>6. bit[0] = 1 /\ \A e \in Nat : bit[e + 1] = 2 * bit[e]
  <2>1. \A e \in Nat : bit[e] = IF e = 0 THEN 1 ELSE 2 * bit[e - 1]
    BY <1>5 DEF F
  <2>2. \A e \in Nat : e + 1 \in Nat /\ e + 1 # 0 /\ (e + 1) - 1 = e
    OBVIOUS
  <2>3. bit[0] = 1
    BY <2>1
  <2> HIDE DEF bit
  <2>4. \A e \in Nat : bit[e + 1] = 2 * bit[e]
    BY <2>1, <2>2
  <2> QED
    BY <2>3, <2>4
<1> DEFINE Good(e) == bit[e] \in Nat /\ bit[e] > 0 /\ bit[e] > e
           S == {e \in Nat : ~ Good(e)}
<1>7. S = {}
  <2> SUFFICES ASSUME S # {} PROVE FALSE
    OBVIOUS
  <2>1. PICK e \in S : \A d \in S : e <= d
    BY LeastNumber
  <2> HIDE DEF bit
  <2>2. e # 0
    BY <1>6, <2>1
  <2>3. e - 1 \in Nat /\ (e - 1) + 1 = e /\ ~ (e <= e - 1)
    BY <2>1, <2>2
  <2>4. Good(e - 1)
    BY <2>1, <2>3
  <2>5. bit[e] = 2 * bit[e - 1]
    BY <1>6, <2>3
  <2> QED
    BY <2>1, <2>3, <2>4, <2>5
<1> HIDE DEF bit
<1> QED
  BY <1>6, <1>7

\* bsr finds the highest bit of a positive number.
LEMMA BsrLemma ==
  ASSUME NEW x \in Nat, x > 0
  PROVE  bsr(x) \in Nat /\ bit[bsr(x)] <= x /\ x < 2 * bit[bsr(x)]
<1> DEFINE S == {e \in 0 .. x : bit[e] <= x}
           b == Greatest(S)
<1>1. 0 \in S
  BY BitLemma
<1>2. S \in SUBSET Int /\ \A e \in S : e <= x
  OBVIOUS
<1> HIDE DEF S
<1>3. b \in S /\ \A e \in S : e <= b
  BY <1>1, <1>2, GreatestLemma
<1> HIDE DEF b
<1>4. b \in Nat /\ b <= x /\ bit[b] <= x
  BY <1>3 DEF S
<1>5. bit[b + 1] = 2 * bit[b] /\ bit[b + 1] > b + 1 /\ bit[b + 1] \in Nat
  BY <1>4, BitLemma
<1>6. x < bit[b + 1]
  <2> SUFFICES ASSUME bit[b + 1] <= x PROVE FALSE
    BY <1>5
  <2>1. b + 1 \in 0 .. x
    BY <1>4, <1>5
  <2>2. b + 1 \in S
    BY <2>1 DEF S
  <2> QED
    BY <1>3, <1>4, <2>2
<1>7. b = bsr(x)
  BY DEF b, S, bsr
<1> QED
  BY <1>4, <1>5, <1>6, <1>7

\* The loop of binary_search_branchless: the keys up to place after[b] are below the
\* key, and those from bit[b] places on are not, but for the last one.
LEMMA BinarySearchLemma ==
  ASSUME NEW arr \in Seq(Nat), Len(arr) > 1, NEW key \in Nat,
         \A i, j \in 1 .. Len(arr) : i <= j => arr[i] <= arr[j]
  PROVE  /\ binary_search_branchless(arr, key) \in 0 .. Len(arr)
         /\ \A i \in 1 .. Len(arr) :
              arr[i] < key <=> i <= binary_search_branchless(arr, key)
<1> DEFINE n == Len(arr)
           steps == bsr(n - 1)
           below(i) == arr[i + 1] < key
           start == n - 1 - bit[steps]
           first == IF below(start) THEN start ELSE -1
           next(b, x) == IF below(x + bit[b]) THEN x + bit[b] ELSE x
           F(f) == [b \in 0 .. steps |-> IF b = steps THEN first ELSE next(b, f[b + 1])]
           after == CHOOSE f : f = F(f)
           found == after[0] + 1
<1>1. n \in Nat /\ n > 1 /\ n - 1 \in Nat /\ n - 1 > 0
  <2>1. \A k \in Nat : k > 1 => k - 1 \in Nat /\ k - 1 > 0
    OBVIOUS
  <2> QED
    BY <2>1
<1>2. steps \in Nat /\ bit[steps] <= n - 1 /\ n - 1 < 2 * bit[steps]
  BY <1>1, BsrLemma
<1>3. \A e \in Nat : bit[e] \in Nat /\ bit[e] > 0 /\ bit[e + 1] = 2 * bit[e]
  BY BitLemma
<1>4. binary_search_branchless(arr, key) = IF arr[found + 1] >= key THEN found ELSE n
  BY DEF binary_search_branchless
<1>5. start \in Nat /\ start <= n - 2 /\ first \in Int
  <2> HIDE DEF steps, n, below
  <2>1. bit[steps] \in Nat /\ bit[steps] > 0
    BY <1>2, <1>3
  <2> HIDE DEF first
  <2>2. start \in Nat /\ start <= n - 2
    BY <1>1, <1>2, <2>1
  <2> HIDE DEF start
  <2>3. first \in Int
    BY <2>2 DEF first
  <2> QED
    BY <2>2, <2>3
<1> HIDE DEF n, steps, start, first
<1>6. \E f \in [0 .. steps -> Int] : f = F(f)
  <2> DEFINE V == Int
             G == [x \in Nat \X V |-> next(steps - (x[1] + 1), x[2])]
  <2>1. ASSUME NEW b \in Nat, NEW x \in Int PROVE next(b, x) \in Int
    <3>1. bit[b] \in Nat
      BY <1>3
    <3> HIDE DEF below
    <3> QED
      BY <3>1
  <2> HIDE DEF next
  <2>3. \A m \in Nat, x \in Int : steps - (m + 1) \in Nat => next(steps - (m + 1), x) \in Int
    BY <2>1
  <2> DEFINE H == [x \in Nat \X V |-> IF steps - (x[1] + 1) \in Nat
                                        THEN next(steps - (x[1] + 1), x[2]) ELSE 0]
  <2>4. H \in [Nat \X V -> V]
    BY <2>3
  <2>5. \A m \in Nat, x \in Int : steps - (m + 1) \in Nat => H[<<m, x>>] = next(steps - (m + 1), x)
    OBVIOUS
  <2> HIDE DEF H
  <2>6. first \in V
    BY <1>5
  <2>7. Steps(V, first, H)
    <3> HIDE DEF V
    <3> QED
      BY <2>4, <2>6, StepByStep
  <2>8. PICK f \in [Nat -> Int] : f[0] = first /\ \A m \in Nat : f[m + 1] = H[<<m, f[m]>>]
    BY <2>7 DEF Steps
  <2> DEFINE g == [b \in 0 .. steps |-> f[steps - b]]
  <2>9. ASSUME NEW b \in 0 .. steps PROVE /\ g[b] \in Int
                                          /\ g[b] = IF b = steps THEN first ELSE next(b, g[b + 1])
    <3>1. g[b] = f[steps - b] /\ steps - b \in Nat
      BY <1>2
    <3>2. CASE b = steps
      <4>1. steps - b = 0
        BY <1>2, <3>2
      <4> QED
        BY <2>8, <3>1, <3>2, <4>1
    <3>3. CASE b # steps
      <4>1. /\ b + 1 \in 0 .. steps /\ steps - (b + 1) \in Nat /\ b \in Nat
            /\ (steps - (b + 1)) + 1 = steps - b
            /\ steps - ((steps - (b + 1)) + 1) = b
        BY <1>2, <3>3
      <4>2. g[b + 1] = f[steps - (b + 1)]
        BY <4>1
      <4>3. f[steps - b] = H[<<steps - (b + 1), f[steps - (b + 1)]>>]
        BY <2>8, <4>1
      <4>4. H[<<steps - (b + 1), f[steps - (b + 1)]>>] = next(b, f[steps - (b + 1)])
        BY <2>5, <2>8, <4>1
      <4> HIDE DEF g
      <4> QED
        BY <2>8, <3>1, <3>3, <4>2, <4>3, <4>4
    <3> QED
      BY <3>2, <3>3
  <2>10. g \in [0 .. steps -> Int]
    BY <2>9
  <2>11. g = F(g)
    BY <2>9
  <2> HIDE DEF g, F
  <2> QED
    BY <2>10, <2>11
<1> HIDE DEF next, below
<1>7. after = F(after)
  <2> HIDE DEF F
  <2> QED
    BY <1>6
<1>8. \A b \in 0 .. steps : after[b] = IF b = steps THEN first ELSE next(b, after[b + 1])
  <2> HIDE DEF after
  <2> QED
    BY <1>7
<1> HIDE DEF after, F
<1>9. \A i, j \in 0 .. n - 1 : i <= j /\ below(j) => below(i)
  <2> SUFFICES ASSUME NEW i \in 0 .. n - 1, NEW j \in 0 .. n - 1, i <= j, below(j)
               PROVE  below(i)
    OBVIOUS
  <2>1. i + 1 \in 1 .. n /\ j + 1 \in 1 .. n /\ i + 1 <= j + 1
    BY <1>1
  <2>2. arr[i + 1] <= arr[j + 1] /\ arr[i + 1] \in Nat /\ arr[j + 1] \in Nat
    <3>1. \A k \in 1 .. n : arr[k] \in Nat
      BY ElementLemma DEF n
    <3> QED
      BY <2>1, <3>1 DEF n
  <2> QED
    BY <2>2 DEF below
<1> DEFINE Loop(b, x) ==
             /\ x \in -1 .. n - 2 /\ x + bit[b] <= n - 1
             /\ x >= 0 => below(x)
             /\ \A i \in 0 .. n - 2 : i >= x + bit[b] => ~ below(i)
           S == {d \in 0 .. steps : ~ Loop(steps - d, after[steps - d])}
<1>10. S = {}
  <2> SUFFICES ASSUME S # {} PROVE FALSE
    OBVIOUS
  <2>1. S \in SUBSET Nat
    BY <1>2
  <2>2. PICK d \in S : \A e \in S : d <= e
    BY <2>1, LeastNumber
  <2>3. d \in 0 .. steps /\ ~ Loop(steps - d, after[steps - d])
    BY <2>2
  <2>4. CASE d = 0
    <3>1. after[steps] = first /\ steps - d = steps
      BY <1>2, <1>8, <2>4
    <3>2. bit[steps] \in Nat /\ bit[steps] > 0 /\ start = n - 1 - bit[steps]
      BY <1>2, <1>3 DEF start
    <3>3. CASE below(start)
      <4>1. first = start /\ start + bit[steps] = n - 1
        BY <1>1, <3>2, <3>3 DEF first
      <4>2. Loop(steps, first)
        BY <1>1, <1>5, <3>2, <3>3, <4>1
      <4> HIDE DEF Loop
      <4> QED
        BY <2>3, <3>1, <4>2
    <3>4. CASE ~ below(start)
      <4>1. first = -1
        BY <3>4 DEF first
      <4>2. ASSUME NEW i \in 0 .. n - 2, i >= first + bit[steps] PROVE ~ below(i)
        <5>1. start <= i /\ start \in 0 .. n - 1 /\ i \in 0 .. n - 1
          BY <1>1, <1>2, <1>5, <3>2, <4>1, <4>2
        <5> QED
          BY <1>9, <3>4, <5>1
      <4>3. Loop(steps, first)
        BY <1>1, <1>2, <3>2, <4>1, <4>2
      <4> HIDE DEF Loop
      <4> QED
        BY <2>3, <3>1, <4>3
    <3> QED
      BY <3>3, <3>4
  <2>5. CASE d # 0
    <3> DEFINE b == steps - d
               x == after[b + 1]
    <3>1. /\ b \in Nat /\ b \in 0 .. steps /\ b # steps /\ b + 1 \in 0 .. steps
          /\ d - 1 \in 0 .. steps /\ steps - (d - 1) = b + 1 /\ ~ (d <= d - 1)
      BY <1>2, <2>3, <2>5
    <3>2. Loop(b + 1, x)
      <4> HIDE DEF Loop, b
      <4> QED
        BY <2>2, <3>1
    <3>3. after[b] = next(b, x)
      BY <1>8, <3>1
    <3> HIDE DEF b, x, S
    <3>4. bit[b] \in Nat /\ bit[b] > 0 /\ bit[b + 1] = 2 * bit[b]
      BY <1>3, <3>1
    <3>5. CASE below(x + bit[b])
      <4>1. after[b] = x + bit[b]
        BY <3>3, <3>5 DEF next
      <4>2. x \in -1 .. n - 2 /\ x + 2 * bit[b] <= n - 1
        BY <3>2, <3>4
      <4>3. x + bit[b] \in -1 .. n - 2 /\ (x + bit[b]) + bit[b] = x + bit[b + 1]
        BY <1>1, <3>4, <4>2
      <4>4. Loop(b, x + bit[b])
        BY <3>2, <3>4, <3>5, <4>2, <4>3
      <4> HIDE DEF Loop
      <4> QED
        BY <2>3, <4>1, <4>4 DEF b
    <3>6. CASE ~ below(x + bit[b])
      <4>1. after[b] = x
        BY <3>3, <3>6 DEF next
      <4>2. x \in -1 .. n - 2 /\ x + bit[b] <= n - 1 /\ x + bit[b] \in 0 .. n - 1
        BY <1>1, <3>2, <3>4
      <4>3. ASSUME NEW i \in 0 .. n - 2, i >= x + bit[b] PROVE ~ below(i)
        <5>1. i \in 0 .. n - 1
          BY <1>1
        <5> QED
          BY <1>9, <3>6, <4>2, <4>3, <5>1
      <4>4. Loop(b, x)
        BY <3>2, <4>2, <4>3
      <4> HIDE DEF Loop
      <4> QED
        BY <2>3, <4>1, <4>4 DEF b
    <3> QED
      BY <3>5, <3>6
  <2> QED
    BY <2>4, <2>5
<1>11. Loop(0, after[0])
  <2> HIDE DEF Loop
  <2>1. steps \in 0 .. steps /\ steps - steps = 0
    BY <1>2
  <2> QED
    BY <1>10, <2>1
<1>12. /\ after[0] \in -1 .. n - 2 /\ found \in 0 .. n - 1 /\ found = after[0] + 1
       /\ after[0] >= 0 => below(after[0])
       /\ \A i \in 0 .. n - 2 : i >= found => ~ below(i)
  <2>1. bit[0] = 1
    BY BitLemma
  <2> QED
    BY <1>1, <1>11, <2>1
<1> HIDE DEF Loop, found
<1>13. \A i \in 0 .. n - 1 : i < found => below(i)
  BY <1>1, <1>9, <1>12
<1>14. \A i \in 1 .. n : /\ arr[i] \in Nat /\ i - 1 \in 0 .. n - 1
                         /\ below(i - 1) <=> arr[i] < key
  <2>1. \A i \in 1 .. n : arr[i] \in Nat
    BY ElementLemma DEF n
  <2>2. \A i \in 1 .. n : i - 1 \in 0 .. n - 1 /\ (i - 1) + 1 = i
    BY <1>1
  <2> QED
    BY <2>1, <2>2 DEF below
<1> DEFINE r == binary_search_branchless(arr, key)
<1> HIDE DEF r
<1>15. r = IF below(found) THEN n ELSE found
  <2>1. found + 1 \in 1 .. n
    <3>1. found \in 0 .. n - 1 /\ n \in Nat
      BY <1>1, <1>12, Zenon
    <3> HIDE DEF n, below
    <3> QED
      BY <3>1
  <2>2. arr[found + 1] \in Nat
    BY <1>14, <2>1, Zenon
  <2> QED
    BY <1>4, <2>2 DEF below, r
<1>16. CASE below(found)
  <2>1. r = n /\ found = n - 1
    BY <1>1, <1>12, <1>15, <1>16
  <2>2. \A i \in 0 .. n - 1 : below(i)
    BY <1>1, <1>13, <1>16, <2>1
  <2>3. r \in 0 .. n /\ \A i \in 1 .. n : arr[i] < key /\ i <= r
    BY <1>1, <1>14, <2>1, <2>2
  <2> QED
    BY <2>3 DEF r, n
<1>17. CASE ~ below(found)
  <2>1. r = found
    BY <1>15, <1>17
  <2>2. \A i \in 0 .. n - 1 : below(i) <=> i < found
    BY <1>1, <1>9, <1>12, <1>13, <1>17
  <2>3. r \in 0 .. n /\ \A i \in 1 .. n : arr[i] < key <=> i <= r
    BY <1>1, <1>12, <1>14, <2>1, <2>2
  <2> QED
    BY <2>3 DEF r, n
<1> QED
  BY <1>16, <1>17

\* model_for_key: the model of a key is the first one whose last key is not below it,
\* or the last model.
THEOREM ModelForKey ==
  ASSUME NEW model_keys \in Seq(Nat), Len(model_keys) > 0, NEW key \in Nat,
         \A i, j \in 1 .. Len(model_keys) : i <= j => model_keys[i] <= model_keys[j]
  PROVE  /\ model_for_key(model_keys, key) \in 0 .. Len(model_keys) - 1
         /\ \A i \in 1 .. Len(model_keys) - 1 :
              model_keys[i] < key <=> i <= model_for_key(model_keys, key)
<1> DEFINE n == Len(model_keys)
           idx == binary_search_branchless(model_keys, key)
<1>1. n \in Nat /\ n > 0
  OBVIOUS
<1> HIDE DEF n
<1>2. CASE n = 1
  <2>1. model_for_key(model_keys, key) = 0
    BY <1>2 DEF model_for_key, n
  <2> QED
    BY <1>2, <2>1 DEF n
<1>3. CASE n # 1
  <2>1. n > 1
    BY <1>1, <1>3
  <2>2. idx \in 0 .. n /\ \A i \in 1 .. n : model_keys[i] < key <=> i <= idx
    BY <2>1, BinarySearchLemma DEF n
  <2>3. model_for_key(model_keys, key) = IF idx < n THEN idx ELSE n - 1
    BY <1>3 DEF model_for_key, n
  <2> HIDE DEF idx
  <2>4. /\ model_for_key(model_keys, key) \in 0 .. n - 1
        /\ \A i \in 1 .. n - 1 : i <= idx <=> i <= model_for_key(model_keys, key)
    BY <1>1, <2>2, <2>3
  <2>5. \A i \in 1 .. n - 1 : i \in 1 .. n
    BY <1>1
  <2>6. \A i \in 1 .. n - 1 : model_keys[i] < key <=> i <= model_for_key(model_keys, key)
    BY <2>2, <2>4, <2>5
  <2> QED
    BY <2>4, <2>6 DEF n
<1> QED
  BY <1>2, <1>3
-----------------------------------------------------------------------------
\* int(x / d) of a position that is not negative
LEMMA Quotient ==
  ASSUME NEW m \in Nat \ {0}, NEW a \in Nat
  PROVE  a \div m \in Nat /\ m * (a \div m) <= a /\ a < m * (a \div m) + m
BY SMT

\* Multiples keep the order of what they are multiples of.
LEMMA ProductOrder ==
  ASSUME NEW m \in Nat \ {0}, NEW p \in Int, NEW q \in Int, p < q
  PROVE  m * p + m <= m * q
<1>1. m * (q - p) >= m
  BY SMT
<1> QED
  BY <1>1

\* The same when they may be equal
LEMMA ProductKeepsOrder ==
  ASSUME NEW m \in Nat \ {0}, NEW p \in Int, NEW q \in Int, p <= q
  PROVE  m * p <= m * q
<1>1. m * p \in Int /\ m * q \in Int
  OBVIOUS
<1>2. CASE p = q
  BY <1>1, <1>2
<1>3. CASE p < q
  <2>1. m * p + m <= m * q
    BY <1>3, ProductOrder
  <2> QED
    BY <1>1, <2>1
<1> QED
  BY <1>2, <1>3

\* A position further right is in no leaf further left.
LEMMA QuotientOrder ==
  ASSUME NEW m \in Nat \ {0}, NEW a \in Nat, NEW b \in Nat, a <= b
  PROVE  a \div m <= b \div m
<1> DEFINE p == a \div m
           q == b \div m
<1>1. p \in Nat /\ q \in Nat /\ m * p <= a /\ b < m * q + m
  BY Quotient
<1> HIDE DEF p, q
<1>2. ~ (q < p)
  <2> SUFFICES ASSUME q < p PROVE FALSE
    OBVIOUS
  <2>1. m * q + m <= m * p
    BY <1>1, ProductOrder
  <2>2. m * q \in Int /\ m * p \in Int
    BY <1>1
  <2> QED
    BY <1>1, <2>1, <2>2
<1>3. p <= q
  BY <1>1, <1>2
<1> QED
  BY <1>3 DEF p, q

\* SubModel(...): the leaves of a model are as many as its keys fill.
LEMMA LeavesLemma ==
  ASSUME NEW size \in Nat \ {0}
  PROVE  LET n == (size + N - 1) \div N
         IN  n \in Nat /\ n > 0 /\ size <= N * n /\ N * n < size + N
<1> DEFINE n == (size + N - 1) \div N
<1>1. N \in Nat \ {0} /\ size + N - 1 \in Nat
  BY LeafAssumption
<1>2. n \in Nat /\ N * n <= size + N - 1 /\ size + N - 1 < N * n + N
  BY <1>1, Quotient
<1> HIDE DEF n
<1>3. N * n \in Int /\ size <= N * n /\ N * n < size + N
  BY <1>1, <1>2
<1>4. n > 0
  BY <1>1, <1>2, <1>3
<1> QED
  BY <1>2, <1>3, <1>4 DEF n

\* LeafOf: a position left of the end of the keys is in a leaf of the model.
LEMMA LeafOfLemma ==
  ASSUME NEW d \in Nat \ {0}, NEW size \in Nat \ {0},
         NEW x \in Int, NEW y \in Int, x <= y, y < size * d
  PROVE  /\ LeafOf(x, d) \in Nat /\ LeafOf(y, d) \in Nat
         /\ LeafOf(x, d) <= LeafOf(y, d)
         /\ LeafOf(y, d) < (size + N - 1) \div N
<1> DEFINE n == (size + N - 1) \div N
           w == d * N
<1>1. N \in Nat \ {0}
  BY LeafAssumption
<1>2. w \in Nat \ {0}
  <2>1. d * N > 0
    BY <1>1
  <2> QED
    BY <1>1, <2>1
<1>3. n \in Nat /\ n > 0 /\ size <= N * n
  BY LeavesLemma
<1> HIDE DEF n
<1>4. ASSUME NEW z \in Nat, z < size * d PROVE z \div w < n
  <2> DEFINE q == z \div w
  <2> HIDE DEF w
  <2>1. q \in Nat /\ w * q <= z
    BY <1>2, Quotient
  <2> HIDE DEF q
  <2> SUFFICES ASSUME n <= q PROVE FALSE
    BY <1>3, <2>1 DEF q
  <2>2. N * n <= N * q
    BY <1>1, <1>3, <2>1, ProductKeepsOrder
  <2>3. N * q \in Int /\ N * n \in Int /\ size <= N * q
    BY <1>1, <1>3, <2>1, <2>2
  <2>4. d * size <= d * (N * q)
    BY <2>3, ProductKeepsOrder
  <2>5. w * q = d * (N * q) /\ d * size = size * d /\ d * size \in Int /\ w * q \in Int
    BY <1>1, <2>1 DEF w
  <2>6. d * size <= w * q
    BY <2>4, <2>5
  <2> QED
    BY <1>4, <2>1, <2>5, <2>6
<1>5. LeafOf(x, d) = (IF x < 0 THEN 0 ELSE x \div w) /\ LeafOf(y, d) = (IF y < 0 THEN 0 ELSE y \div w)
  BY DEF LeafOf
<1> HIDE DEF w
<1>6. \A z \in Nat : z \div w \in Nat
  BY <1>2, Quotient
<1>7. size * d \in Int
  OBVIOUS
<1>8. LeafOf(y, d) \in Nat /\ LeafOf(y, d) < n
  <2>1. CASE y < 0
    BY <1>3, <1>5, <2>1
  <2>2. CASE ~ (y < 0)
    <3>1. y \in Nat
      BY <2>2
    <3> QED
      BY <1>4, <1>5, <1>6, <2>2, <3>1
  <2> QED
    BY <2>1, <2>2
<1>9. LeafOf(x, d) \in Nat /\ LeafOf(x, d) <= LeafOf(y, d)
  <2>1. CASE x < 0
    BY <1>5, <1>8, <2>1
  <2>2. CASE ~ (x < 0)
    <3>1. x \in Nat /\ y \in Nat /\ ~ (y < 0)
      BY <2>2
    <3>2. x \div w <= y \div w
      BY <1>2, <3>1, QuotientOrder
    <3> QED
      BY <1>5, <1>6, <2>2, <3>1, <3>2
  <2> QED
    BY <2>1, <2>2
<1> QED
  BY <1>8, <1>9 DEF n

\* int64_t(slope * k): a line that does not fall keeps the order of the keys.
LEMMA PositionOrder ==
  ASSUME NEW m, Trained(m), NEW k \in Keys
  PROVE  /\ pos(m, k) \in Int
         /\ \A l \in Keys : k <= l => pos(m, k) <= pos(m, l)
<1>1. /\ m.num \in Nat /\ m.icn \in Int /\ m.den \in Nat \ {0} /\ m.icd \in Nat \ {0}
      /\ m.icd \in Int /\ Keys \subseteq Nat
  BY DEF Trained, Keys
<1> DEFINE T(l) == (m.num * l) \div m.den
<1>2. ASSUME NEW l \in Keys
      PROVE  T(l) \in Nat /\ pos(m, l) = m.icd * T(l) + m.icn /\ m.icd * T(l) \in Int
  <2>1. m.num * l \in Nat
    BY <1>1
  <2>2. T(l) \in Nat
    BY <1>1, <2>1, Quotient
  <2>3. Trunc(m.num * l, m.den) = T(l)
    BY <2>1 DEF Trunc
  <2> HIDE DEF T
  <2>4. T(l) * m.icd = m.icd * T(l) /\ m.icd * T(l) \in Int
    BY <1>1, <2>2
  <2> QED
    BY <2>2, <2>3, <2>4 DEF pos
<1>3. ASSUME NEW l \in Keys, k <= l
      PROVE  pos(m, k) <= pos(m, l)
  <2>1. m.num * k \in Nat /\ m.num * l \in Nat /\ k \in Int /\ l \in Int
    BY <1>1
  <2>2. m.num * k <= m.num * l
    <3>1. CASE m.num = 0
      BY <2>1, <3>1
    <3>2. CASE m.num # 0
      <4>1. m.num \in Nat \ {0}
        BY <1>1, <3>2
      <4> QED
        BY <1>3, <2>1, <4>1, ProductKeepsOrder
    <3> QED
      BY <3>1, <3>2
  <2>3. T(k) <= T(l)
    BY <1>1, <2>1, <2>2, QuotientOrder
  <2>4. T(k) \in Int /\ T(l) \in Int
    BY <1>2
  <2> HIDE DEF T
  <2>5. m.icd * T(k) <= m.icd * T(l)
    BY <1>1, <2>3, <2>4, ProductKeepsOrder
  <2>6. /\ pos(m, k) = m.icd * T(k) + m.icn /\ m.icd * T(k) \in Int
        /\ pos(m, l) = m.icd * T(l) + m.icn /\ m.icd * T(l) \in Int
    BY <1>2
  <2> QED
    BY <1>1, <2>5, <2>6
<1>4. pos(m, k) \in Int
  BY <1>1, <1>2
<1> QED
  BY <1>3, <1>4

\* predict: the bounds around the position of a key, and what they are computed from
LEMMA BoundsLemma ==
  ASSUME NEW m, Trained(m), NEW k \in Keys
  PROVE  /\ m.icd \in Nat \ {0} /\ m.capacity \in Nat \ {0} /\ pos(m, k) \in Int
         /\ (Epsilon + 2) * m.icd \in Int /\ Epsilon * m.icd \in Int
         /\ (Epsilon + 2) * m.icd = Epsilon * m.icd + 2 * m.icd
         /\ (Epsilon - 1) * m.icd = Epsilon * m.icd - m.icd /\ Epsilon * m.icd >= 0
         /\ m.capacity * m.icd \in Int /\ (m.capacity - 1) * m.icd = m.capacity * m.icd - m.icd
         /\ (m.capacity - 1) * m.icd \in Nat
         /\ Above(m, k) = IF pos(m, k) + (Epsilon + 2) * m.icd >= m.capacity * m.icd
                            THEN (m.capacity - 1) * m.icd
                            ELSE pos(m, k) + (Epsilon + 2) * m.icd
         /\ SUB_EPS(pos(m, k), m.icd) = IF pos(m, k) <= Epsilon * m.icd THEN 0
                                        ELSE pos(m, k) - Epsilon * m.icd
         /\ Below(m, k) = IF SUB_EPS(pos(m, k), m.icd) > Above(m, k) THEN Above(m, k)
                          ELSE SUB_EPS(pos(m, k), m.icd)
         /\ hi(m, k) = LeafOf(Above(m, k), m.icd) /\ lo(m, k) = LeafOf(Below(m, k), m.icd)
<1> DEFINE d == m.icd
           size == m.capacity
<1>1. d \in Nat \ {0} /\ size \in Nat \ {0} /\ Epsilon \in Nat
  BY EpsilonAssumption DEF Trained
<1>2. pos(m, k) \in Int
  BY PositionOrder
<1>3. /\ Above(m, k) = ADD_EPS(pos(m, k), d, size)
      /\ Below(m, k) = IF SUB_EPS(pos(m, k), d) > Above(m, k) THEN Above(m, k)
                       ELSE SUB_EPS(pos(m, k), d)
      /\ hi(m, k) = LeafOf(Above(m, k), d) /\ lo(m, k) = LeafOf(Below(m, k), d)
  BY DEF Above, Below, hi, lo
<1>4. /\ ADD_EPS(pos(m, k), d, size) = IF pos(m, k) + (Epsilon + 2) * d >= size * d
                                         THEN (size - 1) * d ELSE pos(m, k) + (Epsilon + 2) * d
      /\ SUB_EPS(pos(m, k), d) = IF pos(m, k) <= Epsilon * d THEN 0 ELSE pos(m, k) - Epsilon * d
  BY DEF ADD_EPS, SUB_EPS
<1> HIDE DEF d, size
<1>5. size - 1 \in Nat /\ Epsilon + 2 \in Int /\ Epsilon - 1 \in Int
  BY <1>1
<1>6. (Epsilon + 2) * d \in Int /\ Epsilon * d \in Int /\ size * d \in Int
  BY <1>1, <1>5
<1>7. Epsilon * d >= 0
  BY <1>1
<1>8. (size - 1) * d \in Nat
  BY <1>1, <1>5
<1>9. /\ (Epsilon + 2) * d = Epsilon * d + 2 * d /\ (Epsilon - 1) * d = Epsilon * d - d
      /\ (size - 1) * d = size * d - d
  BY <1>1
<1> QED
  BY <1>1, <1>2, <1>3, <1>4, <1>6, <1>7, <1>8, <1>9 DEF d, size

\* predict: the window of a key is inside the leaves of the model.
LEMMA WindowLemma ==
  ASSUME NEW m, Trained(m), NEW k \in Keys
  PROVE  /\ TrainedLeaves(m) \in Nat /\ TrainedLeaves(m) > 0
         /\ lo(m, k) \in Nat /\ hi(m, k) \in Nat
         /\ lo(m, k) <= hi(m, k) /\ hi(m, k) <= TrainedLeaves(m) - 1
<1> DEFINE d == m.icd
           size == m.capacity
           a == Above(m, k)
           b == Below(m, k)
<1>1. /\ d \in Nat \ {0} /\ size \in Nat \ {0} /\ pos(m, k) \in Int
      /\ (Epsilon + 2) * d \in Int /\ Epsilon * d \in Int
      /\ size * d \in Int /\ (size - 1) * d = size * d - d
      /\ a = IF pos(m, k) + (Epsilon + 2) * d >= size * d THEN (size - 1) * d
             ELSE pos(m, k) + (Epsilon + 2) * d
      /\ SUB_EPS(pos(m, k), d) = IF pos(m, k) <= Epsilon * d THEN 0 ELSE pos(m, k) - Epsilon * d
      /\ b = IF SUB_EPS(pos(m, k), d) > a THEN a ELSE SUB_EPS(pos(m, k), d)
      /\ hi(m, k) = LeafOf(a, d) /\ lo(m, k) = LeafOf(b, d)
  BY BoundsLemma
<1>2. TrainedLeaves(m) = (size + N - 1) \div N
  BY DEF TrainedLeaves
<1> HIDE DEF d, size, a, b
<1>3. a \in Int /\ a < size * d
  BY <1>1
<1>4. b \in Int /\ b <= a
  BY <1>1, <1>3
<1>5. TrainedLeaves(m) \in Nat /\ TrainedLeaves(m) > 0
  BY <1>1, <1>2, LeavesLemma
<1>6. /\ lo(m, k) \in Nat /\ hi(m, k) \in Nat /\ lo(m, k) <= hi(m, k)
      /\ hi(m, k) < TrainedLeaves(m)
  BY <1>1, <1>2, <1>3, <1>4, LeafOfLemma
<1> QED
  BY <1>5, <1>6

\* LeafOf: the leaf of place a of the keys, for the positions around that place
LEMMA LeafOfPlace ==
  ASSUME NEW d \in Nat \ {0}, NEW a \in Nat, NEW x \in Int
  PROVE  /\ LeafOf(x, d) \in Nat
         /\ x < a * d + d => LeafOf(x, d) <= a \div N
         /\ a * d <= x => a \div N <= LeafOf(x, d)
<1> DEFINE w == d * N
           t == a \div N
           q == x \div w
<1>1. N \in Nat \ {0} /\ d \in Int
  BY LeafAssumption
<1>2. w \in Nat \ {0}
  <2>1. d * N > 0
    BY <1>1
  <2> QED
    BY <1>1, <2>1
<1>3. LeafOf(x, d) = IF x < 0 THEN 0 ELSE q
  BY DEF LeafOf
<1>4. t \in Nat /\ N * t <= a /\ a < N * t + N
  BY <1>1, Quotient
<1>5. a * d \in Int /\ a * d = d * a
  BY <1>1
<1>6. CASE x < 0
  <2>1. ~ (a * d <= x)
    <3>1. a * d >= 0
      BY <1>1
    <3> QED
      BY <1>5, <1>6, <3>1
  <2> HIDE DEF t
  <2> QED
    BY <1>3, <1>4, <1>6, <2>1 DEF t
<1>7. CASE ~ (x < 0)
  <2>1. x \in Nat
    BY <1>7
  <2> HIDE DEF w
  <2>2. q \in Nat /\ w * q <= x /\ x < w * q + w
    BY <1>2, <2>1, Quotient
  <2> HIDE DEF q, t
  <2>3. /\ w * q = d * (N * q) /\ w * t = d * (N * t) /\ w * q \in Int /\ w * t \in Int
        /\ N * q \in Int /\ N * t \in Int
    BY <1>1, <1>4, <2>2 DEF w
  <2>4. ASSUME x < a * d + d PROVE q <= t
    <3> SUFFICES ASSUME t < q PROVE FALSE
      BY <1>4, <2>2
    <3>1. N * t + N <= N * q
      BY <1>1, <1>4, <2>2, ProductOrder
    <3>2. a < N * q
      BY <1>1, <1>4, <2>3, <3>1
    <3>3. d * a + d <= d * (N * q)
      BY <2>3, <3>2, ProductOrder
    <3> QED
      BY <1>5, <2>2, <2>3, <2>4, <3>3
  <2>5. ASSUME a * d <= x PROVE t <= q
    <3> SUFFICES ASSUME q < t PROVE FALSE
      BY <1>4, <2>2
    <3>1. w * q + w <= w * t
      BY <1>2, <1>4, <2>2, ProductOrder
    <3>2. d * (N * t) <= d * a
      BY <1>4, <2>3, ProductKeepsOrder
    <3> QED
      BY <1>2, <1>5, <2>2, <2>3, <2>5, <3>1, <3>2
  <2>6. LeafOf(x, d) = q
    BY <1>3, <1>7
  <2> QED
    BY <2>2, <2>4, <2>5, <2>6 DEF t
<1> QED
  BY <1>6, <1>7

\* LeafOf: a position further right is in no leaf further left.
LEMMA LeafOfOrder ==
  ASSUME NEW d \in Nat \ {0}, NEW x \in Int, NEW y \in Int, x <= y
  PROVE  LeafOf(x, d) <= LeafOf(y, d)
<1> DEFINE w == d * N
<1>1. N \in Nat \ {0}
  BY LeafAssumption
<1>2. w \in Nat \ {0}
  <2>1. d * N > 0
    BY <1>1
  <2> QED
    BY <1>1, <2>1
<1>3. /\ LeafOf(x, d) = IF x < 0 THEN 0 ELSE x \div w
      /\ LeafOf(y, d) = IF y < 0 THEN 0 ELSE y \div w
  BY DEF LeafOf
<1> HIDE DEF w
<1>4. CASE x < 0
  <2>1. LeafOf(y, d) \in Nat
    BY LeafOfPlace
  <2> QED
    BY <1>3, <1>4, <2>1
<1>5. CASE ~ (x < 0)
  <2>1. x \in Nat /\ y \in Nat /\ ~ (y < 0)
    BY <1>5
  <2>2. x \div w <= y \div w
    BY <1>2, <2>1, QuotientOrder
  <2> QED
    BY <1>3, <1>5, <2>1, <2>2
<1> QED
  BY <1>4, <1>5

\* predict: the window of a larger key starts no further left.
LEMMA WindowOrder ==
  ASSUME NEW m, Trained(m), NEW k \in Keys, NEW l \in Keys, k <= l
  PROVE  lo(m, k) <= lo(m, l)
<1> DEFINE d == m.icd
           size == m.capacity
           x == pos(m, k)
           y == pos(m, l)
           e == (Epsilon + 2) * d
           f == Epsilon * d
           a == Above(m, k)
           b == Above(m, l)
           u == SUB_EPS(x, d)
           v == SUB_EPS(y, d)
<1>1. /\ d \in Nat \ {0} /\ size \in Nat \ {0} /\ x \in Int /\ e \in Int /\ f \in Int
      /\ size * d \in Int /\ (size - 1) * d = size * d - d
      /\ a = IF x + e >= size * d THEN (size - 1) * d ELSE x + e
      /\ u = IF x <= f THEN 0 ELSE x - f
      /\ lo(m, k) = LeafOf(IF u > a THEN a ELSE u, d)
  BY BoundsLemma
<1>2. /\ y \in Int
      /\ b = IF y + e >= size * d THEN (size - 1) * d ELSE y + e
      /\ v = IF y <= f THEN 0 ELSE y - f
      /\ lo(m, l) = LeafOf(IF v > b THEN b ELSE v, d)
  BY BoundsLemma
<1>3. x <= y
  BY PositionOrder
<1> HIDE DEF d, size, x, y, e, f, a, b, u, v
<1>4. a \in Int /\ b \in Int /\ u \in Int /\ v \in Int /\ u <= v
  BY <1>1, <1>2, <1>3
<1>5. LeafOf(u, d) <= LeafOf(v, d)
  BY <1>1, <1>4, LeafOfOrder
<1>6. LeafOf(a, d) <= LeafOf(b, d)
  <2>1. CASE a <= b
    BY <1>1, <1>4, <2>1, LeafOfOrder
  <2>2. CASE ~ (a <= b)
    <3>1. b = (size - 1) * d /\ a < (size - 1) * d + d /\ size - 1 \in Nat
      BY <1>1, <1>2, <1>3, <2>2
    <3>2. LeafOf(a, d) <= (size - 1) \div N
      BY <1>1, <1>4, <3>1, LeafOfPlace
    <3>3. (size - 1) \div N <= LeafOf(b, d)
      <4>1. (size - 1) * d <= b
        BY <1>4, <3>1
      <4> QED
        BY <1>1, <1>4, <3>1, <4>1, LeafOfPlace
    <3>4. (size - 1) \div N \in Int /\ LeafOf(a, d) \in Int /\ LeafOf(b, d) \in Int
      <4>1. N \in Nat \ {0}
        BY LeafAssumption
      <4> QED
        BY <1>1, <1>4, <3>1, <4>1, LeafOfPlace, Quotient
    <3> QED
      BY <3>2, <3>3, <3>4
  <2> QED
    BY <2>1, <2>2
<1>7. /\ LeafOf(a, d) \in Int /\ LeafOf(b, d) \in Int /\ LeafOf(u, d) \in Int /\ LeafOf(v, d) \in Int
  BY <1>1, <1>4, LeafOfPlace
\* the window starts at the smaller of the two leaves
<1>8. /\ lo(m, k) \in {LeafOf(a, d), LeafOf(u, d)}
      /\ lo(m, k) <= LeafOf(a, d) /\ lo(m, k) <= LeafOf(u, d)
  <2>1. CASE u > a
    <3>0. a <= u
      BY <1>4, <2>1
    <3>1. LeafOf(a, d) <= LeafOf(u, d)
      BY <1>1, <1>4, <3>0, LeafOfOrder
    <3> QED
      BY <1>1, <1>7, <2>1, <3>1
  <2>2. CASE ~ (u > a)
    <3>0. u <= a
      BY <1>4, <2>2
    <3>1. LeafOf(u, d) <= LeafOf(a, d)
      BY <1>1, <1>4, <3>0, LeafOfOrder
    <3> QED
      BY <1>1, <1>7, <2>2, <3>1
  <2> QED
    BY <2>1, <2>2
<1>9. lo(m, l) \in {LeafOf(b, d), LeafOf(v, d)}
  BY <1>2
<1> QED
  BY <1>5, <1>6, <1>7, <1>8, <1>9

\* predict: the leaf of a key that the model was trained on is in its window.
LEMMA TrainedWindow ==
  ASSUME NEW m, Trained(m), NEW i \in 1 .. m.capacity
  PROVE  (i - 1) \div N \in lo(m, m.keys[i]) .. hi(m, m.keys[i])
<1> DEFINE k == m.keys[i]
           d == m.icd
           size == m.capacity
           x == pos(m, k)
           e == (Epsilon + 2) * d
           f == Epsilon * d
           a == Above(m, k)
           u == SUB_EPS(x, d)
           b == Below(m, k)
           t == (i - 1) * d
<1>0. k \in Keys
  BY ElementLemma DEF Trained
<1>1. /\ d \in Nat \ {0} /\ size \in Nat \ {0} /\ x \in Int /\ e \in Int /\ f \in Int
      /\ e = f + 2 * d /\ (Epsilon - 1) * d = f - d /\ f >= 0
      /\ size * d \in Int /\ (size - 1) * d = size * d - d
      /\ a = IF x + e >= size * d THEN (size - 1) * d ELSE x + e
      /\ u = IF x <= f THEN 0 ELSE x - f
      /\ b = IF u > a THEN a ELSE u
      /\ hi(m, k) = LeafOf(a, d) /\ lo(m, k) = LeafOf(b, d)
  BY <1>0, BoundsLemma
<1>2. x - t \in 1 - f .. (Epsilon - 1) * d
  BY DEF Trained
<1>3. i - 1 \in Nat /\ i - 1 <= size - 1 /\ i \in Int
  BY <1>1
<1>4. t \in Int /\ t >= 0 /\ t <= (size - 1) * d
  <2> HIDE DEF d, size
  <2>1. d * (i - 1) <= d * (size - 1)
    BY <1>1, <1>3, ProductKeepsOrder
  <2>2. t = d * (i - 1) /\ (size - 1) * d = d * (size - 1) /\ d * (i - 1) \in Int
    BY <1>1, <1>3
  <2>3. t >= 0
    BY <1>1, <1>3
  <2> QED
    BY <2>1, <2>2, <2>3
<1> HIDE DEF k, d, size, x, e, f, a, u, b, t
<1>5. x - t >= 1 - f /\ x - t <= f - d
  BY <1>1, <1>2, <1>4
<1>6. a \in Int /\ t <= a
  BY <1>1, <1>4, <1>5
<1>7. b \in Int /\ b < t + d
  BY <1>1, <1>4, <1>5, <1>6
<1>8. (i - 1) \div N <= hi(m, k)
  BY <1>1, <1>3, <1>6, LeafOfPlace DEF t
<1>9. lo(m, k) <= (i - 1) \div N
  BY <1>1, <1>3, <1>7, LeafOfPlace DEF t
<1>10. lo(m, k) \in Int /\ hi(m, k) \in Int /\ (i - 1) \div N \in Int
  <2>1. N \in Nat \ {0}
    BY LeafAssumption
  <2> QED
    BY <1>1, <1>3, <1>6, <1>7, <2>1, LeafOfPlace, Quotient
<1> QED
  BY <1>8, <1>9, <1>10 DEF k

\* The keys that a model was trained on increase from the first to the last.
LEMMA KeysIncrease ==
  ASSUME NEW m, Trained(m)
  PROVE  \A i, j \in 1 .. m.capacity : i < j => m.keys[i] < m.keys[j]
<1>1. /\ m.capacity \in Nat
      /\ \A i \in 1 .. m.capacity : m.keys[i] \in Nat
      /\ \A i \in 1 .. m.capacity : i > 1 => m.keys[i - 1] < m.keys[i]
  <2>1. \A i \in 1 .. m.capacity : m.keys[i] \in Keys
    BY ElementLemma DEF Trained
  <2>2. \A k \in Keys : k \in Nat
    BY DEF Keys
  <2> QED
    BY <2>1, <2>2 DEF Trained
<1> DEFINE S == {j \in Nat : j \in 1 .. m.capacity /\
                   \E i \in 1 .. m.capacity : i < j /\ ~ (m.keys[i] < m.keys[j])}
<1> SUFFICES ASSUME S # {} PROVE FALSE
  BY <1>1
<1>2. PICK j \in S : \A k \in S : j <= k
  BY LeastNumber
<1>3. PICK i \in 1 .. m.capacity : i < j /\ ~ (m.keys[i] < m.keys[j])
  BY <1>2
<1>4. j - 1 \in Nat /\ j - 1 \in 1 .. m.capacity /\ j > 1 /\ j \in 1 .. m.capacity /\ ~ (j <= j - 1)
  BY <1>1, <1>2, <1>3
<1>5. m.keys[j - 1] < m.keys[j]
  BY <1>1, <1>4
<1>6. i = j - 1 \/ m.keys[i] < m.keys[j - 1]
  <2>1. i = j - 1 \/ i < j - 1
    BY <1>1, <1>3, <1>4
  <2>2. j - 1 \notin S
    BY <1>2, <1>4
  <2> QED
    BY <1>4, <2>1, <2>2
<1>7. m.keys[i] \in Nat /\ m.keys[j] \in Nat /\ m.keys[j - 1] \in Nat
  BY <1>1, <1>3, <1>4
<1> QED
  BY <1>3, <1>5, <1>6, <1>7

\* SubModel(...): training leaves sorted leaves behind.
LEMMA TrainedLeafLemma ==
  ASSUME NEW m, Trained(m), NEW l \in Nat, NEW v \in Vals
  PROVE  TrainedLeaf(m, l, v) \in Leaves /\ Sorted(TrainedLeaf(m, l, v))
<1> DEFINE t == TrainedLeaf(m, l, v)
           at(s) == l * N + s
<1>1. N \in Nat /\ N > 1 /\ Slots \subseteq Nat /\ InvalidKey \in Nat
  BY LeafAssumption DEF Slots
<1>2. l * N \in Nat
  BY <1>1
<1>3. /\ m.capacity \in Nat
      /\ \A i \in 1 .. m.capacity : m.keys[i] \in Keys
  BY ElementLemma DEF Trained
<1>4. t = [s \in Slots |-> IF at(s) < m.capacity
                             THEN [key |-> m.keys[at(s) + 1], val |-> v] ELSE Empty]
  BY DEF TrainedLeaf
<1>5. \A s \in Slots : at(s) \in Nat /\ at(s) = l * N + s
  BY <1>1, <1>2
<1> HIDE DEF t, at
<1>6. \A s \in Slots : at(s) < m.capacity => at(s) + 1 \in 1 .. m.capacity
  BY <1>3, <1>5
<1>7. \A s \in Slots : t[s] \in Entries \cup {Empty}
  BY <1>3, <1>4, <1>6 DEF Entries
<1>8. t \in Leaves
  BY <1>4, <1>7 DEF Leaves
<1>9. Sorted(t)
  <2> SUFFICES ASSUME NEW i \in Slots, NEW j \in Slots, i < j
               PROVE  t[i].key < t[j].key \/ t[j] = Empty
    BY DEF Sorted
  <2>1. CASE at(j) < m.capacity
    <3>1. at(i) < at(j) /\ at(i) < m.capacity
      BY <1>1, <1>2, <1>3, <1>5, <2>1
    <3>2. /\ at(i) + 1 \in 1 .. m.capacity /\ at(j) + 1 \in 1 .. m.capacity
          /\ at(i) + 1 < at(j) + 1
      BY <1>5, <1>6, <2>1, <3>1
    <3>3. m.keys[at(i) + 1] < m.keys[at(j) + 1]
      BY <3>2, KeysIncrease
    <3>4. t[i].key = m.keys[at(i) + 1] /\ t[j].key = m.keys[at(j) + 1]
      BY <1>4, <2>1, <3>1
    <3> QED
      BY <3>3, <3>4
  <2>2. CASE ~ (at(j) < m.capacity)
    BY <1>4, <2>2
  <2> QED
    BY <2>1, <2>2
<1> QED
  BY <1>8, <1>9 DEF t
-----------------------------------------------------------------------------
\* The walk over a window of the table: it ends at an entry of the window, and no
\* entry of the window further right takes the key.
LEMMA EntryLemma ==
  ASSUME NEW lt, NEW mem, NEW k, NEW a \in Nat, NEW b \in Nat, a <= b
  PROVE  LET e == Entry(lt, mem, k, a, b)
         IN  /\ e \in a .. b
             /\ e = a \/ insertHere(mem[lt.table[e].leaf_num], k)
             /\ \A j \in e + 1 .. b : ~ insertHere(mem[lt.table[j].leaf_num], k)
<1> DEFINE here == {i \in a + 1 .. b : insertHere(mem[lt.table[i].leaf_num], k)}
           e == Entry(lt, mem, k, a, b)
<1>1. e = IF here = {} THEN a ELSE Greatest(here)
  BY DEF Entry
<1>2. CASE here = {}
  BY <1>1, <1>2
<1>3. CASE here # {}
  <2>1. here \in SUBSET Int /\ \A y \in here : y <= b
    OBVIOUS
  <2> HIDE DEF here
  <2>2. Greatest(here) \in here /\ \A y \in here : y <= Greatest(here)
    BY <1>3, <2>1, GreatestLemma
  <2>3. e = Greatest(here)
    BY <1>1, <1>3
  <2> HIDE DEF e
  <2>4. e \in a + 1 .. b /\ insertHere(mem[lt.table[e].leaf_num], k)
    BY <2>2, <2>3 DEF here
  <2>5. ASSUME NEW j \in e + 1 .. b
        PROVE  ~ insertHere(mem[lt.table[j].leaf_num], k)
    <3>1. j \in a + 1 .. b /\ ~ (j <= e)
      BY <2>4
    <3> QED
      BY <2>2, <2>3, <3>1 DEF here
  <2> QED
    BY <2>4, <2>5 DEF e
<1> QED
  BY <1>2, <1>3

\* The keys of a leaf that gets an entry, and of one that shares its entries
LEMMA KeysAdded ==
  ASSUME NEW l \in Leaves, NEW w \in Leaves, NEW k, NEW v,
         Content(w) = Content(l) \cup {[key |-> k, val |-> v]}
  PROVE  \A j : j \in KeysOf(w) <=> j \in KeysOf(l) \/ j = k
<1> DEFINE kv == [key |-> k, val |-> v]
<1>0. kv.key = k /\ kv \in Content(w) /\ Content(l) \subseteq Content(w)
      /\ \A e \in Content(w) : e \in Content(l) \/ e = kv
  OBVIOUS
<1> HIDE DEF kv
<1>1. \A j : j \in KeysOf(w) <=> \E e \in Content(w) : e.key = j
  BY KeysLemma
<1>2. \A j : j \in KeysOf(l) <=> \E e \in Content(l) : e.key = j
  BY KeysLemma
<1>3. \A j \in KeysOf(w) : j \in KeysOf(l) \/ j = k
  BY <1>0, <1>1, <1>2
<1>4. k \in KeysOf(w) /\ \A j \in KeysOf(l) : j \in KeysOf(w)
  BY <1>0, <1>1, <1>2
<1> QED
  BY <1>3, <1>4

\* The entries of leaf l and a new one are those of two leaves.
Shared(l, low, high, k, v) ==
  Content(low) \cup Content(high) = Content(l) \cup {[key |-> k, val |-> v]}

\* insert_synonym's split: the keys of two leaves that share the entries of one
LEMMA KeysShared ==
  ASSUME NEW l \in Leaves, NEW low \in Leaves, NEW high \in Leaves, NEW k, NEW v,
         Shared(l, low, high, k, v)
  PROVE  \A j : j \in KeysOf(low) \cup KeysOf(high) <=> j \in KeysOf(l) \/ j = k
<1> DEFINE kv == [key |-> k, val |-> v]
<1>0. /\ kv.key = k /\ (kv \in Content(low) \/ kv \in Content(high))
      /\ \A e \in Content(l) : e \in Content(low) \/ e \in Content(high)
      /\ \A e \in Content(low) : e \in Content(l) \/ e = kv
      /\ \A e \in Content(high) : e \in Content(l) \/ e = kv
  BY DEF Shared
<1> HIDE DEF kv
<1>1. \A j : j \in KeysOf(low) <=> \E e \in Content(low) : e.key = j
  BY KeysLemma
<1>2. \A j : j \in KeysOf(high) <=> \E e \in Content(high) : e.key = j
  BY KeysLemma
<1>3. \A j : j \in KeysOf(l) <=> \E e \in Content(l) : e.key = j
  BY KeysLemma
<1>4. \A j \in KeysOf(low) \cup KeysOf(high) : j \in KeysOf(l) \/ j = k
  BY <1>0, <1>1, <1>2, <1>3
<1>5. k \in KeysOf(low) \cup KeysOf(high)
  BY <1>0, <1>1, <1>2
<1>6. \A j \in KeysOf(l) : j \in KeysOf(low) \cup KeysOf(high)
  BY <1>0, <1>1, <1>2, <1>3
<1> QED
  BY <1>4, <1>5, <1>6

\* The half that the new key goes to is the one its order asks for.
LEMMA SplitLemma ==
  ASSUME N % 2 = 0, NEW l \in Leaves, Sorted(l), isfull(l),
         NEW k \in Keys, k \notin KeysOf(l), NEW v \in Vals
  PROVE  LET low == IF insertHere(upper_half(l), k) THEN lower_half(l)
                    ELSE insert_not_full(lower_half(l), k, v)
             high == IF insertHere(upper_half(l), k) THEN insert_not_full(upper_half(l), k, v)
                     ELSE upper_half(l)
         IN  /\ low \in Leaves /\ Sorted(low) /\ KeysOf(low) # {}
             /\ high \in Leaves /\ Sorted(high)
             /\ \A j \in KeysOf(low), h \in KeysOf(high) : j < h
             /\ Content(low) \cup Content(high) = Content(l) \cup {[key |-> k, val |-> v]}
<1> DEFINE lo1 == lower_half(l)
           hi1 == upper_half(l)
           kv == [key |-> k, val |-> v]
<1>1. /\ lo1 \in Leaves /\ Sorted(lo1) /\ ~ isfull(lo1) /\ ~ isEmpty(lo1)
      /\ hi1 \in Leaves /\ Sorted(hi1) /\ ~ isfull(hi1) /\ ~ isEmpty(hi1)
      /\ Content(lo1) \cup Content(hi1) = Content(l)
      /\ \A j \in KeysOf(lo1), h \in KeysOf(hi1) : j < h
  BY HalvesLemma
<1> HIDE DEF lo1, hi1
<1>2. /\ \A j : j \in KeysOf(lo1) <=> \E e \in Content(lo1) : e.key = j
      /\ \A j : j \in KeysOf(hi1) <=> \E e \in Content(hi1) : e.key = j
      /\ \A j : j \in KeysOf(l) <=> \E e \in Content(l) : e.key = j
      /\ KeysOf(lo1) \subseteq Keys /\ KeysOf(hi1) \subseteq Keys
  BY <1>1, KeysLemma
<1>3. k \notin KeysOf(lo1) /\ k \notin KeysOf(hi1)
  BY <1>1, <1>2
<1>4. KeysOf(lo1) # {}
  BY <1>1, FirstKeyLemma
<1>5. /\ hi1[0].key \in KeysOf(hi1) /\ \A h \in KeysOf(hi1) : hi1[0].key <= h
  BY <1>1, FirstKeyLemma
<1>6. Keys \subseteq Int
  BY LeafAssumption DEF Keys
<1>7. CASE insertHere(hi1, k)
  <2> DEFINE w == insert_not_full(hi1, k, v)
  <2>1. w \in Leaves /\ Sorted(w) /\ Content(w) = Content(hi1) \cup {kv}
    BY <1>1, <1>3, InsertLemma
  <2> HIDE DEF w
  <2>2. \A j : j \in KeysOf(w) <=> j \in KeysOf(hi1) \/ j = k
    BY <1>1, <2>1, KeysAdded
  <2>3. hi1[0].key <= k
    BY <1>2, <1>5, <1>6, <1>7 DEF insertHere
  <2>4. ASSUME NEW j \in KeysOf(lo1)
        PROVE  j < k
    <3>1. j < hi1[0].key /\ j \in Int /\ hi1[0].key \in Int /\ k \in Int
      BY <1>1, <1>2, <1>5, <1>6
    <3> QED
      BY <2>3, <3>1
  <2>5. \A j \in KeysOf(lo1), h \in KeysOf(w) : j < h
    BY <1>1, <2>2, <2>4
  <2>6. Content(lo1) \cup Content(w) = Content(l) \cup {kv}
    BY <1>1, <2>1
  <2> QED
    BY <1>1, <1>4, <1>7, <2>1, <2>5, <2>6 DEF w, lo1, hi1
<1>8. CASE ~ insertHere(hi1, k)
  <2> DEFINE w == insert_not_full(lo1, k, v)
  <2>1. w \in Leaves /\ Sorted(w) /\ Content(w) = Content(lo1) \cup {kv}
    BY <1>1, <1>3, InsertLemma
  <2> HIDE DEF w
  <2>2. \A j : j \in KeysOf(w) <=> j \in KeysOf(lo1) \/ j = k
    BY <1>1, <2>1, KeysAdded
  <2>3. ~ (k >= hi1[0].key)
    BY <1>8 DEF insertHere
  <2>4. ASSUME NEW h \in KeysOf(hi1)
        PROVE  k < h
    <3>1. hi1[0].key <= h /\ h \in Int /\ hi1[0].key \in Int /\ k \in Int
      BY <1>2, <1>5, <1>6
    <3> QED
      BY <2>3, <3>1
  <2>5. \A j \in KeysOf(w), h \in KeysOf(hi1) : j < h
    BY <1>1, <2>2, <2>4
  <2>6. Content(w) \cup Content(hi1) = Content(l) \cup {kv}
    BY <1>1, <2>1
  <2>7. KeysOf(w) # {}
    BY <2>2
  <2> QED
    BY <1>1, <1>8, <2>1, <2>5, <2>6, <2>7 DEF w, lo1, hi1
<1> QED
  BY <1>7, <1>8

\* The first key of a leaf that gets key k and may give some of its keys away, but not
\* the smallest one
LEMMA FirstKeyAdded ==
  ASSUME NEW l \in Leaves, Sorted(l), NEW w \in Leaves, Sorted(w), NEW k \in Keys,
         KeysOf(w) # {}, \A j \in KeysOf(w) : j \in KeysOf(l) \/ j = k,
         \A j \in KeysOf(l) : w[0].key <= j
  PROVE  w[0].key = l[0].key \/ (w[0].key = k /\ k < l[0].key)
<1>1. w[0].key \in KeysOf(w)
  BY FirstKeyLemma
<1>2. w[0].key \in KeysOf(l) \/ w[0].key = k
  BY <1>1
<1>3. 0 \in Slots /\ w[0].key \in 0 .. InvalidKey /\ l[0].key \in 0 .. InvalidKey /\ InvalidKey \in Nat
  BY SlotLemma
<1>4. isEmpty(l) \/ l[0].key \in KeysOf(l)
  BY FirstKeyLemma
<1>5. isEmpty(l) => l[0].key = InvalidKey
  BY DEF isEmpty
<1>6. k \in Nat /\ k < InvalidKey
  BY <1>3 DEF Keys
<1>7. ASSUME w[0].key \in KeysOf(l)
      PROVE  w[0].key = l[0].key
  <2>1. l[0].key <= w[0].key /\ l[0].key \in KeysOf(l)
    BY <1>4, <1>7, FirstKeyLemma
  <2>2. w[0].key <= l[0].key
    BY <2>1
  <2> QED
    BY <1>3, <2>1, <2>2
<1>8. ASSUME w[0].key = k
      PROVE  k <= l[0].key
  <2>1. CASE isEmpty(l)
    BY <1>3, <1>5, <1>6, <2>1
  <2>2. CASE ~ isEmpty(l)
    <3>1. l[0].key \in KeysOf(l)
      BY <1>4, <2>2
    <3>2. w[0].key <= l[0].key
      BY <3>1
    <3> QED
      BY <1>8, <3>2
  <2> QED
    BY <2>1, <2>2
<1> QED
  BY <1>2, <1>3, <1>6, <1>7, <1>8
=============================================================================
