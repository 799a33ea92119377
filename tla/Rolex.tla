------------------------------- MODULE Rolex -------------------------------
(***************************************************************************)
(* rolex/rolex.hpp on a memory node: the trained submodels, each with its  *)
(* leaf table, over one pool of leaves. The operations of the clients run  *)
(* one at a time here, which is what each of them promises whatever runs   *)
(* beside it; LeafTableConc interleaves them.                              *)
(***************************************************************************)
EXTENDS SubModel

CONSTANTS Loads,        \* a sequence of loads, one of which the node is given:
                        \* [training, writes, removes, values], the trained
                        \* models in the order of their keys, the keys the
                        \* clients insert and update, the keys they remove,
                        \* and the values they store
          TrainedVal,   \* the value stored with every trained key
          Pool          \* the leaves preallocated in the region

ASSUME LoadsAssumption ==
  \A n \in DOMAIN Loads :
    LET training == Loads[n].training
    IN  /\ Len(training) \in Nat \ {0} /\ DOMAIN training = 1 .. Len(training)
        /\ \A i \in DOMAIN training :
             /\ Trained(training[i])
             /\ i > 1 => last_key(training[i - 1]) < training[i].keys[1]
        /\ Loads[n].writes \cup Loads[n].removes \subseteq Keys
        /\ Loads[n].values \cup {TrainedVal} \subseteq Vals

VARIABLES load,         \* the load it was given; it never changes
          models,       \* the leaf table of every submodel
          leaves,       \* the leaf region: leaf number -> leaf
          used,         \* used_num()
          reply,        \* the last write answered: [op, key, ok]
          aborted       \* an ASSERT stopped the memory node

vars == <<load, models, leaves, used, reply, aborted>>

Training == Loads[load].training
Models == 1 .. Len(Training)

\* the model of a key: binary_search_branchless over model_keys, the last key
\* each model was trained on
model_index ==
  [n \in DOMAIN Loads |-> [k \in Keys |->
     LET training == Loads[n].training
         model_keys == [i \in DOMAIN training |-> last_key(training[i])]
     IN  model_for_key(model_keys, k) + 1]]

\* the leaves the key's model predicts for it
windows ==
  [n \in DOMAIN Loads |-> [k \in Keys |->
     LET m == Loads[n].training[model_index[n][k]]
     IN  [lo |-> lo(m, k), hi |-> hi(m, k)]]]

model_for == model_index[load]
window == windows[load]

\* the leaves taken by the models before model i
first_leaf ==
  [n \in DOMAIN Loads |->
     LET training == Loads[n].training
         sum[i \in 1 .. Len(training) + 1] ==
           IF i = 1 THEN 0 ELSE sum[i - 1] + TrainedLeaves(training[i - 1])
     IN  sum]

FirstLeaf(i) == first_leaf[load][i]

BaseLeaves == FirstLeaf(Len(Training) + 1)

\* Training is over: fetch_new_leaf's ASSERT did not stop it.
ASSUME PoolAssumption ==
  /\ Pool \in Nat
  /\ \A n \in DOMAIN Loads : first_leaf[n][Len(Loads[n].training) + 1] <= Pool

\* train(): one append_model after the other takes its leaves from the pool.
Init ==
  /\ load \in DOMAIN Loads
  /\ models = [i \in Models |->
       NewTable([l \in 1 .. TrainedLeaves(Training[i]) |->
                   FirstLeaf(i) + l - 1])]
  /\ leaves = [n \in 0 .. Pool - 1 |->
       IF n >= BaseLeaves THEN NewLeaf
       ELSE LET i == Greatest({j \in Models : FirstLeaf(j) <= n})
            IN  TrainedLeaf(Training[i], n - FirstLeaf(i), TrainedVal)]
  /\ used = BaseLeaves
  /\ reply = [op |-> "none"]
  /\ aborted = FALSE

Answer(op, k, ok) == reply' = [op |-> op, key |-> k, ok |-> ok]

\* rolex_put_callback, or a worker of the benchmark
PutKey(k, v) ==
  LET m == model_for[k]
      r == Insert(models[m], leaves, used, k, v, window[k].lo, window[k].hi)
  IN  /\ ~ aborted
      /\ NeedsLeaf(models[m], leaves, k, window[k].lo, window[k].hi) => used < Pool
      /\ models' = [models EXCEPT ![m] = r.lt]
      /\ leaves' = r.mem
      /\ used' = r.used
      /\ Answer("insert", k, r.ok)
      /\ UNCHANGED <<load, aborted>>

\* ASSERT(num < allocated_num()) in fetch_new_leaf: the pool has run out.
PutAborts(k) ==
  LET m == model_for[k]
  IN  /\ ~ aborted
      /\ NeedsLeaf(models[m], leaves, k, window[k].lo, window[k].hi)
      /\ used = Pool
      /\ aborted' = TRUE
      /\ UNCHANGED <<load, models, leaves, used, reply>>

UpdateKey(k, v) ==
  LET r == Update(models[model_for[k]], leaves, k, v, window[k].lo, window[k].hi)
  IN  /\ ~ aborted
      /\ leaves' = r.mem
      /\ Answer("update", k, r.ok)
      /\ UNCHANGED <<load, models, used, aborted>>

RemoveKey(k) ==
  LET m == model_for[k]
      r == Remove(models[m], leaves, k, window[k].lo, window[k].hi)
  IN  /\ ~ aborted
      /\ models' = [models EXCEPT ![m] = r.lt]
      /\ leaves' = r.mem
      /\ Answer("remove", k, r.ok)
      /\ UNCHANGED <<load, used, aborted>>

Next ==
  \/ \E k \in Loads[load].writes :
       \/ \E v \in Loads[load].values : PutKey(k, v) \/ UpdateKey(k, v)
       \/ PutAborts(k)
  \/ \E k \in Loads[load].removes : RemoveKey(k)

Spec == Init /\ [][Next]_vars
-----------------------------------------------------------------------------
\* Rolex::search
Lookup(k) ==
  Search(models[model_for[k]], leaves, k, window[k].lo, window[k].hi)

\* Rolex::range: the key's model from the key on, then the models after it, each
\* of them asked for the keys from k on.
Scan(k) ==
  LET from[m \in model_for[k] .. Len(Training) + 1] ==
        IF m > Len(Training) THEN <<>>
        ELSE Range(models[m], leaves, k,
                   lo(Training[m], k), hi(Training[m], k)) \o from[m + 1]
  IN  from[model_for[k]]
-----------------------------------------------------------------------------
TypeOK ==
  /\ load \in DOMAIN Loads
  /\ \A m \in Models :
       LET lt == models[m]
           entries == [leaf_num : 0 .. Pool - 1, synonym_leaf : 0 .. lt.next - 1]
       IN  /\ lt.next \in 1 .. SynonymMax - 1
           /\ lt.table \in [0 .. TrainedLeaves(Training[m]) - 1 -> entries]
           /\ DOMAIN lt.syn = 1 .. lt.next - 1
           /\ \A s \in DOMAIN lt.syn : lt.syn[s] \in entries
  /\ leaves \in [0 .. Pool - 1 -> Leaves]
  /\ used \in BaseLeaves .. Pool
  /\ aborted \in BOOLEAN

\* What search answers for every key
contents == [k \in Keys |-> Lookup(k)]

\* The leaves of entry i of model m in the order of its chain
LeavesOf(m, i) ==
  [p \in 0 .. Len(Chain(models[m], i)) |-> leaves[LeafNum(models[m], i, p)]]

EntriesOf(m) == DOMAIN models[m].table

\* insert_synonym, remove_synonym: "to guarantee all data sorted, we traverse
\* leaves from back". Each leaf is sorted, and in a chain the keys of one leaf
\* are all below those of the next.
ChainsSorted ==
  \A m \in Models : \A i \in EntriesOf(m) :
    LET c == LeavesOf(m, i)
    IN  \A p, q \in DOMAIN c :
          /\ Sorted(c[p])
          /\ p < q => \A j \in KeysOf(c[p]), k \in KeysOf(c[q]) : j < k

\* fetch_new_leaf and synonym_emplace_back: a leaf of the pool is in one place of
\* the index only, and a leaf that is in none holds no key.
LeavesPlacedOnce ==
  LET at(m, i) == 0 .. Len(Chain(models[m], i))
  IN  /\ \A m, l \in Models : \A i \in EntriesOf(m), j \in EntriesOf(l) :
           \A p \in at(m, i), q \in at(l, j) :
             LeafNum(models[m], i, p) = LeafNum(models[l], j, q)
               => <<m, i, p>> = <<l, j, q>>
      /\ \A n \in 0 .. Pool - 1 :
           \/ \E m \in Models : \E i \in EntriesOf(m) : \E p \in at(m, i) :
                LeafNum(models[m], i, p) = n
           \/ KeysOf(leaves[n]) = {}

\* Whatever was inserted and not removed is found: no operation leaves a key in a
\* leaf where search, update and remove no longer come by.
NoKeyStranded ==
  \A n \in 0 .. Pool - 1 : \A k \in KeysOf(leaves[n]) :
    Lookup(k) = leaves[n][Least(At(leaves[n], k))].val

\* range: the values of the keys from k on, each once, in the order of the keys.
RangeComplete ==
  LET c == contents
      values[k \in 0 .. InvalidKey] ==
        IF k = InvalidKey THEN <<>>
        ELSE (IF c[k] = NoVal THEN <<>> ELSE <<c[k]>>) \o values[k + 1]
  IN  \A k \in Keys : Scan(k) = values[k]

\* insert answers false only for a key that is there or when the model's synonym
\* table has run out ("Synonym table is full, need retraining").
RefusedWithReason ==
  [][reply'.op = "insert" /\ reply' # reply /\ ~ reply'.ok =>
       \/ contents[reply'.key] # NoVal
       \/ Full(models[model_for[reply'.key]])]_vars

\* The index behaves as a dictionary: every answer to a write is the dictionary's
\* and every write changes what search finds for its own key only.
Map == INSTANCE KVMap WITH map <- contents

MapSpec == Map!Spec
=============================================================================
