------------------------------ MODULE Training ------------------------------
(***************************************************************************)
(* How a memory node starts: RemoteMemory creates its two regions,         *)
(* Rolex::train cuts the sorted keys into segments and appends a submodel  *)
(* for each (one step per key), writes the number of models last, and      *)
(* start_daemon lets compute nodes in. Afterwards the server puts keys.    *)
(* A failed ASSERT stops the node. Sizes are in words.                     *)
(***************************************************************************)
EXTENDS ModelRegion, PLR

CONSTANTS Loads,        \* the starts to look at: [keys, leaf_num,
                        \* leaf_region_size, puts, ...]: the keys to train on,
                        \* RM_config's leaf_num and leaf_region_size, the keys
                        \* that the server is told to put
          LeafWords,    \* S, the size of a leaf
          PageWords,    \* align_sz, the size of a huge page
          TrainedVal,   \* the value stored with every trained key
          PutVal        \* the value that the server puts

ASSUME TrainingAssumption ==
  /\ Epsilon > 0
  /\ {TrainedVal, PutVal} \subseteq Vals
  /\ LeafWords \in Nat /\ LeafWords > 1 /\ PageWords \in Nat \ {0}
  /\ \A n \in DOMAIN Loads :
       LET keys == Loads[n].keys
       IN  /\ keys \in Seq(Keys) /\ Len(keys) > 0
           /\ \A i \in DOMAIN keys : i > 1 => keys[i - 1] < keys[i]
           /\ {Loads[n].leaf_num, Loads[n].leaf_region_size} \subseteq Nat
           /\ Loads[n].puts \subseteq Keys

VARIABLES load,         \* which start it is; it never changes
          phase,        \* "create", "train", "serving"
          aborted,      \* "no", or what stopped the memory node
          taken,        \* how many of the keys the loop of train has taken
          first,        \* how many of them are in submodels: k_iter
          opt,          \* the segment in the making
          models,       \* the submodels, with the keys they were trained on
          region,       \* the model allocator and its region
          leaves,       \* the preallocated leaves
          used          \* used_num()

nodeVars == <<load, phase, aborted, taken, first, opt, models, region, leaves,
              used>>

keys == Loads[load].keys
leaf_num == Loads[load].leaf_num

Init ==
  /\ load \in DOMAIN Loads
  /\ phase = "create"
  /\ aborted = "no"
  /\ taken = 0 /\ first = 0
  /\ opt = NewSegment
  /\ models = <<>>
  /\ region = NewModelAllocator
  /\ leaves = <<>> /\ used = 0

\* HugeRegion: the size asked for, rounded up to whole pages
align_to_sz(sz) == ((sz + PageWords - 1) \div PageWords) * PageWords

\* faulty: the test leaves no room for the two words at the head of the region
LargeEnoughTight(total_sz) == leaf_num <= total_sz \div LeafWords

\* ASSERT(leaf_num < (total_sz - sizeof(u64)) / S)
LargeEnough(total_sz) == leaf_num < (total_sz - 1) \div LeafWords

\* Every alloc() of prealloc_leaves finds its leaf inside the region.
Allocated(total_sz) == 2 + leaf_num * LeafWords <= total_sz

\* RemoteMemory(conf): the regions and the allocators on them. prealloc_leaves
\* takes value() of what alloc() returns.
Create ==
  LET total_sz == align_to_sz(Loads[load].leaf_region_size)
  IN  /\ aborted = "no"
      /\ phase = "create"
      /\ IF LargeEnough(total_sz)
           THEN /\ phase' = "train"
                /\ leaves' = [n \in 0 .. leaf_num - 1 |-> NewLeaf]
                /\ aborted' = IF Allocated(total_sz) THEN "no" ELSE "alloc"
           ELSE aborted' = "region" /\ UNCHANGED <<phase, leaves>>
      /\ UNCHANGED <<load, taken, first, opt, models, region, used>>

\* add_point takes the next key.
AddKey ==
  LET k == keys[taken + 1]
  IN  /\ aborted = "no"
      /\ phase = "train"
      /\ taken < Len(keys)
      /\ Takes(opt, k, taken - first, Epsilon - 1)
      /\ opt' = add_point(opt, k, taken - first, Epsilon - 1)
      /\ taken' = taken + 1
      /\ UNCHANGED <<load, phase, aborted, first, models, region, leaves, used>>

\* faulty: the positions of a segment counted from 1
FreshShifted ==
  LET line == get_slope_intercept(opt)
      size == taken - first
      sizing == (size + N - 1) \div N
  IN  [num |-> line.num, den |-> line.den, icn |-> line.icn + line.icd,
       icd |-> line.icd, capacity |-> size,
       keys |-> SubSeq(keys, first + 1, taken),
       lt |-> NewTable([l \in 1 .. sizing |-> used + l - 1])]

\* The submodel of the segment in the making: its line, and its keys in leaves
\* from number `used` on.
Fresh ==
  LET line == get_slope_intercept(opt)
      size == taken - first
      sizing == (size + N - 1) \div N
  IN  [num |-> line.num, den |-> line.den, icn |-> line.icn, icd |-> line.icd,
       capacity |-> size, keys |-> SubSeq(keys, first + 1, taken),
       lt |-> NewTable([l \in 1 .. sizing |-> used + l - 1])]

\* append_model, or the ASSERT that stops it: the pool is out of leaves, the model
\* region out of room.
AppendModel ==
  LET m == Fresh
      blob == serialize(m)
      stop == IF used + TrainedLeaves(m) > leaf_num THEN "pool"
              ELSE IF ~ Room(region, blob) THEN "room" ELSE "no"
  IN  /\ aborted' = stop
      /\ IF stop # "no" THEN UNCHANGED <<models, region, leaves, used>>
         ELSE /\ models' = Append(models, m)
              /\ region' = append(region, last_key(m), blob)
              /\ leaves' = [n \in DOMAIN leaves |->
                   IF n \in used .. used + TrainedLeaves(m) - 1
                     THEN TrainedLeaf(m, n - used, TrainedVal) ELSE leaves[n]]
              /\ used' = used + TrainedLeaves(m)

\* add_point refuses the next key: a submodel for the keys so far, and a new
\* segment that begins with this key.
CloseSegment ==
  LET k == keys[taken + 1]
  IN  /\ aborted = "no"
      /\ phase = "train"
      /\ taken < Len(keys)
      /\ ~ Takes(opt, k, taken - first, Epsilon - 1)
      /\ AppendModel
      /\ opt' = add_point(NewSegment, k, 0, Epsilon - 1)
      /\ first' = taken
      /\ taken' = taken + 1
      /\ UNCHANGED <<load, phase>>

\* The last submodel, without which the keys of the last segment are lost.
FinishTraining ==
  /\ aborted = "no"
  /\ phase = "train"
  /\ taken = Len(keys)
  /\ first < Len(keys)
  /\ AppendModel
  /\ first' = Len(keys)
  /\ UNCHANGED <<load, phase, taken, opt>>

\* total_size is written into the region, then start_daemon().
StartDaemon ==
  /\ aborted = "no"
  /\ phase = "train"
  /\ first = Len(keys)
  /\ region' = [region EXCEPT !.mem[0] = Len(models)]
  /\ phase' = "serving"
  /\ UNCHANGED <<load, aborted, taken, first, opt, models, leaves, used>>

model_keys == [i \in DOMAIN models |-> last_key(models[i])]
ModelOf(k) == model_for_key(model_keys, k) + 1

\* A put of the server: one of LeafTable's inserts, or fetch_new_leaf's ASSERT.
PutKey(k) ==
  LET j == ModelOf(k)
      m == models[j]
      r == Insert(m.lt, leaves, used, k, PutVal, lo(m, k), hi(m, k))
      dry == NeedsLeaf(m.lt, leaves, k, lo(m, k), hi(m, k)) /\ used >= leaf_num
  IN  /\ aborted = "no"
      /\ phase = "serving"
      /\ IF dry THEN aborted' = "pool" /\ UNCHANGED <<models, leaves, used>>
         ELSE /\ models' = [models EXCEPT ![j].lt = r.lt]
              /\ leaves' = r.mem
              /\ used' = r.used
              /\ UNCHANGED aborted
      /\ UNCHANGED <<load, phase, taken, first, opt, region>>

StartNext == Create \/ AddKey \/ CloseSegment \/ FinishTraining \/ StartDaemon
-----------------------------------------------------------------------------
\* Rolex::search on the memory node
Lookup(k) ==
  LET m == models[ModelOf(k)]
  IN  Search(m.lt, leaves, k, lo(m, k), hi(m, k))

\* PLR: the segments are as long as they can be. Every segment has a line within
\* the bound of all its points, and has none with the next key added.
SegmentsOptimal ==
  LET points(s, e) == [i \in 1 .. e - s |-> <<keys[s + i], i - 1>>]
      start[j \in 1 .. Len(models) + 1] ==
        IF j = 1 THEN 0 ELSE start[j - 1] + models[j - 1].capacity
      bound == Epsilon - 1
  IN  /\ Fits(points(first, taken), bound)
      /\ \A j \in DOMAIN models :
           /\ Fits(points(start[j], start[j + 1]), bound)
           /\ start[j + 1] < Len(keys)
                => ~ Fits(points(start[j], start[j + 1] + 1), bound)

\* train and predict: every key is looked for in the model that was trained on it,
\* and in a window of leaves that has the leaf it was put in. It is what the
\* index on the memory node and the caches rely on.
TrainedInWindow ==
  phase = "serving" =>
    /\ \A j \in DOMAIN models :
         /\ Trained(models[j])
         /\ \A i \in 1 .. models[j].capacity :
              LET k == models[j].keys[i]
              IN  /\ ModelOf(k) = j
                  /\ (i - 1) \div N \in lo(models[j], k) .. hi(models[j], k)
    /\ \A i \in DOMAIN keys : Lookup(keys[i]) # NoVal
=============================================================================
