------------------------------ MODULE SubModel ------------------------------
(***************************************************************************)
(* rolex/submodel.hpp: where a trained linear model says a key is. A model *)
(* is [num, den, icn, icd, capacity]: slope num/den and intercept icn/icd  *)
(* as exact fractions with den, icd > 0, and the number of keys it was     *)
(* trained on; a trained model also has these keys, in order. Positions    *)
(* are kept in units of 1/icd.                                             *)
(***************************************************************************)
EXTENDS LeafTable

CONSTANT Epsilon          \* the error bound the model was trained to

ASSUME EpsilonAssumption == Epsilon \in Nat

\* a model with an integer intercept, trained on these keys
Model(num, den, icpt, keys) ==
  [num |-> num, den |-> den, icn |-> icpt, icd |-> 1,
   capacity |-> Len(keys), keys |-> keys]

last_key(m) == m.keys[m.capacity]

\* int64_t(x / d), which rounds towards 0
Trunc(x, d) == IF x < 0 THEN -((-x) \div d) ELSE x \div d

\* int64_t(slope * k) + intercept
pos(m, k) == Trunc(m.num * k, m.den) * m.icd + m.icn

\* the two macros on a position x in units of 1/d
SUB_EPS(x, d) == IF x <= Epsilon * d THEN 0 ELSE x - Epsilon * d
ADD_EPS(x, d, size) ==
  IF x + (Epsilon + 2) * d >= size * d THEN (size - 1) * d
                                       ELSE x + (Epsilon + 2) * d

\* predict: the bounds around the position of a key
Above(m, k) == ADD_EPS(pos(m, k), m.icd, m.capacity)
Below(m, k) == LET left == SUB_EPS(pos(m, k), m.icd)
               IN  IF left > Above(m, k) THEN Above(m, k) ELSE left

\* std::max((int)(x / max_slot()), 0): the leaf of a position; a position left
\* of the first key counts as leaf 0.
LeafOf(x, d) == IF x < 0 THEN 0 ELSE x \div (d * N)

hi(m, k) == LeafOf(Above(m, k), m.icd)
lo(m, k) == LeafOf(Below(m, k), m.icd)

\* What training is relied on for: a line that does not fall, and every key it saw
\* predicted less than Epsilon below and at most Epsilon - 1 above the place where
\* it is.
Trained(m) ==
  /\ m.num \in Nat /\ m.icn \in Int
  /\ {m.den, m.icd, m.capacity} \subseteq Nat \ {0}
  /\ m.keys \in Seq(Keys) /\ m.capacity = Len(m.keys)
  /\ \A i \in 1 .. m.capacity :
       /\ i > 1 => m.keys[i - 1] < m.keys[i]
       /\ pos(m, m.keys[i]) - (i - 1) * m.icd
            \in 1 - Epsilon * m.icd .. (Epsilon - 1) * m.icd

\* SubModel(slope, intercept, keys, vals, size): the keys fill one leaf after
\* the other, a leaf being started when the last one is full.
TrainedLeaves(m) == (m.capacity + N - 1) \div N

TrainedLeaf(m, l, v) ==
  [s \in Slots |-> IF l * N + s < m.capacity
                     THEN [key |-> m.keys[l * N + s + 1], val |-> v]
                     ELSE Empty]
-----------------------------------------------------------------------------
\* 1 << e
bit[e \in Nat] == IF e = 0 THEN 1 ELSE 2 * bit[e - 1]

\* bsr: the exponent of the power of 2 at most x, for x > 0
bsr(x) == Greatest({e \in 0 .. x : bit[e] <= x})

\* faulty: the last key of a model taken for the first of the next one
binary_search_above(arr, key) ==
  LET above == {i \in DOMAIN arr : arr[i] > key}
  IN  IF above = {} THEN Len(arr) ELSE Least(above) - 1

\* binary_search_branchless for n > 1: how many of the keys are below `key`, one
\* bit of the answer after the other from the highest on.
binary_search_branchless(arr, key) ==
  LET n == Len(arr)
      steps == bsr(n - 1)
      below(i) == arr[i + 1] < key
      start == n - 1 - bit[steps]
      after[b \in 0 .. steps] ==
        IF b = steps THEN (IF below(start) THEN start ELSE -1)
        ELSE IF below(after[b + 1] + bit[b]) THEN after[b + 1] + bit[b]
                                             ELSE after[b + 1]
      found == after[0] + 1
  IN  IF arr[found + 1] >= key THEN found ELSE n

\* model_for_key. With one model bsr(0) is undefined, and so are the addresses the
\* search reads; whatever it returns is cut to the only model.
model_for_key(model_keys, key) ==
  IF Len(model_keys) = 1 THEN 0
  ELSE LET idx == binary_search_branchless(model_keys, key)
       IN  IF idx < Len(model_keys) THEN idx ELSE Len(model_keys) - 1
=============================================================================
