--------------------------- MODULE MCLearnedCache ---------------------------
(***************************************************************************)
(* Training on sets of keys that are dense in places and apart in others,  *)
(* with leaves of two slots and Epsilon 2; compute nodes on a few of them. *)
(***************************************************************************)
EXTENDS LearnedCache, FiniteSets

CONSTANTS v1, v2, v3, n1, n2       \* values, compute nodes

\* the elements of a set of numbers in their order
InOrder(S) ==
  [i \in 1 .. Cardinality(S) |->
     CHOOSE x \in S : Cardinality({y \in S : y <= x}) = i]

\* every set of up to seven of these keys; two that make three models: one
\* entry more than the upper part of the region has room for, and one word more
\* than the whole region has; and one whose second model is longer than its first,
\* which a node's local allocator has no room for
Sparse == {0, 1, 2, 3, 5, 14, 15, 16, 17, 28}
Trainings ==
  {T \in SUBSET Sparse : Cardinality(T) \in 1 .. 7}
    \cup {Sparse \ {5}, (Sparse \ {5}) \cup {29}, {0, 1, 2, 3, 14, 15, 16, 17, 18}}

Quiet == <<{}, {}>>
Calls(of1, of2) == [n \in Nodes |-> IF n = n1 THEN of1 ELSE of2]

\* what the server puts and what the coroutines of the nodes call: searches and
\* inserts beside splits, two inserts into one leaf, keys left of their model,
\* coroutines that share a buffer
Busy(S) ==
  CASE S = {0, 2, 14, 28} ->
         [puts |-> {1, 16},
          calls |-> Calls(<<{"search"} \X {0, 2, 14, 28}, {}>>,
                          <<{"insert"} \X {1, 5}, {}>>)]
    [] S = {2, 5, 14} ->
         [puts |-> {3, 15},
          calls |-> Calls(<<{"insert"} \X {0, 14, 16}, {}>>,
                          <<{"insert"} \X {4, 28}, {}>>)]
    [] S = {0, 1, 2, 3, 16, 17} ->
         [puts |-> {5},
          calls |-> Calls(<<{"search"} \X {5, 16}, {}>>,
                          <<{"search_asyn"} \X {5, 17}, {}>>)]
    [] S = {0, 1, 2, 3, 5} ->
         [puts |-> {4},
          calls |-> Calls(<<{"search_asyn"} \X {0, 2, 5},
                          {"search_asyn"} \X {1, 5} \cup {<<"insert_asyn", 4>>}>>,
                        <<{<<"search_syn", 0>>}, {}>>)]
    [] OTHER -> [puts |-> {}, calls |-> Calls(Quiet, Quiet)]

Starts ==
  [S \in Trainings |->
     [keys |-> InOrder(S), puts |-> Busy(S).puts, calls |-> Busy(S).calls,
      leaf_num |-> IF Cardinality(S) = 7 THEN (IF 28 \in S THEN 1 ELSE 3)
                   ELSE IF S = {0} THEN 8 ELSE 6,
      leaf_region_size |-> 30]]
=============================================================================
