------------------------------ MODULE MCRolex ------------------------------
(***************************************************************************)
(* Rolex on small instances: leaves of two slots, synonym tables with two  *)
(* slots, models whose windows cover some of their leaves only.            *)
(***************************************************************************)
EXTENDS Rolex

CONSTANTS a, b        \* values

\* keys 1, 3, 5, 7, 9 in three leaves; the windows are 0..1, 0..2 and 1..2
FiveKeys == <<Model(1, 2, 0, <<1, 3, 5, 7, 9>>)>>

\* keys 1, 3, 5, 7 in two leaves: no key of a synonym leaf of leaf 1 has leaf 0 in
\* its window
FourKeys == <<Model(1, 2, 0, <<1, 3, 5, 7>>)>>

\* the same further apart: 9, 10 and 11 belong to leaf 1 and have leaf 0 in their
\* window
WideKeys == <<Model(1, 4, 0, <<1, 5, 9, 13>>)>>

\* two models with a gap between them, in which the second one predicts left of
\* its first key
TwoModels ==
  <<Model(1, 2, 0, <<1, 3, 5>>),
    Model(1, 1, -7, <<7, 8>>)>>

\* one leaf: the table of the repository's test, lo = hi = 0
OneLeaf == <<Model(1, 2, 0, <<1, 3>>)>>

SafeLoads ==
  <<[training |-> FiveKeys, writes |-> {0, 2, 3, 4, 6, 8, 9, 10}, removes |-> {},
     values |-> {a}],
    [training |-> TwoModels, writes |-> 0 .. 9, removes |-> {}, values |-> {a}],
    [training |-> FourKeys, writes |-> {2, 4, 6, 7}, removes |-> 4 .. 7,
     values |-> {a}],
    [training |-> OneLeaf, writes |-> {0, 2, 3}, removes |-> 0 .. 3,
     values |-> {a, b}]>>

StrandingLoad ==
  <<[training |-> WideKeys, writes |-> Keys, removes |-> 9 .. 11,
     values |-> {a}]>>
=============================================================================
