-------------------------- MODULE MCLeafTableConc --------------------------
(***************************************************************************)
(* Small leaf tables for LeafTableConc: leaves of two slots, one or two    *)
(* entries, and threads with a few calls each.                             *)
(***************************************************************************)
EXTENDS LeafTableConc, TLC

CONSTANTS t1, t2, t3

\* An unwritten synonym slot is zero or something wild.
ZeroOrWild == {[leaf_num |-> 0, synonym_leaf |-> 0],
               [leaf_num |-> Pool + 1, synonym_leaf |-> SynonymMax]}

\* which operations t1, t2, t3 call, or with which keys
Crew(a, b, c) == t1 :> a @@ t2 :> b @@ t3 :> c
All(targets) == Crew(targets, targets, targets)

\* one entry and no model error: every key is predicted in entry 0
OneEntry(chain, leaf_keys, ops, targets, n) ==
  [chains |-> [i \in {0} |-> chain], leaf_keys |-> leaf_keys,
   lo |-> [k \in Keys |-> 0], hi |-> [k \in Keys |-> 0],
   ops |-> ops, targets |-> targets, calls |-> n]

\* two full entries, of which the model predicts both for every key
TwoEntries(ops, targets, n) ==
  [chains |-> [i \in {0, 1} |-> <<>>], leaf_keys |-> <<<<1, 3>>, <<5, 7>>>>,
   lo |-> [k \in Keys |-> 0], hi |-> [k \in Keys |-> 1],
   ops |-> ops, targets |-> targets, calls |-> n]

Full == <<<<1, 3>>>>                 \* one full leaf
FullChain == <<<<1, 3>>, <<5, 7>>>>  \* and a full synonym leaf

\* two synonym leaves; one more split makes the synonym table full
LastSlot == <<<<0, 3>>, <<4, 6>>, <<7>>>>

\* The loads under which every thread is served as it was promised.
SoundLoads ==
  <<\* two threads insert, then three with one synonym slot left
    OneEntry(<<>>, Full, Crew({"insert"}, {"insert"}, {}), All({0, 2, 3, 4}), 2),
    OneEntry(<<1, 2>>, LastSlot, Crew({"insert"}, {"insert"}, {"insert"}),
             All({1, 5, 7}), 1),
    \* one thread does everything
    OneEntry(<<1>>, FullChain,
             Crew({"insert", "update", "remove", "search"}, {}, {}),
             All({0, 2, 3, 4, 5}), 4),
    TwoEntries(Crew({"insert", "update", "search"}, {}, {}), All({0, 3, 4, 6}), 3),
    \* one removes beside a search; no key is looked for that a remove of a smaller
    \* one moves, which the search may miss or take the wrong value of
    OneEntry(<<1, 2>>, <<<<1, 3>>, <<4>>, <<5, 7>>>>,
             Crew({"remove"}, {"search"}, {}),
             Crew({3, 4, 5, 7}, {1, 3, 4, 5}, {}), 2)>>

\* inserts into two entries, under two locks
TwoLocksLoad == <<TwoEntries(Crew({"insert"}, {"insert"}, {}), All({2, 6}), 1)>>

\* an insert and a remove in one leaf
InsertRemoveLoad ==
  <<OneEntry(<<>>, Full, Crew({"insert", "remove"}, {"insert", "remove"}, {}),
             All({1, 2, 3}), 1)>>
=============================================================================
