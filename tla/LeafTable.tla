------------------------------ MODULE LeafTable ------------------------------
(***************************************************************************)
(* rolex/leaf_table.hpp, called by one thread at a time: the leaf table of *)
(* one submodel and its synonym table, as operators on                     *)
(*                                                                         *)
(*    lt = [table, syn, next]                                              *)
(*                                                                         *)
(* table[i] and syn[s] are the TableEntry fields [leaf_num, synonym_leaf]; *)
(* next is SynonymTable[0].leaf_num, the next free synonym slot, and       *)
(* syn is defined on the slots below it (the others are uninitialised).    *)
(* mem is the leaf region: leaf number -> leaf. The threads, their locks   *)
(* and the order of the stores are LeafTableConc's.                        *)
(***************************************************************************)
EXTENDS Leaf

CONSTANT SynonymMax       \* kSynonymMax: the synonym slots are 1 .. SynonymMax-1

ASSUME SynonymAssumption == SynonymMax \in Nat /\ SynonymMax > 1

TE(leaf_num, synonym_leaf) ==
  [leaf_num |-> leaf_num, synonym_leaf |-> synonym_leaf]

\* LeafTable() and one train_emplace_back per leaf of the training
NewTable(leaf_nums) ==
  [table |-> [i \in 0 .. Len(leaf_nums) - 1 |-> TE(leaf_nums[i + 1], 0)],
   syn   |-> <<>>,
   next  |-> 1]

\* faulty: the last slot of the array given out
FullAtEnd(lt) == lt.next = SynonymMax

Full(lt) == lt.next = SynonymMax - 1

\* s_leaves: the synonym slots of entry i, in the order of the links
Chain(lt, i) ==
  LET from[s \in 0 .. lt.next - 1] ==
        IF s = 0 THEN <<>> ELSE <<s>> \o from[lt.syn[s].synonym_leaf]
  IN  from[lt.table[i].synonym_leaf]

\* The leaves of entry i: its own at 0, then its synonym leaves.
LeafNum(lt, i, p) ==
  IF p = 0 THEN lt.table[i].leaf_num ELSE lt.syn[Chain(lt, i)[p]].leaf_num

\* Which entry a key belongs to: the last one of lo+1 .. hi whose leaf takes it,
\* lo when none does.
Entry(lt, mem, k, lo, hi) ==
  LET here == {i \in lo + 1 .. hi : insertHere(mem[lt.table[i].leaf_num], k)}
  IN  IF here = {} THEN lo ELSE Greatest(here)

\* faulty: the chain walked from the front
PlaceFromFront(lt, mem, k, i) ==
  LET c == Chain(lt, i)
      here == {p \in DOMAIN c : insertHere(mem[lt.syn[c[p]].leaf_num], k)}
  IN  IF here = {} THEN 0 ELSE Least(here)

\* Which leaf of entry i: the last synonym leaf that takes it, the entry's own
\* leaf when none does.
Place(lt, mem, k, i) ==
  LET c == Chain(lt, i)
      here == {p \in DOMAIN c : insertHere(mem[lt.syn[c[p]].leaf_num], k)}
  IN  IF here = {} THEN 0 ELSE Greatest(here)

\* search and search_synonym: the entry's leaf, then the synonym leaves from the
\* last to the first, until one has the key.
Search(lt, mem, k, lo, hi) ==
  LET i == Entry(lt, mem, k, lo, hi)
      c == Chain(lt, i)
      hits == {p \in DOMAIN c : contain(mem[lt.syn[c[p]].leaf_num], k)}
      base == mem[lt.table[i].leaf_num]
  IN  IF contain(base, k) THEN search(base, k)
      ELSE IF hits = {} THEN NoVal
      ELSE search(mem[lt.syn[c[Greatest(hits)]].leaf_num], k)
-----------------------------------------------------------------------------
\* faulty: the slot filled and never linked
synonym_emplace_unlinked(lt, i, p, leaf_num) ==
  [table |-> lt.table,
   syn   |-> [s \in 1 .. lt.next |-> IF s = lt.next THEN TE(leaf_num, 0)
                                                    ELSE lt.syn[s]],
   next  |-> lt.next + 1]

\* synonym_emplace_back: slot `next` after place p of entry i. The caller has
\* seen that the table is not full.
synonym_emplace_back(lt, i, p, leaf_num) ==
  LET idx == lt.next
      prev == Chain(lt, i)[p]
      after == IF p = 0 THEN lt.table[i].synonym_leaf
                        ELSE lt.syn[prev].synonym_leaf
      grown == [s \in 1 .. idx |-> IF s = idx THEN TE(leaf_num, after)
                                              ELSE lt.syn[s]]
  IN  IF p = 0
        THEN [table |-> [lt.table EXCEPT ![i].synonym_leaf = idx],
              syn   |-> grown,
              next  |-> idx + 1]
        ELSE [table |-> lt.table,
              syn   |-> [grown EXCEPT ![prev].synonym_leaf = idx],
              next  |-> idx + 1]

\* faulty: a full leaf refuses the key instead of splitting
InsertUnsplit(lt, mem, used, k, v, lo, hi) ==
  LET i == Entry(lt, mem, k, lo, hi)
      cur == LeafNum(lt, i, Place(lt, mem, k, i))
      ok == ~ contain(mem[cur], k) /\ ~ isfull(mem[cur])
  IN  [lt |-> lt, used |-> used, ok |-> ok,
       mem |-> IF ok THEN [mem EXCEPT ![cur] = insert_not_full(@, k, v)]
                     ELSE mem]

\* insert_synonym, from the first test to the unlock: the leaf table, the leaves
\* and the leaf counter after it, and what it returns. `used` is the number the
\* next fetch_new_leaf returns.
Insert(lt, mem, used, k, v, lo, hi) ==
  LET i == Entry(lt, mem, k, lo, hi)
      p == Place(lt, mem, k, i)
      cur == LeafNum(lt, i, p)
      refused == [lt |-> lt, mem |-> mem, used |-> used, ok |-> FALSE]
      low == lower_half(mem[cur])
      high == upper_half(mem[cur])
  IN  IF Full(lt) \/ contain(mem[cur], k) THEN refused
      ELSE IF ~ isfull(mem[cur])
        THEN [lt |-> lt, used |-> used, ok |-> TRUE,
              mem |-> [mem EXCEPT ![cur] = insert_not_full(@, k, v)]]
        ELSE [lt |-> synonym_emplace_back(lt, i, p, used),
              used |-> used + 1, ok |-> TRUE,
              mem |-> IF insertHere(high, k)
                        THEN [mem EXCEPT ![cur] = low,
                                ![used] = insert_not_full(high, k, v)]
                        ELSE [mem EXCEPT ![cur] = insert_not_full(low, k, v),
                                ![used] = high]]

\* Whether that insert reaches fetch_new_leaf.
NeedsLeaf(lt, mem, k, lo, hi) ==
  LET i == Entry(lt, mem, k, lo, hi)
      cur == mem[LeafNum(lt, i, Place(lt, mem, k, i))]
  IN  ~ Full(lt) /\ ~ contain(cur, k) /\ isfull(cur)

\* update_synonym
Update(lt, mem, k, v, lo, hi) ==
  LET i == Entry(lt, mem, k, lo, hi)
      cur == LeafNum(lt, i, Place(lt, mem, k, i))
  IN  [mem |-> [mem EXCEPT ![cur] = update(@, k, v)],
       ok  |-> contain(mem[cur], k)]

\* faulty: the chain cut at the removed leaf
synonym_table_cut(lt, i, p) ==
  LET c == Chain(lt, i)
  IN  IF p = 1 THEN [lt EXCEPT !.table[i].synonym_leaf = 0]
               ELSE [lt EXCEPT !.syn[c[p - 1]].synonym_leaf = 0]

\* synonym_table_remove: the link to place p skips to the one after it.
synonym_table_remove(lt, i, p) ==
  LET c == Chain(lt, i)
      after == lt.syn[c[p]].synonym_leaf
  IN  IF p = 1 THEN [lt EXCEPT !.table[i].synonym_leaf = after]
               ELSE [lt EXCEPT !.syn[c[p - 1]].synonym_leaf = after]

\* remove_synonym: a synonym leaf that became empty is unlinked; its slot and
\* its leaf are never used again.
Remove(lt, mem, k, lo, hi) ==
  LET i == Entry(lt, mem, k, lo, hi)
      p == Place(lt, mem, k, i)
      cur == LeafNum(lt, i, p)
      left == remove(mem[cur], k)
  IN  [lt  |-> IF isEmpty(left) /\ p # 0 THEN synonym_table_remove(lt, i, p)
                                         ELSE lt,
       mem |-> [mem EXCEPT ![cur] = left],
       ok  |-> At(mem[cur], k) # {}]
-----------------------------------------------------------------------------
\* faulty: the last leaf of a chain left out
RangeFromShort(lt, mem, k, i, p) ==
  LET size == Len(Chain(lt, i))
      from[q \in p .. size + 1] ==
        IF q > 0 /\ q >= size THEN <<>>
        ELSE range(mem[LeafNum(lt, i, q)], k) \o from[q + 1]
  IN  from[p]

\* The values of places p .. of entry i from key k on, in the order of the chain
RangeFrom(lt, mem, k, i, p) ==
  LET size == Len(Chain(lt, i))
      from[q \in p .. size + 1] ==
        IF q > size THEN <<>>
        ELSE range(mem[LeafNum(lt, i, q)], k) \o from[q + 1]
  IN  from[p]

\* range, range_synonym and next_range: the values from k on, to the end of the
\* table; the caller keeps the first n. The scan starts in the last entry of
\* lo .. hi that takes k, at its last leaf that does, or at entry lo.
Range(lt, mem, k, lo, hi) ==
  LET T == DOMAIN lt.table
      here == {i \in lo .. hi : insertHere(mem[lt.table[i].leaf_num], k)}
      first == IF here = {} THEN lo ELSE Greatest(here)
      start == IF here = {} THEN 0 ELSE Place(lt, mem, k, first)
      scan[i \in T \cup {Greatest(T) + 1}] ==
        IF i \notin T THEN <<>>
        ELSE RangeFrom(lt, mem, k, i, IF i = first THEN start ELSE 0)
             \o scan[i + 1]
  IN  scan[first]
=============================================================================
