---------------------------- MODULE ModelRegion ----------------------------
(***************************************************************************)
(* rolex/model_allocator.hpp and the serialisation of a submodel: how the  *)
(* memory node lays its models out in the region that compute nodes read.  *)
(* The region is a function from word offsets to integers:                 *)
(*                                                                         *)
(*    0                       the number of models                         *)
(*    1 + i                   the last key of model i                      *)
(*    UpperWords / 2 + i      the offset of submodel i                     *)
(*    UpperWords ..           the submodels, each behind its length        *)
(*                                                                         *)
(* A key, an offset, a length and every field of a submodel is a word.     *)
(***************************************************************************)
EXTENDS SubModel

CONSTANTS UpperWords,     \* kUpperModel
          ModelWords      \* total_sz of the model region

ASSUME RegionAssumption ==
  /\ UpperWords \in Nat /\ UpperWords % 2 = 0 /\ UpperWords > 2
  /\ ModelWords \in Nat /\ ModelWords > UpperWords

\* The models are an index [keys, models] on both sides: model_keys and models.
NoIndex == [keys |-> <<>>, models |-> <<>>]
-----------------------------------------------------------------------------
\* A TableEntry as the word it is: leaf_num above the eight bits of synonym_leaf
Word(e) == e.leaf_num * SynonymMax + e.synonym_leaf
Unword(w) == TE(w \div SynonymMax, w % SynonymMax)

\* LeafTable::serialize: the size, the table, the synonym table. The slots from
\* next on hold whatever was there, 0 here: nobody reads them.
serialize_table(lt) ==
  LET size == Greatest(DOMAIN lt.table) + 1
  IN  <<size>>
      \o [i \in 1 .. size |-> Word(lt.table[i - 1])]
      \o [s \in 1 .. SynonymMax |->
            IF s = 1 THEN Word(TE(lt.next, 0))
            ELSE IF s <= lt.next THEN Word(lt.syn[s - 1]) ELSE 0]

\* faulty: the synonym table read one entry early
deserialize_table_early(w) ==
  LET size == w[1]
      syn(s) == Unword(w[size + 1 + s])
  IN  [table |-> [i \in 0 .. size - 1 |-> Unword(w[i + 2])],
       syn   |-> [s \in 1 .. syn(0).leaf_num - 1 |-> syn(s)],
       next  |-> syn(0).leaf_num]

deserialize_table(w) ==
  LET size == w[1]
      syn(s) == Unword(w[size + 2 + s])
  IN  [table |-> [i \in 0 .. size - 1 |-> Unword(w[i + 2])],
       syn   |-> [s \in 1 .. syn(0).leaf_num - 1 |-> syn(s)],
       next  |-> syn(0).leaf_num]

\* SubModel::serialize: slope and intercept, capacity, and the table behind its
\* length. A submodel is [num, den, icn, icd, capacity, lt].
serialize(m) ==
  LET table == serialize_table(m.lt)
  IN  <<m.num, m.den, m.icn, m.icd, m.capacity, Len(table)>> \o table

\* SubModel(seria). csLocks is not restored: a table that came this way has
\* nothing to lock.
deserialize(w) ==
  [num |-> w[1], den |-> w[2], icn |-> w[3], icd |-> w[4], capacity |-> w[5],
   lt  |-> deserialize_table(SubSeq(w, 7, 6 + w[6]))]

\* Rolex::serialize: its length, then every model behind its key and its length
serialize_index(index) ==
  LET part(i) == LET w == serialize(index.models[i])
                 IN  <<index.keys[i], Len(w)>> \o w
      parts[i \in 0 .. Len(index.models)] ==
        IF i = 0 THEN <<>> ELSE parts[i - 1] \o part(i)
      all == parts[Len(index.models)]
  IN  <<Len(all)>> \o all

\* Rolex(seria) and LearnedCache(seria): one model after the other until the end
deserialize_index(w) ==
  LET start[i \in 1 .. Len(w)] ==       \* cur_ptr, and where it stays at the end
        IF i = 1 THEN 2
        ELSE LET at == start[i - 1]
             IN  IF at > Len(w) THEN at ELSE at + 2 + w[at + 1]
      rounds == {i \in 1 .. Len(w) : start[i] <= Len(w)}
      model(at) == deserialize(SubSeq(w, at + 2, at + 1 + w[at + 1]))
  IN  [keys   |-> [i \in rounds |-> w[start[i]]],
       models |-> [i \in rounds |-> model(start[i])]]
-----------------------------------------------------------------------------
\* A ModelAllocator is its region, cur_alloc_sz and upper_alloc_num. The region
\* comes zeroed from mmap.
NewModelAllocator ==
  [mem |-> [w \in 0 .. ModelWords - 1 |-> 0], cur |-> UpperWords, num |-> 0]

max_upper_num == Least({UpperWords \div 2 - 1, UpperWords \div 2})

\* Whether the ASSERTs of alloc_submodel and alloc_upper let append_model through
Room(ma, blob) ==
  /\ ma.cur + Len(blob) + 1 <= ModelWords
  /\ ma.num <= max_upper_num

\* Rolex::append_model: the submodel behind its length at cur_alloc_sz, then its
\* key and its offset as entry upper_alloc_num, in this order.
append(ma, key, blob) ==
  LET off == ma.cur
      at(w) == w - off
  IN  [mem |-> [w \in DOMAIN ma.mem |->
                  IF w = UpperWords \div 2 + ma.num THEN off
                  ELSE IF w = 1 + ma.num THEN key
                  ELSE IF w = off THEN Len(blob)
                  ELSE IF at(w) \in DOMAIN blob THEN blob[at(w)]
                  ELSE ma.mem[w]],
       cur |-> off + Len(blob) + 1, num |-> ma.num + 1]

\* n words of the region from off on, copied or read over the model queue pair
read_syn(mem, off, n) == [w \in 1 .. n |-> mem[off + w - 1]]

\* Rolex::deserialize and LearnedCache::read_remote_index: the number of models,
\* their keys and offsets, and what is behind every offset.
read_index(mem) ==
  LET total == mem[0]
      offs == read_syn(mem, UpperWords \div 2, total)
  IN  [keys   |-> read_syn(mem, 1, total),
       models |-> [i \in 1 .. total |->
                     deserialize(read_syn(mem, offs[i] + 1, mem[offs[i]]))]]
=============================================================================
