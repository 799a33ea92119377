---------------------------- MODULE LeafTableConc ----------------------------
(***************************************************************************)
(* rolex/leaf_table.hpp with several threads in it: the leaf table of one  *)
(* submodel, as the workers of the benchmark and the RPC callbacks of the  *)
(* server use it. A call is the sequence of the code's accesses to shared  *)
(* memory, in the order of the code:                                       *)
(*                                                                         *)
(*   insert  route test cslock first collect choose look                   *)
(*             [fetch emplace take bump link fill move]                    *)
(*             shiftkeys shiftvals putkey putval csunlock                  *)
(*   update  route seelock setlock first collect choose find putval        *)
(*             clearlock                                                   *)
(*   remove  route seelock setlock first collect choose find dropkey ...   *)
(*             dropval ... droplast unlink clearlock                       *)
(*   search  route base [probe ... seeval]                                 *)
(*             first collect scan [probe ... seeval]                       *)
(*                                                                         *)
(* insert holds csLocks[i]; update and remove hold the lock bit of the     *)
(* table entry, which they take by a test and a store; search holds        *)
(* nothing: it reads a leaf slot by slot, and a remove beside it moves the *)
(* keys, and then the values, slot by slot. What a call does to a leaf     *)
(* under a lock is otherwise one step for a scan (look, find) and one for  *)
(* the shift of an array (shiftkeys, shiftvals) or of half a leaf (move).  *)
(* As in the benchmark, a key's value is the key.                          *)
(***************************************************************************)
EXTENDS Integers, Sequences, FiniteSets

CONSTANTS Threads,
          N,             \* slots of a leaf
          InvalidKey,    \* the key of an unused slot, above all keys
          SynonymMax,    \* kSynonymMax
          Pool,          \* the leaves of the region
          Garbage,       \* what a synonym slot may hold before it is written
          Loads          \* a sequence of loads, one of which the table is put
                         \* under: the synonym slots of every entry and the keys
                         \* of leaf 0, 1, ... at the start [chains, leaf_keys],
                         \* the entries the model predicts for a key [lo, hi],
                         \* the operations each thread calls, with its keys,
                         \* and the bound on its calls [ops, targets, calls]

ASSUME ConcAssumption ==
  /\ N \in Nat /\ N > 1 /\ InvalidKey \in Nat /\ SynonymMax \in Nat
  /\ \A n \in DOMAIN Loads :
       Loads[n].ops \in [Threads -> SUBSET {"insert", "update", "remove", "search"}]

Keys == 0 .. InvalidKey - 1
Slots == 0 .. N - 1
Indexes == 1 .. SynonymMax - 1
NoVal == InvalidKey        \* what an unwritten val holds: no key's value

Least(S) == CHOOSE x \in S : \A y \in S : x <= y
Greatest(S) == CHOOSE x \in S : \A y \in S : x >= y

\* A table that training and earlier inserts can have left, and a window that the
\* model may give: one leaf per entry, then one per synonym slot in use, each slot
\* in one chain; the keys of a leaf increase, and so do the leaves of a chain.
Started(ld) ==
  LET entries == DOMAIN ld.chains
      slots == 1 .. Len(ld.leaf_keys) - Cardinality(entries)
      leaf(s) == ld.leaf_keys[Cardinality(entries) + s]
      below(ks, ls) == \A x \in DOMAIN ks, y \in DOMAIN ls : ks[x] < ls[y]
  IN  /\ IsFiniteSet(entries) /\ Cardinality(entries) > 0
      /\ entries = 0 .. Cardinality(entries) - 1
      /\ Len(ld.leaf_keys) >= Cardinality(entries) /\ Len(ld.leaf_keys) <= Pool
      /\ slots \subseteq 1 .. SynonymMax - 2
      /\ ld.leaf_keys \in Seq(Seq(Keys))
      /\ \A j \in DOMAIN ld.leaf_keys :
           LET ks == ld.leaf_keys[j]
           IN  Len(ks) <= N /\ \A x, y \in DOMAIN ks : x < y => ks[x] < ks[y]
      /\ ld.chains \in [entries -> Seq(slots)]
      /\ \A s \in slots : \E i \in entries : \E p \in DOMAIN ld.chains[i] : ld.chains[i][p] = s
      /\ \A i, j \in entries : \A p \in DOMAIN ld.chains[i], q \in DOMAIN ld.chains[j] :
           ld.chains[i][p] = ld.chains[j][q] => i = j /\ p = q
      /\ \A i \in entries : \A p \in DOMAIN ld.chains[i] :
           /\ below(ld.leaf_keys[i + 1], leaf(ld.chains[i][p]))
           /\ \A q \in 1 .. p - 1 : below(leaf(ld.chains[i][q]), leaf(ld.chains[i][p]))
      /\ \A k \in Keys : ld.lo[k] \in entries /\ ld.hi[k] \in ld.lo[k] .. Cardinality(entries) - 1
      /\ ld.targets \in [Threads -> SUBSET Keys]

ASSUME StartAssumption ==
  /\ SynonymMax > 1 /\ Pool \in Nat
  /\ Garbage \subseteq [leaf_num : 0 .. Pool + 1, synonym_leaf : 0 .. SynonymMax]
  /\ \A n \in DOMAIN Loads : Started(Loads[n])

VARIABLES load,        \* the load it is under; it never changes
          table,       \* table[i]: [leaf_num, synonym_leaf, lock]
          syn,         \* SynonymTable[s], s > 0
          next,        \* SynonymTable[0].leaf_num
          keys, vals,  \* the two arrays of every leaf
          used,        \* used_num(); LeafAllocator implements an atomic draw
          csLocks,     \* csLocks[i]: busy or not
          pc,          \* what each thread does next
          my,          \* its locals
          calls,       \* how many calls it has begun
          present      \* history: the keys that answers say are in the index

shared == <<table, syn, next, keys, vals, used, csLocks>>
vars == <<load, shared, pc, my, calls, present>>

Idle == [op |-> "none", key |-> 0, i |-> 0, s |-> 0, chain |-> <<>>, p |-> 0,
         idx |-> 0, cur |-> 0, new |-> 0, at |-> 0,
         ok |-> FALSE, there |-> FALSE]
-----------------------------------------------------------------------------
Load == Loads[load]
Chains == Load.chains
Entries == DOMAIN Chains
LeafKeys == Load.leaf_keys

\* The table as training and earlier inserts left it: leaf i is entry i's, the
\* leaves from T on are those of the synonym slots 1, 2, ... in use.
T == Cardinality(Entries)
StartSlots == Len(LeafKeys) - T

\* the slot after slot s in the chain it is in
Follower(s) ==
  LET before(i, p) == p < Len(Chains[i]) /\ Chains[i][p] = s
  IN  IF \E i \in Entries, p \in Indexes : before(i, p)
        THEN LET at == CHOOSE ip \in Entries \X Indexes : before(ip[1], ip[2])
             IN  Chains[at[1]][at[2] + 1]
        ELSE 0

StartLeaf(n) ==
  LET ks == IF n < Len(LeafKeys) THEN LeafKeys[n + 1] ELSE <<>>
  IN  [x \in Slots |-> IF x < Len(ks) THEN ks[x + 1] ELSE InvalidKey]

Init ==
  /\ load \in DOMAIN Loads
  /\ table = [i \in Entries |->
       [leaf_num |-> i, lock |-> 0,
        synonym_leaf |-> IF Chains[i] = <<>> THEN 0 ELSE Chains[i][1]]]
  /\ \E te \in Garbage :
       syn = [s \in Indexes |->
         IF s > StartSlots THEN te
         ELSE [leaf_num |-> T + s - 1, synonym_leaf |-> Follower(s)]]
  /\ next = StartSlots + 1
  /\ keys = [n \in 0 .. Pool - 1 |-> StartLeaf(n)]
  /\ vals = keys
  /\ used = Len(LeafKeys)
  /\ csLocks = [i \in Entries |-> FALSE]
  /\ pc = [t \in Threads |-> "idle"]
  /\ my = [t \in Threads |-> Idle]
  /\ calls = [t \in Threads |-> 0]
  /\ present = UNION {{ks[x] : x \in DOMAIN ks} :
                       ks \in {LeafKeys[n] : n \in DOMAIN LeafKeys}}
-----------------------------------------------------------------------------
\* Thread t goes from one step to another; an ASSERT or a wild access that
\* another thread ran into has stopped the process.
Running == \A t \in Threads : pc[t] # "crashed"

At(t, step) == Running /\ pc[t] = step
Goto(t, step) == pc' = [pc EXCEPT ![t] = step]
Local(t, field, value) == my' = [my EXCEPT ![t][field] = value]
Frame == UNCHANGED <<load, calls, present>>

insertHere(n, k) == k >= keys[n][0]
found(n, k) == {x \in Slots : keys[n][x] = k}
contain(n, k) == keys[n][0] <= k /\ found(n, k) # {}

\* A call begins, the leaf search from the last predicted entry down.
Begin(t, op, k) ==
  /\ At(t, "idle")
  /\ calls[t] < Load.calls
  /\ calls' = [calls EXCEPT ![t] = @ + 1]
  /\ my' = [my EXCEPT ![t] = [Idle EXCEPT !.op = op, !.key = k, !.i = Load.hi[k],
                                          !.there = k \in present]]
  /\ Goto(t, "route")
  /\ UNCHANGED <<load, shared, present>>

\* A call returns `ok`; the benchmark drops the answer, the history keeps it.
\* A key leaves `present` when a remove of it sets out (see SetLock).
Return(t, ok) ==
  /\ my' = [my EXCEPT ![t] = Idle]
  /\ present' = IF my[t].op = "insert" /\ ok THEN present \cup {my[t].key}
                                             ELSE present
  /\ Goto(t, "idle")
  /\ UNCHANGED <<load, calls>>

\* One leaf of hi .. lo+1 per step; lo itself is taken without looking.
Route(t) ==
  LET m == my[t]
      here == m.i = Load.lo[m.key] \/ insertHere(table[m.i].leaf_num, m.key)
  IN  /\ At(t, "route")
      /\ IF here
           THEN /\ Goto(t, CASE m.op = "insert" -> "test"
                             [] m.op = "search" -> "base"
                             [] OTHER -> "seelock")
                /\ UNCHANGED my
           ELSE Local(t, "i", m.i - 1) /\ UNCHANGED pc
      /\ UNCHANGED shared /\ Frame
-----------------------------------------------------------------------------
\* insert_synonym: the first test of the synonym table, before the lock
Test(t) ==
  /\ At(t, "test")
  /\ UNCHANGED shared
  /\ IF next = SynonymMax - 1 THEN Return(t, FALSE)
                              ELSE Goto(t, "cslock") /\ UNCHANGED my /\ Frame

\* faulty: the lock taken whether it is free or not
CsLockBlind(t) ==
  /\ At(t, "cslock")
  /\ csLocks' = [csLocks EXCEPT ![my[t].i] = TRUE]
  /\ Goto(t, "first")
  /\ UNCHANGED <<table, syn, next, keys, vals, used, my>> /\ Frame

CsLock(t) ==
  /\ At(t, "cslock")
  /\ ~ csLocks[my[t].i]
  /\ csLocks' = [csLocks EXCEPT ![my[t].i] = TRUE]
  /\ Goto(t, "first")
  /\ UNCHANGED <<table, syn, next, keys, vals, used, my>> /\ Frame

\* faulty: the exit for a key that is there forgets the unlock
CsUnlockAdded(t) ==
  /\ At(t, "csunlock")
  /\ csLocks' = [csLocks EXCEPT ![my[t].i] = ~ my[t].ok]
  /\ Return(t, my[t].ok)
  /\ UNCHANGED <<table, syn, next, keys, vals, used>>

CsUnlock(t) ==
  /\ At(t, "csunlock")
  /\ csLocks' = [csLocks EXCEPT ![my[t].i] = FALSE]
  /\ Return(t, my[t].ok)
  /\ UNCHANGED <<table, syn, next, keys, vals, used>>

\* lock_leaf: while (table[idx].lock != 0) ...
SeeLock(t) ==
  /\ At(t, "seelock")
  /\ table[my[t].i].lock = 0
  /\ Goto(t, "setlock")
  /\ UNCHANGED <<shared, my>> /\ Frame

\* ... table[idx].lock = 1
SetLock(t) ==
  /\ At(t, "setlock")
  /\ table' = [table EXCEPT ![my[t].i].lock = 1]
  /\ present' = IF my[t].op = "remove" THEN present \ {my[t].key} ELSE present
  /\ Goto(t, "first")
  /\ UNCHANGED <<syn, next, keys, vals, used, csLocks, load, my, calls>>

\* unlock_leaf
ClearLock(t) ==
  /\ At(t, "clearlock")
  /\ table' = [table EXCEPT ![my[t].i].lock = 0]
  /\ Return(t, my[t].ok)
  /\ UNCHANGED <<syn, next, keys, vals, used, csLocks>>
-----------------------------------------------------------------------------
\* s_idx = table[l_idx].synonym_leaf
First(t) ==
  /\ At(t, "first")
  /\ Local(t, "s", table[my[t].i].synonym_leaf)
  /\ Goto(t, "collect")
  /\ UNCHANGED shared /\ Frame

\* faulty: the walk back starts one past the end
CollectPastEnd(t) ==
  LET m == my[t]
  IN  /\ At(t, "collect")
      /\ IF m.s = 0
           THEN /\ my' = [my EXCEPT ![t].p = Len(m.chain) + 1]
                /\ Goto(t, IF m.op = "search" THEN "scan" ELSE "choose")
           ELSE /\ my' = [my EXCEPT ![t].chain = Append(@, m.s),
                                    ![t].s = syn[m.s].synonym_leaf]
                /\ UNCHANGED pc
      /\ UNCHANGED shared /\ Frame

\* One synonym slot per step. A chain longer than the table has a cycle, and the
\* loop never ends; an index past the array reads whatever lies there.
Collect(t) ==
  LET m == my[t]
      size == Len(m.chain)
  IN  /\ At(t, "collect")
      /\ IF m.s = 0
           THEN /\ my' = [my EXCEPT ![t].p = size]
                /\ Goto(t, IF m.op = "search" THEN "scan" ELSE "choose")
           ELSE IF size = SynonymMax THEN Goto(t, "looping") /\ UNCHANGED my
           ELSE IF m.s \notin Indexes THEN Goto(t, "crashed") /\ UNCHANGED my
           ELSE /\ my' = [my EXCEPT ![t].chain = Append(@, m.s),
                                    ![t].s = syn[m.s].synonym_leaf]
                /\ UNCHANGED pc
      /\ UNCHANGED shared /\ Frame

\* The leaf of place p of the chain the thread collected, its own leaf at 0
LeafAt(t) ==
  LET m == my[t] IN IF m.p = 0 THEN table[m.i].leaf_num
                               ELSE syn[m.chain[m.p]].leaf_num

\* get_leaf: ASSERT(num <= used_num()), which lets the end of the region pass
Absent(n) == n > used \/ n = Pool

\* From the back, the first leaf that takes the key; the entry's leaf if none
Choose(t) ==
  LET m == my[t]
      n == LeafAt(t)
  IN  /\ At(t, "choose")
      /\ IF Absent(n) THEN Goto(t, "crashed") /\ UNCHANGED my
         ELSE IF m.p = 0 \/ insertHere(n, m.key)
           THEN /\ my' = [my EXCEPT ![t].cur = n,
                            ![t].idx = IF m.p = 0 THEN 0 ELSE m.chain[m.p]]
                /\ Goto(t, IF m.op = "insert" THEN "look" ELSE "find")
           ELSE Local(t, "p", m.p - 1) /\ UNCHANGED pc
      /\ UNCHANGED shared /\ Frame
-----------------------------------------------------------------------------
\* faulty: no second test of the synonym table
LookUntested(t) ==
  LET m == my[t]
      full == keys[m.cur][N - 1] # InvalidKey
  IN  /\ At(t, "look")
      /\ Local(t, "ok", ~ contain(m.cur, m.key))
      /\ Goto(t, IF contain(m.cur, m.key) THEN "csunlock"
                 ELSE IF full THEN "fetch" ELSE "shiftkeys")
      /\ UNCHANGED shared /\ Frame

\* contain(key) and isfull(), and the second test of the synonym table
Look(t) ==
  LET m == my[t]
      full == keys[m.cur][N - 1] # InvalidKey
      refused == contain(m.cur, m.key) \/ (full /\ next = SynonymMax - 1)
  IN  /\ At(t, "look")
      /\ Local(t, "ok", ~ refused)
      /\ Goto(t, IF refused THEN "csunlock"
                 ELSE IF full THEN "fetch" ELSE "shiftkeys")
      /\ UNCHANGED shared /\ Frame

\* fetch_new_leaf; the pool runs out with an ASSERT
Fetch(t) ==
  /\ At(t, "fetch")
  /\ IF used = Pool
       THEN Goto(t, "crashed") /\ UNCHANGED <<used, my>>
       ELSE Goto(t, "emplace") /\ used' = used + 1 /\ Local(t, "new", used)
  /\ UNCHANGED <<table, syn, next, keys, vals, csLocks>> /\ Frame

\* synonym_emplace_back: the third test; its "return 0" is not looked at.
Emplace(t) ==
  /\ At(t, "emplace")
  /\ Goto(t, IF next = SynonymMax - 1 THEN "move" ELSE "take")
  /\ UNCHANGED <<shared, my>> /\ Frame

\* idx = SynonymTable[0].leaf_num++, a read ...
Take(t) ==
  /\ At(t, "take")
  /\ Local(t, "s", next)
  /\ Goto(t, "bump")
  /\ UNCHANGED shared /\ Frame

\* ... and a store
Bump(t) ==
  /\ At(t, "bump")
  /\ next' = my[t].s + 1
  /\ Goto(t, "link")
  /\ UNCHANGED <<table, syn, keys, vals, used, csLocks, my>> /\ Frame

\* te takes the link of the leaf that splits, whose link becomes idx; local `at`
\* is te.synonym_leaf.
Link(t) ==
  LET m == my[t]
  IN  /\ At(t, "link")
      /\ IF m.idx = 0
           THEN /\ Local(t, "at", table[m.i].synonym_leaf)
                /\ table' = [table EXCEPT ![m.i].synonym_leaf = m.s]
                /\ UNCHANGED syn
           ELSE /\ Local(t, "at", syn[m.idx].synonym_leaf)
                /\ syn' = [syn EXCEPT ![m.idx].synonym_leaf = m.s]
                /\ UNCHANGED table
      /\ Goto(t, "fill")
      /\ UNCHANGED <<next, keys, vals, used, csLocks>> /\ Frame

\* faulty: the entry linked and never stored
FillForgotten(t) ==
  /\ At(t, "fill")
  /\ Goto(t, "move")
  /\ UNCHANGED <<shared, my>> /\ Frame

\* SynonymTable[idx] = te; past the array when the counter ran over its limit
Fill(t) ==
  LET m == my[t]
  IN  /\ At(t, "fill")
      /\ IF m.s \in Indexes
           THEN /\ syn' = [syn EXCEPT ![m.s] = [leaf_num |-> m.new,
                                                synonym_leaf |-> m.at]]
                /\ Goto(t, "move")
           ELSE UNCHANGED syn /\ Goto(t, "crashed")
      /\ UNCHANGED <<table, next, keys, vals, used, csLocks, my>> /\ Frame

\* The upper half of cur moves to the new leaf, which takes the key or not.
Move(t) ==
  LET m == my[t]
      half == N \div 2
      moved(a) == [x \in Slots |-> IF x < half THEN a[m.cur][half + x]
                                               ELSE a[m.new][x]]
      left == [x \in Slots |-> IF half <= x /\ x < 2 * half THEN InvalidKey
                                                            ELSE keys[m.cur][x]]
  IN  /\ At(t, "move")
      /\ keys' = [keys EXCEPT ![m.new] = moved(keys), ![m.cur] = left]
      /\ vals' = [vals EXCEPT ![m.new] = moved(vals)]
      /\ IF m.key >= keys[m.cur][half] THEN Local(t, "cur", m.new)
                                       ELSE UNCHANGED my
      /\ Goto(t, "shiftkeys")
      /\ UNCHANGED <<table, syn, next, used, csLocks>> /\ Frame
-----------------------------------------------------------------------------
\* insert_not_full: the slots i .. j-1 of one array move up, i the first key not
\* below k and j the first unused slot from there on. It does nothing when the
\* leaf is full or has the key.
ShiftUp(a, i, j) ==
  [x \in Slots |-> IF i < x /\ x <= j THEN a[x - 1] ELSE a[x]]

\* faulty: the key added after the others
ShiftKeysNot(t) ==
  LET m == my[t]
      unused == {x \in Slots : keys[m.cur][x] = InvalidKey}
  IN  /\ At(t, "shiftkeys")
      /\ my' = [my EXCEPT ![t].at = Least(unused), ![t].s = Least(unused)]
      /\ Goto(t, "shiftvals")
      /\ UNCHANGED shared /\ Frame

ShiftKeys(t) ==
  LET m == my[t]
      above == {x \in Slots : keys[m.cur][x] >= m.key}
      i == Least(above)
      unused == {x \in Slots : x >= i /\ keys[m.cur][x] = InvalidKey}
      j == Least(unused)
  IN  /\ At(t, "shiftkeys")
      /\ IF above = {} \/ unused = {} \/ found(m.cur, m.key) # {}
           THEN Goto(t, "csunlock") /\ UNCHANGED <<keys, my>>
           ELSE /\ keys' = [keys EXCEPT ![m.cur] = ShiftUp(@, i, j)]
                /\ my' = [my EXCEPT ![t].at = i, ![t].s = j]
                /\ Goto(t, "shiftvals")
      /\ UNCHANGED <<table, syn, next, vals, used, csLocks>> /\ Frame

ShiftVals(t) ==
  LET m == my[t]
  IN  /\ At(t, "shiftvals")
      /\ vals' = [vals EXCEPT ![m.cur] = ShiftUp(@, m.at, m.s)]
      /\ Goto(t, "putkey")
      /\ UNCHANGED <<table, syn, next, keys, used, csLocks, my>> /\ Frame

PutKey(t) ==
  /\ At(t, "putkey")
  /\ keys' = [keys EXCEPT ![my[t].cur][my[t].at] = my[t].key]
  /\ Goto(t, "putval")
  /\ UNCHANGED <<table, syn, next, vals, used, csLocks, my>> /\ Frame

\* vals[i] = val, the last store of an insert and of an update
PutVal(t) ==
  /\ At(t, "putval")
  /\ vals' = [vals EXCEPT ![my[t].cur][my[t].at] = my[t].key]
  /\ Goto(t, IF my[t].op = "insert" THEN "csunlock" ELSE "clearlock")
  /\ UNCHANGED <<table, syn, next, keys, used, csLocks, my>> /\ Frame
-----------------------------------------------------------------------------
\* faulty: the key taken to be where it would be
FindNearest(t) ==
  LET m == my[t]
      above == {x \in Slots : keys[m.cur][x] >= m.key}
      i == IF above = {} THEN 0 ELSE Least(above)
  IN  /\ At(t, "find")
      /\ my' = [my EXCEPT ![t].ok = above # {}, ![t].at = i, ![t].s = i]
      /\ Goto(t, CASE m.op = "update" /\ above # {} -> "putval"
                   [] m.op = "update" /\ above = {} -> "clearlock"
                   [] m.op = "remove" /\ above # {} -> "dropkey"
                   [] OTHER -> "unlink")
      /\ UNCHANGED shared /\ Frame

\* update() and remove() look for the key; only update compares with keys[0].
Find(t) ==
  LET m == my[t]
      there == IF m.op = "update" THEN contain(m.cur, m.key)
                                  ELSE found(m.cur, m.key) # {}
      i == IF there THEN Least(found(m.cur, m.key)) ELSE 0
  IN  /\ At(t, "find")
      /\ my' = [my EXCEPT ![t].ok = there, ![t].at = i, ![t].s = i]
      /\ Goto(t, CASE m.op = "update" /\ there -> "putval"
                   [] m.op = "update" /\ ~ there -> "clearlock"
                   [] m.op = "remove" /\ there -> "dropkey"
                   [] OTHER -> "unlink")
      /\ UNCHANGED shared /\ Frame

\* std::copy(keys+i+1, keys+N, keys+i), slot by slot; local `s` is the next slot ...
DropKey(t) ==
  LET m == my[t]
  IN  /\ At(t, "dropkey")
      /\ IF m.s < N - 1
           THEN /\ keys' = [keys EXCEPT ![m.cur][m.s] = keys[m.cur][m.s + 1]]
                /\ Local(t, "s", m.s + 1)
                /\ UNCHANGED pc
           ELSE Local(t, "s", m.at) /\ Goto(t, "dropval") /\ UNCHANGED keys
      /\ UNCHANGED <<table, syn, next, vals, used, csLocks>> /\ Frame

\* ... and then the values
DropVal(t) ==
  LET m == my[t]
  IN  /\ At(t, "dropval")
      /\ IF m.s < N - 1
           THEN /\ vals' = [vals EXCEPT ![m.cur][m.s] = vals[m.cur][m.s + 1]]
                /\ Local(t, "s", m.s + 1)
                /\ UNCHANGED pc
           ELSE Goto(t, "droplast") /\ UNCHANGED <<vals, my>>
      /\ UNCHANGED <<table, syn, next, keys, used, csLocks>> /\ Frame

DropLast(t) ==
  /\ At(t, "droplast")
  /\ keys' = [keys EXCEPT ![my[t].cur][N - 1] = InvalidKey]
  /\ Goto(t, "unlink")
  /\ UNCHANGED <<table, syn, next, vals, used, csLocks, my>> /\ Frame

\* faulty: a synonym leaf unlinked with keys in it
UnlinkAlways(t) ==
  LET m == my[t]
      after == syn[m.idx].synonym_leaf
  IN  /\ At(t, "unlink")
      /\ table' = IF m.idx # 0 /\ m.p = 1
                    THEN [table EXCEPT ![m.i].synonym_leaf = after] ELSE table
      /\ syn' = IF m.idx # 0 /\ m.p > 1
                  THEN [syn EXCEPT ![m.chain[m.p - 1]].synonym_leaf = after]
                  ELSE syn
      /\ Goto(t, "clearlock")
      /\ UNCHANGED <<next, keys, vals, used, csLocks, my>> /\ Frame

\* isEmpty(), and synonym_table_remove for a synonym leaf; `p` is its place.
Unlink(t) ==
  LET m == my[t]
      gone == m.idx # 0 /\ keys[m.cur][0] = InvalidKey
      after == syn[m.idx].synonym_leaf
  IN  /\ At(t, "unlink")
      /\ table' = IF gone /\ m.p = 1
                    THEN [table EXCEPT ![m.i].synonym_leaf = after] ELSE table
      /\ syn' = IF gone /\ m.p > 1
                  THEN [syn EXCEPT ![m.chain[m.p - 1]].synonym_leaf = after]
                  ELSE syn
      /\ Goto(t, "clearlock")
      /\ UNCHANGED <<next, keys, vals, used, csLocks, my>> /\ Frame
-----------------------------------------------------------------------------
\* The key is not in the leaf of slot s: the search goes on.
Missing(t, s) ==
  IF s = 0 THEN Goto(t, "first") /\ UNCHANGED my
           ELSE Local(t, "p", my[t].p - 1) /\ Goto(t, "scan")

\* Leaf::search on leaf n of synonym slot s, 0 for the entry's own leaf. A key below
\* keys[0] is not in it ...
See(t, n, s) ==
  IF insertHere(n, my[t].key)
    THEN /\ my' = [my EXCEPT ![t].cur = n, ![t].idx = s, ![t].at = 0]
         /\ Goto(t, "probe")
    ELSE Missing(t, s)

\* ... else the keys are read slot by slot, keys[0] once more ...
Probe(t) ==
  LET m == my[t]
  IN  /\ At(t, "probe")
      /\ IF keys[m.cur][m.at] = m.key THEN Goto(t, "seeval") /\ UNCHANGED my
         ELSE IF m.at < N - 1 THEN Local(t, "at", m.at + 1) /\ UNCHANGED pc
         ELSE Missing(t, m.idx)
      /\ UNCHANGED shared /\ Frame

\* ... and then the value, which local `at` is from here on.
SeeVal(t) ==
  /\ At(t, "seeval")
  /\ Local(t, "at", vals[my[t].cur][my[t].at])
  /\ Goto(t, "found")
  /\ UNCHANGED shared /\ Frame

\* search: the entry's own leaf first ...
Base(t) ==
  /\ At(t, "base")
  /\ See(t, table[my[t].i].leaf_num, 0)
  /\ UNCHANGED shared /\ Frame

\* ... then the chain it collects, from the back
Scan(t) ==
  /\ At(t, "scan")
  /\ IF my[t].p = 0 THEN Goto(t, "notfound") /\ UNCHANGED my
     ELSE IF Absent(LeafAt(t)) THEN Goto(t, "crashed") /\ UNCHANGED my
     ELSE See(t, LeafAt(t), my[t].chain[my[t].p])
  /\ UNCHANGED shared /\ Frame

Answer(t) ==
  /\ At(t, "found") \/ At(t, "notfound")
  /\ Return(t, pc[t] = "found")
  /\ UNCHANGED shared
-----------------------------------------------------------------------------
Step(t) ==
  \/ Route(t) \/ Test(t) \/ CsLock(t) \/ CsUnlock(t) \/ SeeLock(t)
  \/ SetLock(t) \/ ClearLock(t) \/ First(t) \/ Collect(t) \/ Choose(t)
  \/ Look(t) \/ Fetch(t) \/ Emplace(t) \/ Take(t) \/ Bump(t) \/ Link(t)
  \/ Fill(t) \/ Move(t) \/ ShiftKeys(t) \/ ShiftVals(t) \/ PutKey(t)
  \/ PutVal(t) \/ Find(t) \/ DropKey(t) \/ DropVal(t) \/ DropLast(t)
  \/ Unlink(t) \/ Base(t) \/ Probe(t) \/ SeeVal(t) \/ Scan(t) \/ Answer(t)

Next ==
  \E t \in Threads :
    \/ \E op \in Load.ops[t], k \in Load.targets[t] : Begin(t, op, k)
    \/ Step(t)

Spec == Init /\ [][Next]_vars

\* Every thread that is in a call keeps running it.
FairSpec == Spec /\ \A t \in Threads : WF_vars(Step(t))
-----------------------------------------------------------------------------
Quiet == \A t \in Threads : pc[t] = "idle"

TypeOK ==
  /\ \A i \in Entries : table[i].lock \in {0, 1} /\ table[i].leaf_num = i
  /\ \A s \in Indexes : syn[s].synonym_leaf \in 0 .. SynonymMax
                       /\ syn[s].leaf_num \in 0 .. Pool + 1
  /\ keys \in [0 .. Pool - 1 -> [Slots -> 0 .. InvalidKey]]
  /\ vals \in [0 .. Pool - 1 -> [Slots -> 0 .. InvalidKey]]
  /\ used \in T .. Pool
  /\ csLocks \in [Entries -> BOOLEAN]
  /\ \A t \in Threads : my[t].cur < Pool /\ my[t].p <= Len(my[t].chain)

\* The chain of entry i, followed as far as a table without a cycle goes
Links(i) ==
  LET from[d \in 0 .. SynonymMax] ==
        [s \in 0 .. SynonymMax |->
           IF s \notin Indexes \/ d = 0 THEN <<>>
           ELSE <<s>> \o from[d - 1][syn[s].synonym_leaf]]
  IN  from[SynonymMax][table[i].synonym_leaf]

LeafNums(i) == <<i>> \o [p \in 1 .. Len(Links(i)) |-> syn[Links(i)[p]].leaf_num]

\* What a call that runs alone finds: the entry a key is routed to, and its leaves
EntryFor(k) ==
  LET here == {i \in Load.lo[k] + 1 .. Load.hi[k] : insertHere(i, k)}
  IN  IF here = {} THEN Load.lo[k] ELSE Greatest(here)

Holders(k) ==
  {px \in (DOMAIN LeafNums(EntryFor(k))) \X Slots :
     keys[LeafNums(EntryFor(k))[px[1]]][px[2]] = k}

\* insert_synonym, remove_synonym: once every call has returned, each key that
\* the answers say is in the index is in one slot of its chain, with its value,
\* and no other key is.
IndexMatches ==
  Quiet => \A k \in Keys :
    IF k \in present
      THEN \E p \in DOMAIN LeafNums(EntryFor(k)), x \in Slots :
             /\ Holders(k) = {<<p, x>>}
             /\ vals[LeafNums(EntryFor(k))[p]][x] = k
      ELSE Holders(k) = {}

\* The answers of a thread that has the table to itself: insert adds what is not
\* there, update and remove take what is, search finds it with its value.
Alone(t) == \A s \in Threads \ {t} : Load.ops[s] = {}

AloneAnswers ==
  \A t \in Threads :
    LET m == my[t]
    IN  Alone(t) =>
        /\ pc[t] = "csunlock" => m.ok = ~ m.there
        /\ pc[t] = "clearlock" => m.ok = m.there
        /\ pc[t] = "found" => m.there /\ m.at = m.key

\* synonym_emplace_back: a synonym slot is given to one split only, and not to
\* one whose slot is already in a chain.
Splitting == {t \in Threads : pc[t] \in {"bump", "link"}}

SlotsGivenOnce ==
  \A t \in Splitting :
    /\ \A s \in Splitting : s # t => my[s].s # my[t].s
    /\ \A i \in Entries : \A p \in DOMAIN Links(i) : Links(i)[p] # my[t].s

\* insert_synonym: half of a leaf moves only to a leaf that the table links.
SplitsLinked ==
  \A t \in Threads :
    pc[t] = "move" => \E i \in Entries, p \in 1 .. Pool :
                        p \in DOMAIN LeafNums(i) /\ LeafNums(i)[p] = my[t].new

\* Collect and get_leaf: no call follows an uninitialised entry of the synonym
\* table, or goes round in a cycle of it.
NoWildWalk == \A t \in Threads : pc[t] \notin {"crashed", "looping"}

\* SpinLock and insert_synonym: every call of insert returns, on each of its exits
\* with the lock given back. (The calls are bounded: the spin lock serves no one
\* in turn, and an endless stream of inserts could keep a thread out.)
CallsReturn == \A t \in Threads : pc[t] # "idle" ~> pc[t] = "idle"

\* search: a key that is in the index from before the call to its end is found, with
\* its value.
SearchFindsStable ==
  \A t \in Threads :
    my[t].there /\ my[t].key \in present =>
      pc[t] # "notfound" /\ (pc[t] = "found" => my[t].at = my[t].key)

\* Leaf::self_check ("Bad Leaf!"): when no call is under way, the keys of every
\* leaf increase, the unused slots after them.
LeavesSorted ==
  Quiet => \A n \in 0 .. Pool - 1 : \A x \in Slots \ {0} :
             keys[n][x - 1] < keys[n][x] \/ keys[n][x] = InvalidKey
=============================================================================
