---------------------------- MODULE RolexProofs ----------------------------
(***************************************************************************)
(* Theorems about the index of Rolex, for every load it may be given: the  *)
(* leaves stay sorted and in the order of their chains, and each of them   *)
(* is in one place of the index only; an insert is refused for one of its  *)
(* two reasons only; and, as long as no remove empties the leaf of an      *)
(* entry and so hides the keys of its synonym leaves, every key in a leaf  *)
(* is found, the index is the dictionary KVMap and a range scan answers    *)
(* all that search finds, in the order of the keys.                        *)
(***************************************************************************)
EXTENDS Rolex, SubModelProofs

\* The places of the index: entry i of submodel m, place p of its chain
Places(ms) ==
  UNION {UNION {{<<m, i, p>> : p \in 0 .. Len(Chain(ms[m], i))} :
                   i \in DOMAIN ms[m].table} : m \in DOMAIN ms}

\* The leaf in a place
Num(ms, x) == LeafNum(ms[x[1]], x[2], x[3])

SameEntry(x, y) == x[1] = y[1] /\ x[2] = y[2]

\* Every leaf that a table names was fetched from the pool before.
Fetched(lt, u) ==
  /\ \A i \in DOMAIN lt.table : lt.table[i].leaf_num < u
  /\ \A s \in 1 .. lt.next - 1 : lt.syn[s].leaf_num < u

PlacedOnce(ms) ==
  \A x, y \in Places(ms) : Num(ms, x) = Num(ms, y) => x = y

\* A leaf with keys is in the index.
Placed(ms, mem) ==
  \A n \in 0 .. Pool - 1 :
    KeysOf(mem[n]) # {} => \E x \in Places(ms) : Num(ms, x) = n

\* In a chain the keys of one leaf are below those of the next ones.
InOrder(ms, mem) ==
  \A x, y \in Places(ms) :
    SameEntry(x, y) /\ x[3] < y[3] =>
      \A j \in KeysOf(mem[Num(ms, x)]), k \in KeysOf(mem[Num(ms, y)]) : j < k

\* What every operation keeps of the tables ms, the leaves mem and the number u of
\* leaves fetched
Consistent(ms, mem, u) ==
  /\ u \in 0 .. Pool
  /\ mem \in [0 .. Pool - 1 -> Leaves]
  /\ \A n \in 0 .. Pool - 1 : Sorted(mem[n])
  /\ \A m \in DOMAIN ms : Sound(ms[m]) /\ Fetched(ms[m], u)
  /\ PlacedOnce(ms)
  /\ Placed(ms, mem)
  /\ InOrder(ms, mem)
-----------------------------------------------------------------------------
\* A place of the index, by its submodel, its entry and its place in the chain
LEMMA PlacesLemma ==
  ASSUME NEW ms
  PROVE  /\ \A m, i, p : <<m, i, p>> \in Places(ms) <=>
              /\ m \in DOMAIN ms /\ i \in DOMAIN ms[m].table
              /\ p \in 0 .. Len(Chain(ms[m], i))
         /\ \A x \in Places(ms) : x = <<x[1], x[2], x[3]>>
         /\ \A m, i, p : Num(ms, <<m, i, p>>) = LeafNum(ms[m], i, p)
<1> DEFINE Entry3(m, i) == {<<m, i, p>> : p \in 0 .. Len(Chain(ms[m], i))}
           Table3(m) == UNION {Entry3(m, i) : i \in DOMAIN ms[m].table}
<1>0. Places(ms) = UNION {Table3(m) : m \in DOMAIN ms}
  BY DEF Places
<1> HIDE DEF Table3
<1>a. \A x : x \in Places(ms) <=> \E m \in DOMAIN ms : x \in Table3(m)
  BY <1>0
<1> USE DEF Table3
<1> HIDE DEF Entry3
<1>b. \A m, x : x \in Table3(m) <=> \E i \in DOMAIN ms[m].table : x \in Entry3(m, i)
  OBVIOUS
<1> USE DEF Entry3
<1>c. \A m, i, x : x \in Entry3(m, i) <=>
        \E p \in 0 .. Len(Chain(ms[m], i)) : x = <<m, i, p>>
  OBVIOUS
<1> HIDE DEF Entry3, Table3
<1>1. ASSUME NEW x \in Places(ms)
      PROVE  \E m \in DOMAIN ms : \E i \in DOMAIN ms[m].table :
               \E p \in 0 .. Len(Chain(ms[m], i)) : x = <<m, i, p>>
  BY <1>a, <1>b, <1>c
<1>2. ASSUME NEW m \in DOMAIN ms, NEW i \in DOMAIN ms[m].table,
             NEW p \in 0 .. Len(Chain(ms[m], i))
      PROVE  <<m, i, p>> \in Places(ms)
  BY <1>a, <1>b, <1>c
<1>3. \A x \in Places(ms) : x = <<x[1], x[2], x[3]>>
  BY <1>1
<1>4. \A m, i, p : <<m, i, p>> \in Places(ms) =>
              /\ m \in DOMAIN ms /\ i \in DOMAIN ms[m].table
              /\ p \in 0 .. Len(Chain(ms[m], i))
  BY <1>1
<1>5. \A m, i, p : Num(ms, <<m, i, p>>) = LeafNum(ms[m], i, p)
  BY DEF Num
<1> QED
  BY <1>2, <1>3, <1>4, <1>5

\* A place of the index is a place of the chain of an entry of a sound table.
LEMMA PlaceFacts ==
  ASSUME NEW ms, NEW mem, NEW u, Consistent(ms, mem, u), NEW x \in Places(ms)
  PROVE  /\ x[1] \in DOMAIN ms /\ x[2] \in DOMAIN ms[x[1]].table
         /\ x[3] \in 0 .. Len(Chain(ms[x[1]], x[2])) /\ x[3] \in Nat
         /\ x = <<x[1], x[2], x[3]>>
         /\ Num(ms, x) \in 0 .. u - 1 /\ Num(ms, x) \in 0 .. Pool - 1
         /\ mem[Num(ms, x)] \in Leaves /\ Sorted(mem[Num(ms, x)])
<1> DEFINE lt == ms[x[1]]
           i == x[2]
           p == x[3]
<1>1. x = <<x[1], i, p>>
  BY PlacesLemma
<1>2. x[1] \in DOMAIN ms /\ i \in DOMAIN lt.table /\ p \in 0 .. Len(Chain(lt, i))
  BY <1>1, PlacesLemma
<1>3. Sound(lt) /\ Fetched(lt, u) /\ u \in 0 .. Pool /\ Pool \in Nat
  BY <1>2, PoolAssumption DEF Consistent
<1>4. Num(ms, x) = LeafNum(lt, i, p)
  BY DEF Num
<1>5. \A s \in 1 .. lt.next - 1 : lt.syn[s] \in TableEntries(lt.next)
  BY <1>3, LinkedLemma DEF Sound
<1>6. lt.table[i] \in TableEntries(lt.next)
  BY <1>2, <1>3, LinkedLemma DEF Sound
<1>7. Num(ms, x) \in Nat /\ Num(ms, x) < u
  <2> HIDE DEF lt, i, p
  <2>1. \A e \in TableEntries(lt.next) : e.leaf_num \in Nat
    BY DEF TableEntries
  <2>2. \/ p = 0 /\ LeafNum(lt, i, p) = lt.table[i].leaf_num
        \/ /\ p \in 1 .. Len(Chain(lt, i)) /\ Chain(lt, i)[p] \in 1 .. lt.next - 1
           /\ LeafNum(lt, i, p) = lt.syn[Chain(lt, i)[p]].leaf_num
    BY <1>2, <1>3, LeafNumLemma
  <2> QED
    BY <1>2, <1>3, <1>4, <1>5, <1>6, <2>1, <2>2 DEF Fetched
<1>8. p \in Nat
  BY <1>2
<1> HIDE DEF lt, i, p
<1>9. Num(ms, x) \in 0 .. u - 1 /\ Num(ms, x) \in 0 .. Pool - 1
  BY <1>3, <1>7
<1>10. mem[Num(ms, x)] \in Leaves /\ Sorted(mem[Num(ms, x)])
  BY <1>9 DEF Consistent
<1> QED
  BY <1>1, <1>2, <1>8, <1>9, <1>10 DEF lt, i, p

\* One leaf is written: the keys it holds afterwards keep the order of its chain.
LEMMA LeafChange ==
  ASSUME NEW ms, NEW mem, NEW u, Consistent(ms, mem, u), NEW x \in Places(ms),
         NEW l \in Leaves, Sorted(l),
         \A y \in Places(ms) : SameEntry(x, y) =>
           /\ y[3] < x[3] => \A j \in KeysOf(mem[Num(ms, y)]), k \in KeysOf(l) : j < k
           /\ x[3] < y[3] => \A j \in KeysOf(l), k \in KeysOf(mem[Num(ms, y)]) : j < k
  PROVE  LET new == [mem EXCEPT ![Num(ms, x)] = l]
         IN  /\ Consistent(ms, new, u) /\ new[Num(ms, x)] = l
             /\ \A y \in Places(ms) : y # x => new[Num(ms, y)] = mem[Num(ms, y)]
<1> DEFINE at == Num(ms, x)
           new == [mem EXCEPT ![at] = l]
<1>1. at \in 0 .. Pool - 1 /\ mem \in [0 .. Pool - 1 -> Leaves]
  BY PlaceFacts DEF Consistent
<1>2. /\ new \in [0 .. Pool - 1 -> Leaves] /\ new[at] = l
      /\ \A n \in 0 .. Pool - 1 : n # at => new[n] = mem[n]
  BY <1>1
<1> HIDE DEF new
<1>3. \A y \in Places(ms) : y # x => Num(ms, y) # at
  BY DEF Consistent, PlacedOnce
<1>4. \A y \in Places(ms) : y # x => new[Num(ms, y)] = mem[Num(ms, y)]
  BY <1>2, <1>3, PlaceFacts
<1> HIDE DEF at
<1>5. \A n \in 0 .. Pool - 1 : Sorted(new[n])
  BY <1>2 DEF Consistent
<1>6. Placed(ms, new)
  BY <1>2 DEF Consistent, Placed, at
<1>7. ASSUME NEW y \in Places(ms), NEW z \in Places(ms), SameEntry(y, z), y[3] < z[3],
             NEW j \in KeysOf(new[Num(ms, y)]), NEW k \in KeysOf(new[Num(ms, z)])
      PROVE  j < k
  <2>0. y[3] \in Nat /\ z[3] \in Nat /\ x[3] \in Nat /\ ~ (y[3] < y[3])
    BY PlaceFacts
  <2>1. CASE y = x
    <3>1. z # x
      BY <1>7, <2>0, <2>1
    <3> QED
      BY <1>2, <1>4, <1>7, <2>1, <3>1 DEF at
  <2>2. CASE y # x /\ z = x
    <3>1. SameEntry(x, y)
      BY <1>7, <2>2 DEF SameEntry
    <3> QED
      BY <1>2, <1>4, <1>7, <2>2, <3>1 DEF at
  <2>3. CASE y # x /\ z # x
    BY <1>4, <1>7, <2>3 DEF Consistent, InOrder
  <2> QED
    BY <2>1, <2>2, <2>3
<1>8. InOrder(ms, new)
  BY <1>7 DEF InOrder
<1>9. Consistent(ms, new, u)
  BY <1>2, <1>5, <1>6, <1>8 DEF Consistent
<1> QED
  BY <1>2, <1>4, <1>9 DEF new, at

\* Old gives the place that a place of the index new had in the index ms; those of X
\* are places of leaves from u on.
Renamed(ms, mem, u, new, v, X, Old) ==
  /\ \A x \in Places(new) \ X : Old[x] \in Places(ms) /\ Num(new, x) = Num(ms, Old[x])
  /\ \A x, y \in Places(new) \ X :
       /\ Old[x] = Old[y] => x = y
       /\ SameEntry(x, y) /\ x[3] < y[3] =>
            SameEntry(Old[x], Old[y]) /\ Old[x][3] < Old[y][3]
  /\ \A x \in X : Num(new, x) \in u .. v - 1
  /\ \A x, y \in X : Num(new, x) = Num(new, y) => x = y
  /\ \A y \in Places(ms) : KeysOf(mem[Num(ms, y)]) # {} =>
       \E x \in Places(new) \ X : Old[x] = y

\* The places of the index change: every place afterwards is one of before, in the
\* same order, or takes a leaf that was fetched just now, and only places of leaves
\* without keys go.
LEMMA Reindex ==
  ASSUME NEW ms, NEW mem, NEW u, Consistent(ms, mem, u),
         NEW new, NEW v \in Nat, u <= v, v <= Pool,
         \A m \in DOMAIN new : Sound(new[m]) /\ Fetched(new[m], v),
         NEW X, NEW Old, Renamed(ms, mem, u, new, v, X, Old)
  PROVE  Consistent(new, mem, v)
<1>0. Pool \in Nat /\ u \in Nat
  BY PoolAssumption DEF Consistent
<1> USE DEF Renamed
<1>1. \A y \in Places(ms) : Num(ms, y) < u /\ Num(ms, y) \in Nat
  BY PlaceFacts, <1>0
<1>2. \A x \in X : Num(new, x) >= u /\ Num(new, x) \in Nat /\ Num(new, x) \in 0 .. Pool - 1
  BY <1>0
<1>3. \A x \in X : KeysOf(mem[Num(new, x)]) = {}
  BY <1>0, <1>1, <1>2 DEF Consistent, Placed
<1>4. PlacedOnce(new)
  <2> SUFFICES ASSUME NEW x \in Places(new), NEW y \in Places(new), Num(new, x) = Num(new, y)
               PROVE  x = y
    BY DEF PlacedOnce
  <2>1. CASE x \in X /\ y \in X
    BY <2>1
  <2>2. CASE x \in X /\ y \notin X
    BY <1>0, <1>1, <1>2, <2>2
  <2>3. CASE x \notin X /\ y \in X
    BY <1>0, <1>1, <1>2, <2>3
  <2>4. CASE x \notin X /\ y \notin X
    BY <2>4 DEF Consistent, PlacedOnce
  <2> QED
    BY <2>1, <2>2, <2>3, <2>4
<1>5. Placed(new, mem)
  BY DEF Consistent, Placed
<1>6. InOrder(new, mem)
  <2> SUFFICES ASSUME NEW x \in Places(new), NEW y \in Places(new),
                      SameEntry(x, y), x[3] < y[3],
                      NEW j \in KeysOf(mem[Num(new, x)]), NEW k \in KeysOf(mem[Num(new, y)])
               PROVE  j < k
    BY DEF InOrder
  <2>1. x \notin X /\ y \notin X
    BY <1>3
  <2> QED
    BY <2>1 DEF Consistent, InOrder
<1> QED
  BY <1>0, <1>4, <1>5, <1>6 DEF Consistent

\* insert_synonym: the leaf that was fetched is linked after place p.
LEMMA LinkStep ==
  ASSUME NEW ms, NEW mem, NEW u, Consistent(ms, mem, u), u < Pool,
         NEW m \in DOMAIN ms, NEW i \in DOMAIN ms[m].table,
         NEW p \in 0 .. Len(Chain(ms[m], i))
  PROVE  LET new == [ms EXCEPT ![m] = synonym_emplace_back(ms[m], i, p, u)]
         IN  Consistent(new, mem, u + 1) /\ KeysOf(mem[u]) = {}
<1> DEFINE lt == ms[m]
           nt == synonym_emplace_back(lt, i, p, u)
           new == [ms EXCEPT ![m] = nt]
           n == Len(Chain(lt, i))
           X == {<<m, i, p + 1>>}
           Old == [x \in Places(new) |->
                     IF x[1] = m /\ x[2] = i /\ x[3] > p + 1 THEN <<m, i, x[3] - 1>> ELSE x]
<1>1. u \in Nat /\ Pool \in Nat /\ u + 1 \in Nat /\ u <= u + 1 /\ u + 1 <= Pool
  BY PoolAssumption DEF Consistent
<1>2. Sound(lt) /\ Fetched(lt, u)
  BY DEF Consistent
<1>3. /\ Sound(nt) /\ nt.next = lt.next + 1
      /\ DOMAIN nt.table = DOMAIN lt.table
      /\ \A j \in DOMAIN lt.table : j # i =>
           /\ Len(Chain(nt, j)) = Len(Chain(lt, j))
           /\ \A q \in 0 .. Len(Chain(lt, j)) : LeafNum(nt, j, q) = LeafNum(lt, j, q)
      /\ Len(Chain(nt, i)) = n + 1
      /\ \A q \in 0 .. n + 1 :
           LeafNum(nt, i, q) = IF q <= p THEN LeafNum(lt, i, q)
                               ELSE IF q = p + 1 THEN u ELSE LeafNum(lt, i, q - 1)
  BY <1>1, <1>2, EmplaceLeaves
<1>4. n \in Nat /\ p \in Nat /\ p <= n
  BY <1>2, ChainLemma
<1>5. Fetched(nt, u + 1)
  <2>1. /\ \A j \in DOMAIN lt.table : nt.table[j].leaf_num = lt.table[j].leaf_num
        /\ \A s \in 1 .. lt.next - 1 : nt.syn[s].leaf_num = lt.syn[s].leaf_num
        /\ \E a : nt.syn[lt.next] = TE(u, a)
    BY <1>1, <1>2, EmplaceFields
  <2>2. nt.syn[lt.next].leaf_num = u
    <3> HIDE DEF nt, lt
    <3> QED
      BY <2>1 DEF TE
  <2>3. /\ lt.next \in Nat
        /\ \A s \in 1 .. lt.next - 1 : lt.syn[s].leaf_num \in Nat
        /\ \A j \in DOMAIN lt.table : lt.table[j].leaf_num \in Nat
    BY <1>2, LinkedLemma DEF Sound, TableEntries
  <2> HIDE DEF nt, lt
  <2>4. \A j \in DOMAIN nt.table : nt.table[j].leaf_num < u + 1
    BY <1>1, <1>2, <1>3, <2>1, <2>3 DEF Fetched
  <2>5. ASSUME NEW s \in 1 .. nt.next - 1
        PROVE  nt.syn[s].leaf_num < u + 1
    <3>1. s \in 1 .. lt.next - 1 \/ s = lt.next
      BY <1>3, <2>3
    <3> QED
      BY <1>1, <1>2, <2>1, <2>2, <2>3, <3>1 DEF Fetched
  <2> QED
    BY <2>4, <2>5 DEF Fetched
<1> HIDE DEF nt
<1>6. /\ DOMAIN new = DOMAIN ms /\ new[m] = nt
      /\ \A k \in DOMAIN ms : k # m => new[k] = ms[k]
  OBVIOUS
<1> HIDE DEF new
<1>7. \A k \in DOMAIN new : Sound(new[k]) /\ Fetched(new[k], u + 1)
  <2>1. ASSUME NEW k \in DOMAIN ms, k # m
        PROVE  Fetched(ms[k], u + 1)
    <3>1. Sound(ms[k]) /\ Fetched(ms[k], u)
      BY DEF Consistent
    <3>2. /\ ms[k].next \in Nat
          /\ \A s \in 1 .. ms[k].next - 1 : ms[k].syn[s].leaf_num \in Nat
          /\ \A j \in DOMAIN ms[k].table : ms[k].table[j].leaf_num \in Nat
      BY <3>1, LinkedLemma DEF Sound, TableEntries
    <3> QED
      BY <1>1, <3>1, <3>2 DEF Fetched
  <2> QED
    BY <1>3, <1>5, <1>6, <2>1 DEF Consistent
<1>8. ASSUME NEW x \in Places(new)
      PROVE  /\ x = <<x[1], x[2], x[3]>> /\ x[1] \in DOMAIN ms
             /\ x[2] \in DOMAIN ms[x[1]].table /\ x[3] \in Nat
             /\ ~ (x[1] = m /\ x[2] = i) =>
                  x \in Places(ms) /\ Num(new, x) = Num(ms, x)
             /\ x[1] = m /\ x[2] = i => x[3] <= n + 1 /\ Num(new, x) = LeafNum(nt, i, x[3])
  <2>1. /\ x = <<x[1], x[2], x[3]>> /\ x[1] \in DOMAIN ms
        /\ x[2] \in DOMAIN new[x[1]].table /\ x[3] \in 0 .. Len(Chain(new[x[1]], x[2]))
        /\ Num(new, x) = LeafNum(new[x[1]], x[2], x[3])
    BY <1>6, PlacesLemma
  <2>2. CASE x[1] # m
    BY <1>6, <2>1, <2>2, PlacesLemma
  <2>3. CASE x[1] = m /\ x[2] # i
    BY <1>3, <1>6, <2>1, <2>3, PlacesLemma
  <2>4. CASE x[1] = m /\ x[2] = i
    BY <1>3, <1>4, <1>6, <2>1, <2>4
  <2> QED
    BY <2>2, <2>3, <2>4
<1>9. ASSUME NEW x \in Places(new) \ X
      PROVE  /\ Old[x] \in Places(ms) /\ Num(new, x) = Num(ms, Old[x])
             /\ SameEntry(Old[x], x)
             /\ x[1] = m /\ x[2] = i =>
                  \/ x[3] <= p /\ Old[x][3] = x[3]
                  \/ x[3] > p + 1 /\ Old[x][3] = x[3] - 1
             /\ ~ (x[1] = m /\ x[2] = i) => Old[x] = x
  <2>1. CASE ~ (x[1] = m /\ x[2] = i)
    BY <1>8, <2>1 DEF SameEntry
  <2>2. CASE x[1] = m /\ x[2] = i
    <3>1. x[3] # p + 1
      BY <1>8, <2>2
    <3>2. CASE x[3] <= p
      <4>1. Old[x] = x
        BY <1>4, <1>8, <3>2
      <4>2. x[3] \in 0 .. n /\ x[3] \in 0 .. n + 1
        BY <1>4, <1>8, <3>2
      <4>3. x \in Places(ms) /\ Num(ms, x) = LeafNum(lt, i, x[3])
        BY <1>8, <2>2, <4>2, PlacesLemma DEF Num
      <4> QED
        BY <1>3, <1>8, <2>2, <3>2, <4>1, <4>2, <4>3 DEF SameEntry
    <3>3. CASE x[3] > p + 1
      <4>1. Old[x] = <<m, i, x[3] - 1>>
        BY <2>2, <3>3
      <4>2. x[3] - 1 \in 0 .. n /\ x[3] \in 0 .. n + 1 /\ ~ (x[3] <= p)
        BY <1>4, <1>8, <2>2, <3>3
      <4>3. Old[x] \in Places(ms) /\ Num(ms, Old[x]) = LeafNum(lt, i, x[3] - 1)
        BY <4>1, <4>2, PlacesLemma
      <4>4. Num(new, x) = LeafNum(lt, i, x[3] - 1)
        BY <1>3, <1>8, <2>2, <3>1, <4>2
      <4> QED
        BY <2>2, <3>3, <4>1, <4>3, <4>4 DEF SameEntry
    <3> QED
      BY <1>4, <1>8, <2>2, <3>1, <3>2, <3>3
  <2> QED
    BY <2>1, <2>2
<1>10. ASSUME NEW x \in X
       PROVE  Num(new, x) \in u .. (u + 1) - 1 /\ \A y \in X : x = y
  <2>1. Num(new, x) = LeafNum(nt, i, p + 1)
    BY <1>6, PlacesLemma
  <2>2. p + 1 \in 0 .. n + 1 /\ ~ (p + 1 <= p)
    BY <1>4
  <2>3. LeafNum(nt, i, p + 1) = u
    BY <1>3, <2>2
  <2> QED
    BY <1>1, <2>1, <2>3
<1>11. ASSUME NEW y \in Places(ms)
       PROVE  \E x \in Places(new) \ X : Old[x] = y
  <2>1. /\ y = <<y[1], y[2], y[3]>> /\ y[1] \in DOMAIN ms /\ y[2] \in DOMAIN ms[y[1]].table
        /\ y[3] \in 0 .. Len(Chain(ms[y[1]], y[2])) /\ y[3] \in Nat
    BY PlaceFacts
  <2>2. CASE ~ (y[1] = m /\ y[2] = i)
    <3>1. y \in Places(new)
      BY <1>3, <1>6, <2>1, <2>2, PlacesLemma
    <3> QED
      BY <2>1, <2>2, <3>1
  <2>3. CASE y[1] = m /\ y[2] = i /\ y[3] <= p
    <3>1. y[3] \in 0 .. n + 1 /\ y[3] # p + 1 /\ ~ (y[3] > p + 1)
      BY <1>4, <2>1, <2>3
    <3>2. y \in Places(new)
      BY <1>3, <1>6, <2>1, <2>3, <3>1, PlacesLemma
    <3> QED
      BY <2>1, <2>3, <3>1, <3>2
  <2>4. CASE y[1] = m /\ y[2] = i /\ y[3] > p
    <3> DEFINE x == <<m, i, y[3] + 1>>
    <3>1. y[3] + 1 \in 0 .. n + 1 /\ y[3] + 1 > p + 1 /\ (y[3] + 1) - 1 = y[3] /\ y[3] + 1 # p + 1
      BY <1>4, <2>1, <2>4
    <3>2. x \in Places(new)
      BY <1>3, <1>6, <3>1, PlacesLemma
    <3>3. x \notin X
      BY <3>1
    <3>4. Old[x] = y
      BY <2>1, <2>4, <3>1, <3>2
    <3> QED
      BY <3>2, <3>3, <3>4
  <2> QED
    BY <1>4, <2>1, <2>2, <2>3, <2>4
<1>12. ASSUME NEW x \in Places(new) \ X, NEW y \in Places(new) \ X
       PROVE  /\ Old[x] = Old[y] => x = y
              /\ SameEntry(x, y) /\ x[3] < y[3] =>
                   SameEntry(Old[x], Old[y]) /\ Old[x][3] < Old[y][3]
  <2>1. /\ x = <<x[1], x[2], x[3]>> /\ y = <<y[1], y[2], y[3]>>
        /\ x[3] \in Nat /\ y[3] \in Nat /\ p \in Nat
    BY <1>4, <1>8
  <2>2. /\ SameEntry(Old[x], x) /\ SameEntry(Old[y], y)
        /\ x[1] = m /\ x[2] = i => \/ x[3] <= p /\ Old[x][3] = x[3]
                                   \/ x[3] > p + 1 /\ Old[x][3] = x[3] - 1
        /\ y[1] = m /\ y[2] = i => \/ y[3] <= p /\ Old[y][3] = y[3]
                                   \/ y[3] > p + 1 /\ Old[y][3] = y[3] - 1
        /\ ~ (x[1] = m /\ x[2] = i) => Old[x] = x
        /\ ~ (y[1] = m /\ y[2] = i) => Old[y] = y
    BY <1>9
  <2> HIDE DEF Old
  <2>3. CASE SameEntry(x, y)
    <3>1. x[1] = y[1] /\ x[2] = y[2] /\ SameEntry(Old[x], Old[y])
      BY <2>2, <2>3 DEF SameEntry
    <3>2. Old[x][3] = Old[y][3] => x[3] = y[3]
      BY <2>1, <2>2, <3>1
    <3>3. x[3] < y[3] => Old[x][3] < Old[y][3]
      BY <2>1, <2>2, <3>1
    <3> QED
      BY <2>1, <3>1, <3>2, <3>3
  <2>4. CASE ~ SameEntry(x, y)
    BY <2>2, <2>4 DEF SameEntry
  <2> QED
    BY <2>3, <2>4
<1> HIDE DEF Old, X
<1>13. Consistent(new, mem, u + 1)
  <2> DEFINE v == u + 1
  <2>1. /\ v \in Nat /\ u <= v /\ v <= Pool
        /\ \A k \in DOMAIN new : Sound(new[k]) /\ Fetched(new[k], v)
    BY <1>1, <1>7
  <2>2. \A x \in Places(new) \ X : Old[x] \in Places(ms) /\ Num(new, x) = Num(ms, Old[x])
    BY <1>9
  <2>3. \A x, y \in Places(new) \ X :
           /\ Old[x] = Old[y] => x = y
           /\ SameEntry(x, y) /\ x[3] < y[3] =>
                SameEntry(Old[x], Old[y]) /\ Old[x][3] < Old[y][3]
    BY <1>12
  <2>4. /\ \A x \in X : Num(new, x) \in u .. v - 1
        /\ \A x, y \in X : Num(new, x) = Num(new, y) => x = y
    BY <1>10
  <2>5. \A y \in Places(ms) : KeysOf(mem[Num(ms, y)]) # {} =>
           \E x \in Places(new) \ X : Old[x] = y
    BY <1>11
  <2> HIDE DEF v
  <2>6. Renamed(ms, mem, u, new, v, X, Old)
    BY <2>2, <2>3, <2>4, <2>5 DEF Renamed
  <2>7. Consistent(new, mem, v)
    BY <2>1, <2>6, Reindex
  <2> QED
    BY <2>7 DEF v
<1>14. KeysOf(mem[u]) = {}
  <2>1. u \in 0 .. Pool - 1 /\ \A x \in Places(ms) : Num(ms, x) # u
    BY <1>1, PlaceFacts
  <2> QED
    BY <2>1 DEF Consistent, Placed
<1> QED
  BY <1>13, <1>14 DEF new, nt

\* remove_synonym: a synonym leaf that became empty is unlinked.
LEMMA UnlinkStep ==
  ASSUME NEW ms, NEW mem, NEW u, Consistent(ms, mem, u),
         NEW m \in DOMAIN ms, NEW i \in DOMAIN ms[m].table,
         NEW p \in 1 .. Len(Chain(ms[m], i)),
         KeysOf(mem[LeafNum(ms[m], i, p)]) = {}
  PROVE  Consistent([ms EXCEPT ![m] = synonym_table_remove(ms[m], i, p)], mem, u)
<1> DEFINE lt == ms[m]
           nt == synonym_table_remove(lt, i, p)
           new == [ms EXCEPT ![m] = nt]
           n == Len(Chain(lt, i))
           X == {}
           Old == [x \in Places(new) |->
                     IF x[1] = m /\ x[2] = i /\ x[3] >= p THEN <<m, i, x[3] + 1>> ELSE x]
<1>1. u \in Nat /\ Pool \in Nat /\ u <= Pool /\ u <= u
  BY PoolAssumption DEF Consistent
<1>2. Sound(lt) /\ Fetched(lt, u)
  BY DEF Consistent
<1>3. /\ Sound(nt) /\ nt.next = lt.next
      /\ DOMAIN nt.table = DOMAIN lt.table
      /\ \A j \in DOMAIN lt.table : j # i =>
           /\ Len(Chain(nt, j)) = Len(Chain(lt, j))
           /\ \A q \in 0 .. Len(Chain(lt, j)) : LeafNum(nt, j, q) = LeafNum(lt, j, q)
      /\ Len(Chain(nt, i)) = n - 1
      /\ \A q \in 0 .. n - 1 :
           LeafNum(nt, i, q) = IF q < p THEN LeafNum(lt, i, q) ELSE LeafNum(lt, i, q + 1)
  BY <1>2, UnlinkLeaves
<1>4. n \in Nat /\ p \in Nat /\ p <= n /\ p >= 1
  BY <1>2, ChainLemma
<1>5. Fetched(nt, u)
  <2>1. /\ \A j \in DOMAIN lt.table : nt.table[j].leaf_num = lt.table[j].leaf_num
        /\ \A s \in 1 .. lt.next - 1 : nt.syn[s].leaf_num = lt.syn[s].leaf_num
    BY <1>2, UnlinkFields
  <2> HIDE DEF nt, lt
  <2> QED
    BY <1>2, <1>3, <2>1 DEF Fetched
<1> HIDE DEF nt
<1>6. /\ DOMAIN new = DOMAIN ms /\ new[m] = nt
      /\ \A k \in DOMAIN ms : k # m => new[k] = ms[k]
  OBVIOUS
<1> HIDE DEF new
<1>7. \A k \in DOMAIN new : Sound(new[k]) /\ Fetched(new[k], u)
  BY <1>3, <1>5, <1>6 DEF Consistent
<1>8. ASSUME NEW x \in Places(new)
      PROVE  /\ x = <<x[1], x[2], x[3]>> /\ x[1] \in DOMAIN ms
             /\ x[2] \in DOMAIN ms[x[1]].table /\ x[3] \in Nat
             /\ ~ (x[1] = m /\ x[2] = i) =>
                  x \in Places(ms) /\ Num(new, x) = Num(ms, x)
             /\ x[1] = m /\ x[2] = i => x[3] <= n - 1 /\ Num(new, x) = LeafNum(nt, i, x[3])
  <2>1. /\ x = <<x[1], x[2], x[3]>> /\ x[1] \in DOMAIN ms
        /\ x[2] \in DOMAIN new[x[1]].table /\ x[3] \in 0 .. Len(Chain(new[x[1]], x[2]))
        /\ Num(new, x) = LeafNum(new[x[1]], x[2], x[3])
    BY <1>6, PlacesLemma
  <2>2. CASE x[1] # m
    BY <1>6, <2>1, <2>2, PlacesLemma
  <2>3. CASE x[1] = m /\ x[2] # i
    BY <1>3, <1>6, <2>1, <2>3, PlacesLemma
  <2>4. CASE x[1] = m /\ x[2] = i
    BY <1>3, <1>4, <1>6, <2>1, <2>4
  <2> QED
    BY <2>2, <2>3, <2>4
<1>9. ASSUME NEW x \in Places(new)
      PROVE  /\ Old[x] \in Places(ms) /\ Num(new, x) = Num(ms, Old[x])
             /\ SameEntry(Old[x], x)
             /\ x[1] = m /\ x[2] = i =>
                  \/ x[3] < p /\ Old[x][3] = x[3]
                  \/ x[3] >= p /\ Old[x][3] = x[3] + 1
             /\ ~ (x[1] = m /\ x[2] = i) => Old[x] = x
  <2>1. CASE ~ (x[1] = m /\ x[2] = i)
    BY <1>8, <2>1 DEF SameEntry
  <2>2. CASE x[1] = m /\ x[2] = i
    <3>2. CASE x[3] < p
      <4>1. Old[x] = x
        BY <1>4, <1>8, <3>2
      <4>2. x[3] \in 0 .. n /\ x[3] \in 0 .. n - 1
        BY <1>4, <1>8, <3>2
      <4>3. x \in Places(ms) /\ Num(ms, x) = LeafNum(lt, i, x[3])
        BY <1>8, <2>2, <4>2, PlacesLemma DEF Num
      <4> QED
        BY <1>3, <1>8, <2>2, <3>2, <4>1, <4>2, <4>3 DEF SameEntry
    <3>3. CASE x[3] >= p
      <4>1. Old[x] = <<m, i, x[3] + 1>>
        BY <2>2, <3>3
      <4>2. x[3] + 1 \in 0 .. n /\ x[3] \in 0 .. n - 1 /\ ~ (x[3] < p)
        BY <1>4, <1>8, <2>2, <3>3
      <4>3. Old[x] \in Places(ms) /\ Num(ms, Old[x]) = LeafNum(lt, i, x[3] + 1)
        BY <4>1, <4>2, PlacesLemma
      <4>4. Num(new, x) = LeafNum(lt, i, x[3] + 1)
        BY <1>3, <1>8, <2>2, <4>2
      <4> QED
        BY <2>2, <3>3, <4>1, <4>3, <4>4 DEF SameEntry
    <3> QED
      BY <1>4, <1>8, <3>2, <3>3
  <2> QED
    BY <2>1, <2>2
<1>11. ASSUME NEW y \in Places(ms), KeysOf(mem[Num(ms, y)]) # {}
       PROVE  \E x \in Places(new) : Old[x] = y
  <2>1. /\ y = <<y[1], y[2], y[3]>> /\ y[1] \in DOMAIN ms /\ y[2] \in DOMAIN ms[y[1]].table
        /\ y[3] \in 0 .. Len(Chain(ms[y[1]], y[2])) /\ y[3] \in Nat
    BY PlaceFacts
  <2>2. CASE ~ (y[1] = m /\ y[2] = i)
    <3>1. y \in Places(new)
      BY <1>3, <1>6, <2>1, <2>2, PlacesLemma
    <3> QED
      BY <2>1, <2>2, <3>1
  <2>3. CASE y[1] = m /\ y[2] = i /\ y[3] < p
    <3>1. y[3] \in 0 .. n - 1 /\ ~ (y[3] >= p)
      BY <1>4, <2>1, <2>3
    <3>2. y \in Places(new)
      BY <1>3, <1>6, <2>1, <2>3, <3>1, PlacesLemma
    <3> QED
      BY <2>1, <2>3, <3>1, <3>2
  <2>4. CASE y[1] = m /\ y[2] = i /\ y[3] > p
    <3> DEFINE x == <<m, i, y[3] - 1>>
    <3>1. y[3] - 1 \in 0 .. n - 1 /\ y[3] - 1 >= p /\ (y[3] - 1) + 1 = y[3]
      BY <1>4, <2>1, <2>4
    <3>2. x \in Places(new)
      BY <1>3, <1>6, <3>1, PlacesLemma
    <3>4. Old[x] = y
      BY <2>1, <2>4, <3>1, <3>2
    <3> QED
      BY <3>2, <3>4
  <2>5. CASE y[1] = m /\ y[2] = i /\ y[3] = p
    BY <1>11, <2>1, <2>5 DEF Num
  <2> QED
    BY <1>4, <2>1, <2>2, <2>3, <2>4, <2>5
<1>12. ASSUME NEW x \in Places(new), NEW y \in Places(new)
       PROVE  /\ Old[x] = Old[y] => x = y
              /\ SameEntry(x, y) /\ x[3] < y[3] =>
                   SameEntry(Old[x], Old[y]) /\ Old[x][3] < Old[y][3]
  <2>1. /\ x = <<x[1], x[2], x[3]>> /\ y = <<y[1], y[2], y[3]>>
        /\ x[3] \in Nat /\ y[3] \in Nat /\ p \in Nat
    BY <1>4, <1>8
  <2>2. /\ SameEntry(Old[x], x) /\ SameEntry(Old[y], y)
        /\ x[1] = m /\ x[2] = i => \/ x[3] < p /\ Old[x][3] = x[3]
                                   \/ x[3] >= p /\ Old[x][3] = x[3] + 1
        /\ y[1] = m /\ y[2] = i => \/ y[3] < p /\ Old[y][3] = y[3]
                                   \/ y[3] >= p /\ Old[y][3] = y[3] + 1
        /\ ~ (x[1] = m /\ x[2] = i) => Old[x] = x
        /\ ~ (y[1] = m /\ y[2] = i) => Old[y] = y
    BY <1>9
  <2> HIDE DEF Old
  <2>3. CASE SameEntry(x, y)
    <3>1. x[1] = y[1] /\ x[2] = y[2] /\ SameEntry(Old[x], Old[y])
      BY <2>2, <2>3 DEF SameEntry
    <3>2. Old[x][3] = Old[y][3] => x[3] = y[3]
      BY <2>1, <2>2, <3>1
    <3>3. x[3] < y[3] => Old[x][3] < Old[y][3]
      BY <2>1, <2>2, <3>1
    <3> QED
      BY <2>1, <3>1, <3>2, <3>3
  <2>4. CASE ~ SameEntry(x, y)
    BY <2>2, <2>4 DEF SameEntry
  <2> QED
    BY <2>3, <2>4
<1> HIDE DEF Old
<1>13. Renamed(ms, mem, u, new, u, X, Old)
  BY <1>9, <1>11, <1>12 DEF Renamed
<1> HIDE DEF X
<1>14. Consistent(new, mem, u)
  BY <1>1, <1>7, <1>13, Reindex
<1> QED
  BY <1>14 DEF new, nt
-----------------------------------------------------------------------------
\* Key k fits in the leaf at place x: it is above the keys of the leaves before and
\* below those of the leaves behind.
Takes(ms, mem, x, k) ==
  \A y \in Places(ms) : SameEntry(x, y) =>
    /\ y[3] < x[3] => \A j \in KeysOf(mem[Num(ms, y)]) : j < k
    /\ x[3] < y[3] => \A j \in KeysOf(mem[Num(ms, y)]) : k < j

\* The walk back along the synonym leaves ends at the leaf that the key fits in.
LEMMA PlaceLemma ==
  ASSUME NEW ms, NEW mem, NEW u, Consistent(ms, mem, u),
         NEW m \in DOMAIN ms, NEW i \in DOMAIN ms[m].table, NEW k \in Keys
  PROVE  LET p == Place(ms[m], mem, k, i)
         IN  /\ p \in 0 .. Len(Chain(ms[m], i)) /\ <<m, i, p>> \in Places(ms)
             /\ Num(ms, <<m, i, p>>) = LeafNum(ms[m], i, p)
             /\ Takes(ms, mem, <<m, i, p>>, k)
<1> DEFINE lt == ms[m]
           c == Chain(lt, i)
           at(q) == LeafNum(lt, i, q)
           here == {q \in DOMAIN c : insertHere(mem[lt.syn[c[q]].leaf_num], k)}
           p == Place(lt, mem, k, i)
<1>1. c \in Seq(1 .. lt.next - 1) /\ Len(c) \in Nat
  BY ChainLemma DEF Consistent
<1>2. DOMAIN c = 1 .. Len(c)
  BY <1>1
<1>3. here \in SUBSET Int /\ \A q : q \in here <=> q \in 1 .. Len(c) /\ insertHere(mem[at(q)], k)
  <2>1. \A q \in 1 .. Len(c) : at(q) = lt.syn[c[q]].leaf_num
    BY <1>1 DEF LeafNum
  <2> QED
    BY <1>2, <2>1
<1>4. p = IF here = {} THEN 0 ELSE Greatest(here)
  BY DEF Place, lt, here, c
<1>5. ASSUME NEW q \in 0 .. Len(c)
      PROVE  /\ <<m, i, q>> \in Places(ms) /\ Num(ms, <<m, i, q>>) = at(q)
             /\ mem[at(q)] \in Leaves /\ Sorted(mem[at(q)])
             /\ KeysOf(mem[at(q)]) \subseteq Keys /\ mem[at(q)][0].key \in Int
  <2>1. <<m, i, q>> \in Places(ms) /\ Num(ms, <<m, i, q>>) = at(q)
    BY PlacesLemma
  <2>2. mem[at(q)] \in Leaves /\ Sorted(mem[at(q)])
    BY <2>1, PlaceFacts
  <2>3. KeysOf(mem[at(q)]) \subseteq Keys /\ mem[at(q)][0].key \in 0 .. InvalidKey
    BY <2>2, KeysLemma, SlotLemma
  <2>4. mem[at(q)][0].key \in Int
    BY <2>3
  <2> QED
    BY <2>1, <2>2, <2>3, <2>4
<1> HIDE DEF here, c, at, lt
<1>6. k \in Int /\ Keys \subseteq Int
  BY LeafAssumption DEF Keys
<1>7. \A q \in 1 .. Len(c) : q \notin here => \A j \in KeysOf(mem[at(q)]) : k < j
  <2> SUFFICES ASSUME NEW q \in 1 .. Len(c), q \notin here, NEW j \in KeysOf(mem[at(q)])
               PROVE  k < j
    OBVIOUS
  <2>1. q \in 0 .. Len(c)
    BY <1>1
  <2>2. ~ insertHere(mem[at(q)], k)
    BY <1>3
  <2>3. mem[at(q)][0].key <= j
    BY <1>5, <2>1, FirstKeyLemma
  <2>4. ~ (k >= mem[at(q)][0].key)
    BY <2>2 DEF insertHere
  <2>5. k \in Int /\ j \in Int /\ mem[at(q)][0].key \in Int
    BY <1>5, <1>6, <2>1
  <2> QED
    BY <2>3, <2>4, <2>5
<1>8. p \in 0 .. Len(c) /\ \A q \in 1 .. Len(c) : p < q => q \notin here
  <2>1. CASE here = {}
    BY <1>1, <1>4, <2>1
  <2>2. CASE here # {}
    <3>1. Len(c) \in Int /\ \A y \in here : y <= Len(c)
      BY <1>1, <1>3
    <3>2. Greatest(here) \in here /\ \A y \in here : y <= Greatest(here)
      BY <1>3, <2>2, <3>1, GreatestLemma
    <3>3. p = Greatest(here)
      BY <1>4, <2>2
    <3>4. p \in 1 .. Len(c)
      BY <1>3, <3>2, <3>3
    <3> HIDE DEF p
    <3> QED
      BY <1>1, <3>2, <3>3, <3>4
  <2> QED
    BY <2>1, <2>2
<1>9. p # 0 => p \in here
  <2>1. CASE here = {}
    BY <1>4, <2>1
  <2>2. CASE here # {}
    <3>1. Len(c) \in Int /\ \A y \in here : y <= Len(c)
      BY <1>1, <1>3
    <3>2. Greatest(here) \in here
      BY <1>3, <2>2, <3>1, GreatestLemma
    <3> QED
      BY <1>4, <2>2, <3>2
  <2> QED
    BY <2>1, <2>2
<1> HIDE DEF p
<1>10. ASSUME NEW q \in 0 .. Len(c), q < p, NEW j \in KeysOf(mem[at(q)])
       PROVE  j < k
  <2>1. p # 0 /\ p \in Nat /\ q \in Nat
    BY <1>1, <1>8, <1>10
  <2>2. insertHere(mem[at(p)], k)
    BY <1>3, <1>9, <2>1
  <2>3. mem[at(p)][0].key \in KeysOf(mem[at(p)])
    BY <1>5, <1>8, <2>2, FirstKeyLemma
  <2>4. j < mem[at(p)][0].key
    <3>1. SameEntry(<<m, i, q>>, <<m, i, p>>) /\ <<m, i, q>>[3] < <<m, i, p>>[3]
      BY <1>10 DEF SameEntry
    <3>2. \A x, y \in Places(ms) : SameEntry(x, y) /\ x[3] < y[3] =>
            \A b \in KeysOf(mem[Num(ms, x)]), d \in KeysOf(mem[Num(ms, y)]) : b < d
      BY DEF Consistent, InOrder
    <3> QED
      BY <1>5, <1>8, <1>10, <2>3, <3>1, <3>2
  <2>5. k >= mem[at(p)][0].key
    BY <2>2 DEF insertHere
  <2>6. k \in Int /\ j \in Int /\ mem[at(p)][0].key \in Int
    BY <1>5, <1>6, <1>8, <1>10
  <2> QED
    BY <2>4, <2>5, <2>6
<1>11. ASSUME NEW q \in 0 .. Len(c), p < q, NEW j \in KeysOf(mem[at(q)])
       PROVE  k < j
  <2>1. q \in 1 .. Len(c)
    BY <1>1, <1>8, <1>11
  <2> QED
    BY <1>7, <1>8, <1>11, <2>1
<1>12. Takes(ms, mem, <<m, i, p>>, k)
  <2> SUFFICES ASSUME NEW y \in Places(ms), SameEntry(<<m, i, p>>, y)
               PROVE  /\ y[3] < p => \A j \in KeysOf(mem[Num(ms, y)]) : j < k
                      /\ p < y[3] => \A j \in KeysOf(mem[Num(ms, y)]) : k < j
    BY DEF Takes
  <2>1. y = <<m, i, y[3]>> /\ y[3] \in 0 .. Len(c)
    BY PlacesLemma DEF SameEntry, c, lt
  <2>2. Num(ms, y) = at(y[3])
    BY <1>5, <2>1
  <2> QED
    BY <1>10, <1>11, <2>1, <2>2
<1> QED
  BY <1>5, <1>8, <1>12 DEF p, c, at, lt

\* A key that is in a leaf fits in it.
LEMMA TakesOwn ==
  ASSUME NEW ms, NEW mem, NEW u, Consistent(ms, mem, u), NEW x \in Places(ms),
         NEW k \in KeysOf(mem[Num(ms, x)])
  PROVE  Takes(ms, mem, x, k)
<1> SUFFICES ASSUME NEW y \in Places(ms), SameEntry(x, y)
             PROVE  /\ y[3] < x[3] => \A j \in KeysOf(mem[Num(ms, y)]) : j < k
                    /\ x[3] < y[3] => \A j \in KeysOf(mem[Num(ms, y)]) : k < j
  BY DEF Takes
<1>1. SameEntry(y, x)
  BY DEF SameEntry
<1> QED
  BY <1>1 DEF Consistent, InOrder

\* One leaf is written, with keys that were in it or fit in it.
LEMMA WriteStep ==
  ASSUME NEW ms, NEW mem, NEW u, Consistent(ms, mem, u), NEW x \in Places(ms),
         NEW l \in Leaves, Sorted(l),
         \A k \in KeysOf(l) : k \in KeysOf(mem[Num(ms, x)]) \/ Takes(ms, mem, x, k)
  PROVE  LET new == [mem EXCEPT ![Num(ms, x)] = l]
         IN  /\ Consistent(ms, new, u) /\ new[Num(ms, x)] = l
             /\ \A y \in Places(ms) : y # x => new[Num(ms, y)] = mem[Num(ms, y)]
<1>1. \A k \in KeysOf(l) : Takes(ms, mem, x, k)
  BY TakesOwn
<1>2. \A y \in Places(ms) : SameEntry(x, y) =>
        /\ y[3] < x[3] => \A j \in KeysOf(mem[Num(ms, y)]), k \in KeysOf(l) : j < k
        /\ x[3] < y[3] => \A j \in KeysOf(l), k \in KeysOf(mem[Num(ms, y)]) : j < k
  BY <1>1 DEF Takes
<1> QED
  BY <1>2, LeafChange

\* The new leaf behind place p has no keys, so what fits in place p still does.
LEMMA LinkTakes ==
  ASSUME NEW ms, NEW mem, NEW u, Consistent(ms, mem, u), u < Pool,
         NEW m \in DOMAIN ms, NEW i \in DOMAIN ms[m].table,
         NEW p \in 0 .. Len(Chain(ms[m], i)), NEW k, Takes(ms, mem, <<m, i, p>>, k)
  PROVE  LET new == [ms EXCEPT ![m] = synonym_emplace_back(ms[m], i, p, u)]
         IN  /\ <<m, i, p>> \in Places(new) /\ Num(new, <<m, i, p>>) = Num(ms, <<m, i, p>>)
             /\ <<m, i, p + 1>> \in Places(new) /\ Num(new, <<m, i, p + 1>>) = u
             /\ Takes(new, mem, <<m, i, p>>, k)
<1> DEFINE lt == ms[m]
           nt == synonym_emplace_back(lt, i, p, u)
           new == [ms EXCEPT ![m] = nt]
           n == Len(Chain(lt, i))
<1>1. u \in Nat /\ Sound(lt)
  BY PoolAssumption DEF Consistent
<1>2. /\ Sound(nt) /\ nt.next = lt.next + 1
      /\ DOMAIN nt.table = DOMAIN lt.table
      /\ \A j \in DOMAIN lt.table : j # i =>
           /\ Len(Chain(nt, j)) = Len(Chain(lt, j))
           /\ \A q \in 0 .. Len(Chain(lt, j)) : LeafNum(nt, j, q) = LeafNum(lt, j, q)
      /\ Len(Chain(nt, i)) = n + 1
      /\ \A q \in 0 .. n + 1 :
           LeafNum(nt, i, q) = IF q <= p THEN LeafNum(lt, i, q)
                               ELSE IF q = p + 1 THEN u ELSE LeafNum(lt, i, q - 1)
  BY <1>1, EmplaceLeaves
<1>3. n \in Nat /\ p \in Nat /\ p <= n
  BY <1>1, ChainLemma
<1>4. KeysOf(mem[u]) = {}
  BY LinkStep
<1> HIDE DEF nt
<1>5. DOMAIN new = DOMAIN ms /\ new[m] = nt
  OBVIOUS
<1> HIDE DEF new
<1>6. \A q : <<m, i, q>> \in Places(new) <=> q \in 0 .. n + 1
  BY <1>2, <1>5, PlacesLemma
<1>7. \A q : Num(new, <<m, i, q>>) = LeafNum(nt, i, q) /\ Num(ms, <<m, i, q>>) = LeafNum(lt, i, q)
  BY <1>5, PlacesLemma
<1>8. \A q \in 0 .. n : <<m, i, q>> \in Places(ms)
  BY PlacesLemma
<1> HIDE DEF n
<1>9. ASSUME NEW y \in Places(new), SameEntry(<<m, i, p>>, y)
      PROVE  /\ y[3] < p => \A j \in KeysOf(mem[Num(new, y)]) : j < k
             /\ p < y[3] => \A j \in KeysOf(mem[Num(new, y)]) : k < j
  <2> DEFINE q == y[3]
  <2>1. y = <<m, i, q>> /\ q \in 0 .. n + 1
    BY <1>6, <1>9, PlacesLemma DEF SameEntry
  <2>2. Num(new, y) = LeafNum(nt, i, q)
    BY <1>7, <2>1
  <2>3. CASE q < p
    <3>1. q <= p /\ q \in 0 .. n
      BY <1>3, <2>1, <2>3
    <3>2. Num(new, y) = Num(ms, <<m, i, q>>)
      BY <1>2, <1>7, <2>1, <2>2, <3>1
    <3>3. \A j \in KeysOf(mem[Num(ms, <<m, i, q>>)]) : j < k
      BY <1>8, <2>3, <3>1 DEF Takes, SameEntry
    <3> QED
      BY <1>3, <2>1, <2>3, <3>2, <3>3
  <2>4. CASE q = p + 1
    <3>1. ~ (q <= p)
      BY <1>3, <2>4
    <3>2. Num(new, y) = u
      BY <1>2, <2>1, <2>2, <2>4, <3>1
    <3> QED
      BY <1>4, <3>2
  <2>5. CASE q > p + 1
    <3>1. ~ (q <= p) /\ q # p + 1 /\ q - 1 \in 0 .. n /\ p < q - 1 /\ ~ (q < p)
      BY <1>3, <2>1, <2>5
    <3>2. Num(new, y) = Num(ms, <<m, i, q - 1>>)
      BY <1>2, <1>7, <2>1, <2>2, <3>1
    <3>3. \A j \in KeysOf(mem[Num(ms, <<m, i, q - 1>>)]) : k < j
      BY <1>8, <3>1 DEF Takes, SameEntry
    <3> QED
      BY <3>1, <3>2, <3>3
  <2>6. CASE q = p
    BY <1>3, <2>6
  <2> QED
    BY <1>3, <2>1, <2>3, <2>4, <2>5, <2>6
<1>10. Takes(new, mem, <<m, i, p>>, k)
  BY <1>9 DEF Takes
<1>11. p \in 0 .. n + 1 /\ p + 1 \in 0 .. n + 1 /\ ~ (p + 1 <= p)
  BY <1>3
<1>12. LeafNum(nt, i, p) = LeafNum(lt, i, p) /\ LeafNum(nt, i, p + 1) = u
  BY <1>2, <1>11
<1> QED
  BY <1>6, <1>7, <1>10, <1>11, <1>12 DEF new, nt

\* The keys of a leaf are shared out between it and the empty leaf behind it, the
\* smaller ones staying, with new keys that fit.
LEMMA ShareStep ==
  ASSUME NEW ms, NEW mem, NEW u, Consistent(ms, mem, u),
         NEW x \in Places(ms), NEW y \in Places(ms), SameEntry(x, y), y[3] = x[3] + 1,
         KeysOf(mem[Num(ms, y)]) = {},
         NEW low \in Leaves, Sorted(low), NEW high \in Leaves, Sorted(high),
         \A j \in KeysOf(low), k \in KeysOf(high) : j < k,
         \A k \in KeysOf(low) \cup KeysOf(high) :
           k \in KeysOf(mem[Num(ms, x)]) \/ Takes(ms, mem, x, k)
  PROVE  Consistent(ms, [mem EXCEPT ![Num(ms, x)] = low, ![Num(ms, y)] = high], u)
<1> DEFINE mid1 == [mem EXCEPT ![Num(ms, x)] = low]
<1>0. x[3] \in Nat /\ y[3] \in Nat /\ y # x /\ x[3] < y[3]
  BY PlaceFacts
<1>1. \A k \in KeysOf(low) \cup KeysOf(high) : Takes(ms, mem, x, k)
  BY TakesOwn
<1>2. Consistent(ms, mid1, u) /\ mid1[Num(ms, x)] = low
  BY WriteStep
<1>3. \A z \in Places(ms) : z # x => mid1[Num(ms, z)] = mem[Num(ms, z)]
  <2>1. \A z \in Places(ms) : z # x => Num(ms, z) # Num(ms, x)
    BY DEF Consistent, PlacedOnce
  <2>2. mem \in [0 .. Pool - 1 -> Leaves] /\ \A z \in Places(ms) : Num(ms, z) \in 0 .. Pool - 1
    BY PlaceFacts DEF Consistent
  <2> QED
    BY <2>1, <2>2
<1> HIDE DEF mid1
<1>4. ASSUME NEW k \in KeysOf(high)
      PROVE  Takes(ms, mid1, y, k)
  <2> SUFFICES ASSUME NEW z \in Places(ms), SameEntry(y, z)
               PROVE  /\ z[3] < y[3] => \A j \in KeysOf(mid1[Num(ms, z)]) : j < k
                      /\ y[3] < z[3] => \A j \in KeysOf(mid1[Num(ms, z)]) : k < j
    BY DEF Takes
  <2>0. z[3] \in Nat /\ SameEntry(x, z)
    BY PlaceFacts DEF SameEntry
  <2>1. CASE z = x
    BY <1>0, <1>2, <2>1
  <2>2. CASE z # x
    <3>1. z[3] # x[3]
      <4>1. x = <<x[1], x[2], x[3]>> /\ z = <<z[1], z[2], z[3]>>
        BY PlaceFacts
      <4> QED
        BY <2>0, <2>2, <4>1 DEF SameEntry
    <3>2. mid1[Num(ms, z)] = mem[Num(ms, z)]
      BY <1>3, <2>2
    <3>3. /\ z[3] < x[3] => \A j \in KeysOf(mem[Num(ms, z)]) : j < k
          /\ x[3] < z[3] => \A j \in KeysOf(mem[Num(ms, z)]) : k < j
      BY <1>1, <2>0 DEF Takes
    <3> QED
      BY <1>0, <2>0, <3>1, <3>2, <3>3
  <2> QED
    BY <2>1, <2>2
<1>5. Consistent(ms, [mid1 EXCEPT ![Num(ms, y)] = high], u)
  BY <1>2, <1>4, WriteStep
<1> QED
  BY <1>5 DEF mid1
-----------------------------------------------------------------------------
\* insert_synonym at place x: it is refused, the key goes into the leaf there, or the
\* keys of the leaf and the new one are shared out between it and a new leaf.
InsertRefused(ms, mem, u, x, k, r) ==
  /\ Full(ms[x[1]]) \/ k \in KeysOf(mem[Num(ms, x)])
  /\ r = [lt |-> ms[x[1]], mem |-> mem, used |-> u, ok |-> FALSE]

InsertWritten(ms, mem, u, x, k, v, r) ==
  /\ k \notin KeysOf(mem[Num(ms, x)])
  /\ \E l \in Leaves :
       /\ Sorted(l)
       /\ Content(l) = Content(mem[Num(ms, x)]) \cup {[key |-> k, val |-> v]}
       /\ r = [lt |-> ms[x[1]], mem |-> [mem EXCEPT ![Num(ms, x)] = l],
               used |-> u, ok |-> TRUE]

InsertSplit(ms, mem, u, x, k, v, r) ==
  /\ k \notin KeysOf(mem[Num(ms, x)]) /\ ~ Full(ms[x[1]])
  /\ \E low, high \in Leaves :
       /\ Sorted(low) /\ Sorted(high) /\ KeysOf(low) # {}
       /\ \A j \in KeysOf(low), h \in KeysOf(high) : j < h
       /\ Content(low) \cup Content(high) =
            Content(mem[Num(ms, x)]) \cup {[key |-> k, val |-> v]}
       /\ r = [lt |-> synonym_emplace_back(ms[x[1]], x[2], x[3], u),
               mem |-> [mem EXCEPT ![Num(ms, x)] = low, ![u] = high],
               used |-> u + 1, ok |-> TRUE]

\* Where a key of the window a .. b goes
Spot(ms, mem, m, k, a, b) ==
  LET i == Entry(ms[m], mem, k, a, b) IN <<m, i, Place(ms[m], mem, k, i)>>

\* The walks of insert_synonym, update_synonym and remove_synonym end at a place of
\* the index that the key fits in.
LEMMA SpotLemma ==
  ASSUME NEW ms, NEW mem, NEW u, Consistent(ms, mem, u), NEW m \in DOMAIN ms,
         NEW k \in Keys, NEW a \in Nat, NEW b \in Nat, a <= b, a .. b \subseteq DOMAIN ms[m].table
  PROVE  LET i == Entry(ms[m], mem, k, a, b)
             p == Place(ms[m], mem, k, i)
             x == Spot(ms, mem, m, k, a, b)
         IN  /\ x = <<m, i, p>> /\ x \in Places(ms) /\ Takes(ms, mem, x, k)
             /\ i \in DOMAIN ms[m].table /\ p \in 0 .. Len(Chain(ms[m], i))
             /\ Num(ms, x) = LeafNum(ms[m], i, p)
<1> DEFINE i == Entry(ms[m], mem, k, a, b)
           p == Place(ms[m], mem, k, i)
<1>1. i \in DOMAIN ms[m].table
  BY EntryLemma
<1> HIDE DEF i
<1>2. /\ p \in 0 .. Len(Chain(ms[m], i)) /\ <<m, i, p>> \in Places(ms)
      /\ Num(ms, <<m, i, p>>) = LeafNum(ms[m], i, p)
      /\ Takes(ms, mem, <<m, i, p>>, k)
  BY <1>1, PlaceLemma
<1>3. Spot(ms, mem, m, k, a, b) = <<m, i, p>>
  BY DEF Spot, i
<1> HIDE DEF p
<1> QED
  BY <1>1, <1>2, <1>3 DEF i, p

\* What insert_synonym does is one of the three.
LEMMA InsertCases ==
  ASSUME N % 2 = 0, NEW ms, NEW mem, NEW u, Consistent(ms, mem, u), NEW m \in DOMAIN ms,
         NEW k \in Keys, NEW v \in Vals,
         NEW a \in Nat, NEW b \in Nat, a <= b, a .. b \subseteq DOMAIN ms[m].table
  PROVE  LET r == Insert(ms[m], mem, u, k, v, a, b)
             x == Spot(ms, mem, m, k, a, b)
         IN  \/ InsertRefused(ms, mem, u, x, k, r)
             \/ InsertWritten(ms, mem, u, x, k, v, r)
             \/ /\ InsertSplit(ms, mem, u, x, k, v, r)
                /\ NeedsLeaf(ms[m], mem, k, a, b)
<1> DEFINE i == Entry(ms[m], mem, k, a, b)
           p == Place(ms[m], mem, k, i)
           x == <<m, i, p>>
           cur == LeafNum(ms[m], i, p)
           l == mem[cur]
           r == Insert(ms[m], mem, u, k, v, a, b)
           refused == [lt |-> ms[m], mem |-> mem, used |-> u, ok |-> FALSE]
<1>1. Spot(ms, mem, m, k, a, b) = x /\ x \in Places(ms) /\ Num(ms, x) = cur
  BY SpotLemma
<1>2. l \in Leaves /\ Sorted(l)
  BY <1>1, PlaceFacts
<1>3. r = IF Full(ms[m]) \/ contain(l, k) THEN refused
          ELSE IF ~ isfull(l)
            THEN [lt |-> ms[m], used |-> u, ok |-> TRUE,
                  mem |-> [mem EXCEPT ![cur] = insert_not_full(@, k, v)]]
            ELSE [lt |-> synonym_emplace_back(ms[m], i, p, u),
                  used |-> u + 1, ok |-> TRUE,
                  mem |-> IF insertHere(upper_half(l), k)
                            THEN [mem EXCEPT ![cur] = lower_half(l),
                                    ![u] = insert_not_full(upper_half(l), k, v)]
                            ELSE [mem EXCEPT ![cur] = insert_not_full(lower_half(l), k, v),
                                    ![u] = upper_half(l)]]
  BY DEF Insert
<1>4. NeedsLeaf(ms[m], mem, k, a, b) <=> ~ Full(ms[m]) /\ ~ contain(l, k) /\ isfull(l)
  BY DEF NeedsLeaf
<1>5. contain(l, k) <=> k \in KeysOf(l)
  BY <1>2, FoundLemma
<1>6. cur \in 0 .. Pool - 1 /\ mem \in [0 .. Pool - 1 -> Leaves]
  BY <1>1, PlaceFacts DEF Consistent
<1>7. x[1] = m /\ x[2] = i /\ x[3] = p
  OBVIOUS
<1> HIDE DEF i, p, cur, r, x
<1>8. CASE Full(ms[m]) \/ contain(l, k)
  <2>1. r = refused
    BY <1>3, <1>8
  <2> QED
    BY <1>1, <1>5, <1>7, <1>8, <2>1 DEF InsertRefused, r
<1>9. CASE ~ (Full(ms[m]) \/ contain(l, k)) /\ ~ isfull(l)
  <2> DEFINE w == insert_not_full(l, k, v)
  <2>1. w \in Leaves /\ Sorted(w) /\ Content(w) = Content(l) \cup {[key |-> k, val |-> v]}
    BY <1>2, <1>5, <1>9, InsertLemma
  <2>2. r = [lt |-> ms[m], mem |-> [mem EXCEPT ![cur] = w], used |-> u, ok |-> TRUE]
    BY <1>3, <1>6, <1>9
  <2> HIDE DEF w
  <2>3. InsertWritten(ms, mem, u, x, k, v, r)
    BY <1>1, <1>5, <1>7, <1>9, <2>1, <2>2 DEF InsertWritten
  <2> QED
    BY <1>1, <2>3 DEF r
<1>10. CASE ~ (Full(ms[m]) \/ contain(l, k)) /\ isfull(l)
  <2> DEFINE low == IF insertHere(upper_half(l), k) THEN lower_half(l)
                    ELSE insert_not_full(lower_half(l), k, v)
             high == IF insertHere(upper_half(l), k) THEN insert_not_full(upper_half(l), k, v)
                     ELSE upper_half(l)
  <2>1. /\ low \in Leaves /\ Sorted(low) /\ KeysOf(low) # {}
        /\ high \in Leaves /\ Sorted(high)
        /\ \A j \in KeysOf(low), h \in KeysOf(high) : j < h
        /\ Content(low) \cup Content(high) = Content(l) \cup {[key |-> k, val |-> v]}
    BY <1>2, <1>5, <1>10, SplitLemma
  <2>2. r = [lt |-> synonym_emplace_back(ms[m], i, p, u),
             mem |-> [mem EXCEPT ![cur] = low, ![u] = high],
             used |-> u + 1, ok |-> TRUE]
    BY <1>3, <1>10
  <2> HIDE DEF low, high
  <2>3. InsertSplit(ms, mem, u, x, k, v, r)
    BY <1>1, <1>5, <1>7, <1>10, <2>1, <2>2 DEF InsertSplit
  <2> QED
    BY <1>1, <1>4, <1>10, <2>3 DEF r
<1> QED
  BY <1>8, <1>9, <1>10

\* One table of the index is replaced.
Replaced(ms, m, lt) == [ms EXCEPT ![m] = lt]

IsFunction(ms) == ms = [m \in DOMAIN ms |-> ms[m]]

\* insert_synonym keeps the index consistent.
LEMMA InsertStep ==
  ASSUME N % 2 = 0, NEW ms, NEW mem, NEW u, Consistent(ms, mem, u), IsFunction(ms),
         NEW m \in DOMAIN ms,
         NEW k \in Keys, NEW v \in Vals,
         NEW a \in Nat, NEW b \in Nat, a <= b, a .. b \subseteq DOMAIN ms[m].table,
         NeedsLeaf(ms[m], mem, k, a, b) => u < Pool
  PROVE  LET r == Insert(ms[m], mem, u, k, v, a, b)
         IN  /\ Consistent(Replaced(ms, m, r.lt), r.mem, r.used)
             /\ DOMAIN r.lt.table = DOMAIN ms[m].table
             /\ r.used \in {u, u + 1}
             /\ \/ r.lt.next = ms[m].next
                \/ ~ Full(ms[m]) /\ r.lt.next = ms[m].next + 1
<1> DEFINE r == Insert(ms[m], mem, u, k, v, a, b)
           x == Spot(ms, mem, m, k, a, b)
           i == Entry(ms[m], mem, k, a, b)
           p == Place(ms[m], mem, k, i)
           l == mem[Num(ms, x)]
<1>1. /\ x = <<m, i, p>> /\ x \in Places(ms) /\ Takes(ms, mem, x, k)
      /\ i \in DOMAIN ms[m].table /\ p \in 0 .. Len(Chain(ms[m], i))
  BY SpotLemma
<1>2. \/ InsertRefused(ms, mem, u, x, k, r)
      \/ InsertWritten(ms, mem, u, x, k, v, r)
      \/ InsertSplit(ms, mem, u, x, k, v, r) /\ NeedsLeaf(ms[m], mem, k, a, b)
  BY InsertCases
<1> HIDE DEF r, x, i, p
<1>3. x[1] = m /\ x[2] = i /\ x[3] = p
  BY <1>1
<1>4. l \in Leaves
  BY <1>1, PlaceFacts
<1>5. Replaced(ms, m, ms[m]) = ms
  BY DEF IsFunction, Replaced
<1> HIDE DEF l
<1>6. CASE InsertRefused(ms, mem, u, x, k, r)
  <2>1. r.lt = ms[m] /\ r.mem = mem /\ r.used = u
    BY <1>3, <1>6 DEF InsertRefused
  <2> QED
    BY <1>5, <2>1 DEF r
<1>7. CASE InsertWritten(ms, mem, u, x, k, v, r)
  <2>1. PICK w \in Leaves :
          /\ Sorted(w) /\ Content(w) = Content(l) \cup {[key |-> k, val |-> v]}
          /\ r = [lt |-> ms[m], mem |-> [mem EXCEPT ![Num(ms, x)] = w], used |-> u, ok |-> TRUE]
    BY <1>3, <1>7 DEF InsertWritten, l
  <2>2. r.lt = ms[m] /\ r.mem = [mem EXCEPT ![Num(ms, x)] = w] /\ r.used = u
    BY <2>1
  <2>3. \A j \in KeysOf(w) : j \in KeysOf(l) \/ j = k
    BY <1>4, <2>1, KeysAdded
  <2>4. \A j \in KeysOf(w) : j \in KeysOf(l) \/ Takes(ms, mem, x, j)
    BY <1>1, <2>3
  <2>5. Consistent(ms, [mem EXCEPT ![Num(ms, x)] = w], u)
    BY <1>1, <2>1, <2>4, WriteStep DEF l
  <2> QED
    BY <1>5, <2>2, <2>5 DEF r
<1>8. CASE InsertSplit(ms, mem, u, x, k, v, r) /\ NeedsLeaf(ms[m], mem, k, a, b)
  <2> DEFINE nt == synonym_emplace_back(ms[m], i, p, u)
             new == [ms EXCEPT ![m] = nt]
             y == <<m, i, p + 1>>
  <2>1. PICK low \in Leaves, high \in Leaves :
          /\ Sorted(low) /\ Sorted(high)
          /\ \A j \in KeysOf(low), h \in KeysOf(high) : j < h
          /\ Content(low) \cup Content(high) = Content(l) \cup {[key |-> k, val |-> v]}
          /\ r = [lt |-> nt, mem |-> [mem EXCEPT ![Num(ms, x)] = low, ![u] = high],
                  used |-> u + 1, ok |-> TRUE]
    BY <1>3, <1>8 DEF InsertSplit, l
  <2>2. /\ r.lt = nt /\ r.mem = [mem EXCEPT ![Num(ms, x)] = low, ![u] = high]
        /\ r.used = u + 1
    BY <2>1
  <2>3. u < Pool /\ u \in Nat
    BY <1>8, PoolAssumption DEF Consistent
  <2>4. Consistent(new, mem, u + 1) /\ KeysOf(mem[u]) = {}
    BY <1>1, <2>3, LinkStep
  <2>5. /\ x \in Places(new) /\ Num(new, x) = Num(ms, x)
        /\ y \in Places(new) /\ Num(new, y) = u
        /\ Takes(new, mem, x, k)
    BY <1>1, <2>3, LinkTakes
  <2>6. Sound(ms[m])
    BY DEF Consistent
  <2>7. nt.next = ms[m].next + 1 /\ DOMAIN nt.table = DOMAIN ms[m].table
    BY <1>1, <2>3, <2>6, EmplaceLeaves
  <2> HIDE DEF nt, new
  <2>8. \A j \in KeysOf(low) \cup KeysOf(high) : j \in KeysOf(l) \/ j = k
    BY <1>4, <2>1, KeysShared DEF Shared
  <2>9. \A j \in KeysOf(low) \cup KeysOf(high) :
           j \in KeysOf(mem[Num(new, x)]) \/ Takes(new, mem, x, j)
    BY <2>5, <2>8 DEF l
  <2>10. SameEntry(x, y) /\ y[3] = x[3] + 1
    BY <1>3 DEF SameEntry
  <2> HIDE DEF y
  <2>11. Consistent(new, [mem EXCEPT ![Num(new, x)] = low, ![Num(new, y)] = high], u + 1)
    BY <2>1, <2>4, <2>5, <2>9, <2>10, ShareStep
  <2>12. Replaced(ms, m, r.lt) = new
    BY <2>2 DEF Replaced, new
  <2>13. ~ Full(ms[m])
    BY <1>3, <1>8 DEF InsertSplit
  <2> QED
    BY <2>2, <2>5, <2>7, <2>11, <2>12, <2>13 DEF r
<1> QED
  BY <1>2, <1>6, <1>7, <1>8

\* update_synonym keeps the index consistent.
LEMMA UpdateStep ==
  ASSUME NEW ms, NEW mem, NEW u, Consistent(ms, mem, u), NEW m \in DOMAIN ms,
         NEW k \in Keys, NEW v \in Vals,
         NEW a \in Nat, NEW b \in Nat, a <= b, a .. b \subseteq DOMAIN ms[m].table
  PROVE  Consistent(ms, Update(ms[m], mem, k, v, a, b).mem, u)
<1> DEFINE x == Spot(ms, mem, m, k, a, b)
           l == mem[Num(ms, x)]
           w == update(l, k, v)
<1>1. x \in Places(ms)
  BY SpotLemma
<1>2. Update(ms[m], mem, k, v, a, b).mem = [mem EXCEPT ![Num(ms, x)] = w]
  <2>1. Num(ms, x) = LET i == Entry(ms[m], mem, k, a, b)
                     IN  LeafNum(ms[m], i, Place(ms[m], mem, k, i))
    BY SpotLemma
  <2>2. Num(ms, x) \in 0 .. Pool - 1 /\ mem \in [0 .. Pool - 1 -> Leaves]
    BY <1>1, PlaceFacts DEF Consistent
  <2> HIDE DEF x
  <2> QED
    BY <2>1, <2>2 DEF Update
<1> HIDE DEF x
<1>3. l \in Leaves /\ Sorted(l)
  BY <1>1, PlaceFacts
<1> HIDE DEF l
<1>4. w \in Leaves /\ Sorted(w) /\ KeysOf(w) = KeysOf(l)
  BY <1>3, UpdateLemma
<1> HIDE DEF w
<1>5. Consistent(ms, [mem EXCEPT ![Num(ms, x)] = w], u)
  BY <1>1, <1>4, WriteStep DEF l
<1> QED
  BY <1>2, <1>5

\* remove_synonym keeps the index consistent.
LEMMA RemoveStep ==
  ASSUME NEW ms, NEW mem, NEW u, Consistent(ms, mem, u), IsFunction(ms),
         NEW m \in DOMAIN ms, NEW k \in Keys,
         NEW a \in Nat, NEW b \in Nat, a <= b, a .. b \subseteq DOMAIN ms[m].table
  PROVE  LET r == Remove(ms[m], mem, k, a, b)
         IN  /\ Consistent(Replaced(ms, m, r.lt), r.mem, u)
             /\ DOMAIN r.lt.table = DOMAIN ms[m].table
             /\ r.lt.next = ms[m].next
<1> DEFINE r == Remove(ms[m], mem, k, a, b)
           i == Entry(ms[m], mem, k, a, b)
           p == Place(ms[m], mem, k, i)
           x == Spot(ms, mem, m, k, a, b)
           l == mem[Num(ms, x)]
           w == remove(l, k)
           new == [mem EXCEPT ![Num(ms, x)] = w]
<1>1. /\ x = <<m, i, p>> /\ x \in Places(ms)
      /\ i \in DOMAIN ms[m].table /\ p \in 0 .. Len(Chain(ms[m], i))
      /\ Num(ms, x) = LeafNum(ms[m], i, p)
  BY SpotLemma
<1>2. l \in Leaves /\ Sorted(l)
  BY <1>1, PlaceFacts
<1>3. Num(ms, x) \in 0 .. Pool - 1 /\ mem \in [0 .. Pool - 1 -> Leaves]
  BY <1>1, PlaceFacts DEF Consistent
<1>4. /\ r.mem = new
      /\ r.lt = IF isEmpty(w) /\ p # 0 THEN synonym_table_remove(ms[m], i, p) ELSE ms[m]
  <2> HIDE DEF x
  <2> QED
    BY <1>1, <1>3 DEF Remove
<1> HIDE DEF r, x, i, p
<1> HIDE DEF l
<1>5. w \in Leaves /\ Sorted(w) /\ Content(w) = {e \in Content(l) : e.key # k}
  BY <1>2, RemoveLemma
<1> HIDE DEF w
<1>6. KeysOf(w) \subseteq KeysOf(l)
  <2>1. \A j : j \in KeysOf(w) <=> \E e \in Content(w) : e.key = j
    BY <1>5, KeysLemma
  <2>2. \A j : j \in KeysOf(l) <=> \E e \in Content(l) : e.key = j
    BY <1>2, KeysLemma
  <2> QED
    BY <1>5, <2>1, <2>2
<1>7. Consistent(ms, new, u) /\ new[Num(ms, x)] = w
  BY <1>1, <1>5, <1>6, WriteStep DEF l
<1> HIDE DEF new
<1>8. CASE isEmpty(w) /\ p # 0
  <2> DEFINE nt == synonym_table_remove(ms[m], i, p)
  <2>1. r.lt = nt
    BY <1>4, <1>8
  <2>2. Sound(ms[m])
    BY DEF Consistent
  <2>3. p \in 1 .. Len(Chain(ms[m], i))
    BY <1>1, <1>8, <2>2, ChainLemma
  <2>4. KeysOf(new[LeafNum(ms[m], i, p)]) = {}
    BY <1>1, <1>5, <1>7, <1>8, FirstKeyLemma
  <2>5. Consistent([ms EXCEPT ![m] = nt], new, u)
    BY <1>1, <1>7, <2>3, <2>4, UnlinkStep
  <2>6. nt.next = ms[m].next /\ DOMAIN nt.table = DOMAIN ms[m].table
    BY <1>1, <2>2, <2>3, UnlinkLeaves
  <2> HIDE DEF nt
  <2> QED
    BY <1>4, <2>1, <2>5, <2>6 DEF r, Replaced
<1>9. CASE ~ (isEmpty(w) /\ p # 0)
  <2>1. r.lt = ms[m]
    BY <1>4, <1>9
  <2>2. Replaced(ms, m, ms[m]) = ms
    BY DEF IsFunction, Replaced
  <2> QED
    BY <1>4, <1>7, <2>1, <2>2 DEF r
<1> QED
  BY <1>8, <1>9
-----------------------------------------------------------------------------
\* What step i of a sequence of n values has, all of it has, from there on.
LEMMA StepOn ==
  ASSUME NEW n \in Nat, NEW f, \A i \in 1 .. n : f[i] \in Int,
         \A i \in 1 .. n - 1 : f[i] <= f[i + 1]
  PROVE  \A i, j \in 1 .. n : i <= j => f[i] <= f[j]
<1> SUFFICES ASSUME NEW i \in 1 .. n
             PROVE  \A j \in 1 .. n : i <= j => f[i] <= f[j]
  OBVIOUS
<1> DEFINE S == {j \in 1 .. n : i <= j /\ ~ (f[i] <= f[j])}
<1>1. S = {}
  <2> SUFFICES ASSUME S # {} PROVE FALSE
    OBVIOUS
  <2>1. S \in SUBSET Nat
    OBVIOUS
  <2>2. PICK j \in S : \A h \in S : j <= h
    <3> HIDE DEF S
    <3> QED
      BY <2>1, LeastNumber
  <2>3. j \in 1 .. n /\ i <= j /\ ~ (f[i] <= f[j])
    OBVIOUS
  <2>4. j # i
    <3>1. f[i] \in Int
      OBVIOUS
    <3> QED
      BY <2>3, <3>1
  <2>5. j - 1 \in 1 .. n - 1 /\ j - 1 \in 1 .. n /\ i <= j - 1 /\ (j - 1) + 1 = j /\ ~ (j <= j - 1)
    BY <2>3, <2>4
  <2>6. f[i] <= f[j - 1]
    BY <2>2, <2>5
  <2>7. f[j - 1] <= f[(j - 1) + 1] /\ f[i] \in Int /\ f[j - 1] \in Int /\ f[j] \in Int
    BY <2>3, <2>5
  <2>8. f[j - 1] <= f[j]
    BY <2>5, <2>7
  <2> QED
    BY <2>3, <2>6, <2>7, <2>8
<1> QED
  BY <1>1

\* A trained model has leaves.
LEMMA LeavesOfModel ==
  ASSUME NEW m, Trained(m)
  PROVE  TrainedLeaves(m) \in Nat /\ TrainedLeaves(m) > 0
<1>1. m.capacity \in Nat \ {0}
  BY DEF Trained
<1> QED
  BY <1>1, LeavesLemma DEF TrainedLeaves

\* A load, model by model
LEMMA LoadLemma ==
  ASSUME NEW n \in DOMAIN Loads
  PROVE  LET training == Loads[n].training
         IN  /\ Len(training) \in Nat /\ Len(training) > 0
             /\ DOMAIN training = 1 .. Len(training)
             /\ \A i \in 1 .. Len(training) :
                  /\ Trained(training[i])
                  /\ TrainedLeaves(training[i]) \in Nat /\ TrainedLeaves(training[i]) > 0
                  /\ last_key(training[i]) \in Nat
             /\ \A i \in 1 .. Len(training) - 1 :
                  last_key(training[i]) <= last_key(training[i + 1])
             /\ Loads[n].writes \subseteq Keys /\ Loads[n].removes \subseteq Keys
             /\ Loads[n].values \subseteq Vals /\ TrainedVal \in Vals
<1> DEFINE training == Loads[n].training
           size == Len(training)
<1>1. /\ size \in Nat \ {0} /\ DOMAIN training = 1 .. size
      /\ \A i \in DOMAIN training :
           /\ Trained(training[i])
           /\ i > 1 => last_key(training[i - 1]) < training[i].keys[1]
      /\ Loads[n].writes \cup Loads[n].removes \subseteq Keys
      /\ Loads[n].values \cup {TrainedVal} \subseteq Vals
  BY LoadsAssumption
<1> HIDE DEF training, size
<1>2. size \in Nat /\ size > 0
  BY <1>1
<1>3. ASSUME NEW i \in 1 .. size
      PROVE  /\ Trained(training[i])
             /\ TrainedLeaves(training[i]) \in Nat /\ TrainedLeaves(training[i]) > 0
             /\ last_key(training[i]) \in Nat /\ training[i].keys[1] \in Nat
             /\ training[i].keys[1] <= last_key(training[i])
  <2> DEFINE m == training[i]
  <2>1. Trained(m)
    BY <1>1
  <2>2. InvalidKey \in Nat /\ Keys \subseteq Nat
    BY LeafAssumption DEF Keys
  <2>3. TrainedLeaves(m) \in Nat /\ TrainedLeaves(m) > 0
    BY <2>1, LeavesOfModel
  <2> HIDE DEF m
  <2>4. m.capacity \in Nat \ {0} /\ m.keys \in Seq(Keys) /\ m.capacity = Len(m.keys)
    BY <2>1 DEF Trained
  <2>5. 1 \in 1 .. Len(m.keys) /\ m.capacity \in 1 .. Len(m.keys)
    BY <2>4
  <2>6. m.keys[1] \in Nat /\ m.keys[m.capacity] \in Nat
    BY <2>2, <2>4, <2>5, ElementLemma
  <2>7. m.keys[1] <= m.keys[m.capacity]
    <3>1. CASE m.capacity = 1
      BY <2>6, <3>1
    <3>2. CASE m.capacity # 1
      <4>1. 1 \in 1 .. m.capacity /\ m.capacity \in 1 .. m.capacity /\ 1 < m.capacity
        <5>1. \A c \in Nat \ {0} : c # 1 => 1 \in 1 .. c /\ c \in 1 .. c /\ 1 < c
          OBVIOUS
        <5> QED
          BY <2>4, <3>2, <5>1
      <4> QED
        BY <2>1, <2>6, <4>1, KeysIncrease
    <3> QED
      BY <3>1, <3>2
  <2> QED
    BY <2>1, <2>3, <2>6, <2>7 DEF last_key, m
<1>4. ASSUME NEW i \in 1 .. size - 1
      PROVE  last_key(training[i]) <= last_key(training[i + 1])
  <2>1. i \in 1 .. size /\ i + 1 \in 1 .. size /\ i + 1 > 1 /\ (i + 1) - 1 = i
    BY <1>2
  <2>2. last_key(training[i]) < training[i + 1].keys[1]
    BY <1>1, <2>1
  <2> QED
    BY <1>3, <2>1, <2>2
<1> QED
  BY <1>1, <1>2, <1>3, <1>4 DEF training, size

\* The models take their leaves from the pool one after the other.
LEMMA FirstLeafLemma ==
  ASSUME NEW n \in DOMAIN Loads
  PROVE  LET training == Loads[n].training
             first == first_leaf[n]
         IN  /\ first[1] = 0
             /\ \A i \in 1 .. Len(training) + 1 : first[i] \in Nat
             /\ \A i \in 1 .. Len(training) :
                  first[i + 1] = first[i] + TrainedLeaves(training[i])
             /\ \A i, j \in 1 .. Len(training) + 1 : i <= j => first[i] <= first[j]
<1> DEFINE training == Loads[n].training
           size == Len(training)
           F(f) == [i \in 1 .. size + 1 |->
                      IF i = 1 THEN 0 ELSE f[i - 1] + TrainedLeaves(training[i - 1])]
           G == [x \in Nat \X Nat |->
                   IF x[1] + 1 \in 1 .. size
                     THEN x[2] + TrainedLeaves(training[x[1] + 1]) ELSE 0]
           first == first_leaf[n]
<1>1. /\ size \in Nat
      /\ \A i \in 1 .. size : TrainedLeaves(training[i]) \in Nat
  BY LoadLemma
<1>2. first = CHOOSE f : f = F(f)
  BY DEF first_leaf
<1> HIDE DEF training, size, first
<1>3. /\ G \in [Nat \X Nat -> Nat]
      /\ \A j, v \in Nat : j + 1 \in 1 .. size =>
           G[<<j, v>>] = v + TrainedLeaves(training[j + 1])
  <2>1. \A x \in Nat \X Nat : x[1] \in Nat /\ x[2] \in Nat
    OBVIOUS
  <2>2. \A x \in Nat \X Nat : x[1] + 1 \in 1 .. size =>
          x[2] + TrainedLeaves(training[x[1] + 1]) \in Nat
    BY <1>1, <2>1
  <2> QED
    BY <2>2
<1> HIDE DEF G
<1>4. PICK g \in [Nat -> Nat] : g[0] = 0 /\ \A j \in Nat : g[j + 1] = G[<<j, g[j]>>]
  <2> DEFINE V == Nat
  <2>1. 0 \in V /\ G \in [Nat \X V -> V]
    BY <1>3
  <2> HIDE DEF V
  <2>2. Steps(V, 0, G)
    BY <2>1, StepByStep
  <2> QED
    BY <2>2 DEF V, Steps
<1> DEFINE f == [i \in 1 .. size + 1 |-> g[i - 1]]
<1>5. ASSUME NEW i \in 1 .. size + 1 PROVE f[i] = F(f)[i]
  <2>0. f[i] = g[i - 1] /\ i - 1 \in Nat
    BY <1>1
  <2>1. CASE i = 1
    BY <1>4, <2>0, <2>1
  <2>2. CASE i # 1
    <3>1. /\ i - 1 \in 1 .. size + 1 /\ i - 2 \in Nat /\ (i - 2) + 1 \in 1 .. size
          /\ (i - 2) + 1 = i - 1 /\ (i - 1) - 1 = i - 2
      BY <1>1, <2>2
    <3>2. g[(i - 2) + 1] = G[<<i - 2, g[i - 2]>>] /\ g[i - 2] \in Nat
      BY <1>4, <3>1
    <3>3. G[<<i - 2, g[i - 2]>>] = g[i - 2] + TrainedLeaves(training[(i - 2) + 1])
      BY <1>3, <3>1, <3>2
    <3>4. f[i - 1] = g[i - 2]
      BY <3>1
    <3>5. F(f)[i] = f[i - 1] + TrainedLeaves(training[i - 1])
      <4> HIDE DEF f
      <4> QED
        BY <2>2
    <3> QED
      BY <2>0, <3>1, <3>2, <3>3, <3>4, <3>5
  <2> QED
    BY <2>1, <2>2
<1>6. f = F(f)
  <2> HIDE DEF F
  <2>1. f = [i \in 1 .. size + 1 |-> f[i]]
    OBVIOUS
  <2>2. F(f) = [i \in 1 .. size + 1 |-> F(f)[i]]
    BY DEF F
  <2> HIDE DEF f
  <2> QED
    BY <1>5, <2>1, <2>2
<1> HIDE DEF f
<1>7. first = F(first)
  <2> HIDE DEF F
  <2> QED
    BY <1>2, <1>6
<1>8. \A i \in 1 .. size + 1 :
        first[i] = IF i = 1 THEN 0 ELSE first[i - 1] + TrainedLeaves(training[i - 1])
  BY <1>7
<1> HIDE DEF F
<1>9. first[1] = 0
  <2>1. 1 \in 1 .. size + 1
    BY <1>1
  <2> QED
    BY <1>8, <2>1
<1>10. ASSUME NEW i \in 1 .. size
       PROVE  first[i + 1] = first[i] + TrainedLeaves(training[i])
  <2>1. i + 1 \in 1 .. size + 1 /\ i + 1 # 1 /\ (i + 1) - 1 = i
    BY <1>1
  <2> QED
    BY <1>8, <2>1
<1> DEFINE S == {i \in 1 .. size + 1 : first[i] \notin Nat}
<1>11. S = {}
  <2> SUFFICES ASSUME S # {} PROVE FALSE
    OBVIOUS
  <2>1. S \in SUBSET Nat
    OBVIOUS
  <2>2. PICK j \in S : \A h \in S : j <= h
    <3> HIDE DEF S
    <3> QED
      BY <2>1, LeastNumber
  <2>3. j \in 1 .. size + 1 /\ first[j] \notin Nat
    OBVIOUS
  <2>4. j # 1
    BY <1>9, <2>3
  <2>5. j - 1 \in 1 .. size + 1 /\ j - 1 \in 1 .. size /\ (j - 1) + 1 = j /\ ~ (j <= j - 1)
    BY <1>1, <2>3, <2>4
  <2>6. first[j - 1] \in Nat
    BY <2>2, <2>5
  <2>7. first[(j - 1) + 1] = first[j - 1] + TrainedLeaves(training[j - 1])
    BY <1>10, <2>5
  <2>8. first[j] \in Nat
    BY <1>1, <2>5, <2>6, <2>7
  <2> QED
    BY <2>3, <2>8
<1>12. \A i \in 1 .. size + 1 : first[i] \in Nat
  BY <1>11
<1>13. \A i, j \in 1 .. size + 1 : i <= j => first[i] <= first[j]
  <2> DEFINE s == size + 1
  <2>1. s \in Nat /\ s - 1 = size
    BY <1>1
  <2>2. ASSUME NEW i \in 1 .. s - 1 PROVE first[i] <= first[i + 1]
    <3>1. i \in 1 .. size /\ i \in 1 .. size + 1
      BY <1>1
    <3> QED
      BY <1>1, <1>10, <1>12, <3>1
  <2>3. \A i \in 1 .. s : first[i] \in Int
    BY <1>12
  <2> HIDE DEF s
  <2>4. \A i, j \in 1 .. s : i <= j => first[i] <= first[j]
    BY <2>1, <2>2, <2>3, StepOn
  <2> QED
    BY <2>4 DEF s
<1> QED
  BY <1>9, <1>10, <1>12, <1>13 DEF first, training, size

\* model_for_key and predict: every key has a model of the load, and a window inside
\* the leaves of this model.
LEMMA ModelLemma ==
  ASSUME NEW n \in DOMAIN Loads, NEW k \in Keys
  PROVE  LET training == Loads[n].training
             m == model_index[n][k]
             w == windows[n][k]
         IN  /\ m \in 1 .. Len(training)
             /\ w = [lo |-> lo(training[m], k), hi |-> hi(training[m], k)]
             /\ w.lo \in Nat /\ w.hi \in Nat /\ w.lo <= w.hi
             /\ w.lo .. w.hi \subseteq 0 .. TrainedLeaves(training[m]) - 1
<1> DEFINE training == Loads[n].training
           size == Len(training)
           model_keys == [i \in DOMAIN training |-> last_key(training[i])]
           m == model_index[n][k]
           w == windows[n][k]
<1>1. /\ size \in Nat /\ size > 0 /\ DOMAIN training = 1 .. size
      /\ \A i \in 1 .. size : Trained(training[i]) /\ last_key(training[i]) \in Nat
      /\ \A i \in 1 .. size - 1 : last_key(training[i]) <= last_key(training[i + 1])
  BY LoadLemma
<1>2. m = model_for_key(model_keys, k) + 1
  BY DEF model_index
<1>3. w = [lo |-> lo(training[m], k), hi |-> hi(training[m], k)]
  BY DEF windows
<1> HIDE DEF training, size, m, w
<1>4. model_keys \in Seq(Nat) /\ Len(model_keys) = size
  <2>1. model_keys \in [1 .. size -> Nat] /\ size \in Nat
    BY <1>1
  <2> HIDE DEF model_keys
  <2> QED
    BY <2>1
<1>5. \A i \in 1 .. size : model_keys[i] = last_key(training[i])
  BY <1>1
<1> HIDE DEF model_keys
<1>6. \A i, j \in 1 .. size : i <= j => model_keys[i] <= model_keys[j]
  <2>1. \A i \in 1 .. size : model_keys[i] \in Int
    BY <1>1, <1>5
  <2>2. ASSUME NEW i \in 1 .. size - 1 PROVE model_keys[i] <= model_keys[i + 1]
    <3>1. i \in 1 .. size /\ i + 1 \in 1 .. size
      BY <1>1
    <3> QED
      BY <1>1, <1>5, <3>1
  <2> QED
    BY <1>1, <2>1, <2>2, StepOn
<1>7. k \in Nat
  BY LeafAssumption DEF Keys
<1>8. model_for_key(model_keys, k) \in 0 .. size - 1
  BY <1>1, <1>4, <1>6, <1>7, ModelForKey
<1>9. m \in 1 .. size
  BY <1>1, <1>2, <1>8
<1>10. /\ TrainedLeaves(training[m]) \in Nat
       /\ lo(training[m], k) \in Nat /\ hi(training[m], k) \in Nat
       /\ lo(training[m], k) <= hi(training[m], k)
       /\ hi(training[m], k) <= TrainedLeaves(training[m]) - 1
  BY <1>1, <1>9, WindowLemma
<1>11. w.lo = lo(training[m], k) /\ w.hi = hi(training[m], k)
  BY <1>3
<1>12. w.lo .. w.hi \subseteq 0 .. TrainedLeaves(training[m]) - 1
  BY <1>10, <1>11
<1> QED
  BY <1>3, <1>9, <1>10, <1>11, <1>12 DEF training, size, m, w
-----------------------------------------------------------------------------
\* What the state of the index is: the tables have the entries that training gave
\* them and their synonym slots are in range, the leaves fetched are at least those of
\* the training, and the index is consistent.
IndexInv ==
  /\ load \in DOMAIN Loads
  /\ IsFunction(models) /\ DOMAIN models = Models
  /\ \A m \in Models :
       /\ DOMAIN models[m].table = 0 .. TrainedLeaves(Training[m]) - 1
       /\ models[m].next \in 1 .. SynonymMax - 1
  /\ used >= BaseLeaves
  /\ aborted \in BOOLEAN
  /\ Consistent(models, leaves, used)

\* The leaves that training filled, each in the entry that it was appended to
Appended ==
  /\ \A i \in Models : \A e \in 0 .. TrainedLeaves(Training[i]) - 1 :
       /\ <<i, e, 0>> \in Places(models) /\ Num(models, <<i, e, 0>>) = FirstLeaf(i) + e
       /\ models[i].table[e].leaf_num = FirstLeaf(i) + e
  /\ \A n \in 0 .. Pool - 1 : KeysOf(leaves[n]) # {} =>
       \E i \in Models : \E e \in 0 .. TrainedLeaves(Training[i]) - 1 :
         n = FirstLeaf(i) + e /\ leaves[n] = TrainedLeaf(Training[i], e, TrainedVal)

\* train(): the index it leaves behind is consistent, each leaf that training filled
\* being in the place it was appended to.
LEMMA InitLemma == Init => IndexInv /\ Appended
<1> SUFFICES ASSUME Init PROVE IndexInv /\ Appended
  OBVIOUS
<1> DEFINE size == Len(Training)
           TL(i) == TrainedLeaves(Training[i])
           nums(i) == [l \in 1 .. TL(i) |-> FirstLeaf(i) + l - 1]
           owner(n) == Greatest({j \in Models : FirstLeaf(j) <= n})
<1>1. /\ load \in DOMAIN Loads
      /\ models = [i \in Models |-> NewTable(nums(i))]
      /\ leaves = [n \in 0 .. Pool - 1 |->
           IF n >= BaseLeaves THEN NewLeaf
           ELSE TrainedLeaf(Training[owner(n)], n - FirstLeaf(owner(n)), TrainedVal)]
      /\ used = BaseLeaves
      /\ aborted = FALSE
  BY DEF Init
<1>2. /\ size \in Nat /\ size > 0 /\ Models = 1 .. size
      /\ \A i \in Models : Trained(Training[i]) /\ TL(i) \in Nat /\ TL(i) > 0
      /\ TrainedVal \in Vals
  BY <1>1, LoadLemma DEF Training, Models
<1>3. /\ FirstLeaf(1) = 0 /\ \A i \in 1 .. size + 1 : FirstLeaf(i) \in Nat
      /\ \A i \in 1 .. size : FirstLeaf(i + 1) = FirstLeaf(i) + TL(i)
      /\ \A i, j \in 1 .. size + 1 : i <= j => FirstLeaf(i) <= FirstLeaf(j)
  BY <1>1, FirstLeafLemma DEF Training, FirstLeaf
<1>4. BaseLeaves = FirstLeaf(size + 1) /\ BaseLeaves <= Pool /\ Pool \in Nat
  BY <1>1, PoolAssumption DEF BaseLeaves, FirstLeaf, Training
<1>5. BaseLeaves \in Nat
  BY <1>2, <1>3, <1>4
<1> HIDE DEF size, owner, TL
<1>6. ASSUME NEW i \in Models
      PROVE  /\ nums(i) \in Seq(Nat) /\ Len(nums(i)) = TL(i)
             /\ \A l \in 1 .. TL(i) : nums(i)[l] = FirstLeaf(i) + l - 1
  <2>1. FirstLeaf(i) \in Nat /\ TL(i) \in Nat
    BY <1>2, <1>3
  <2>2. \A l \in 1 .. TL(i) : FirstLeaf(i) + l - 1 \in Nat
    BY <2>1
  <2>3. nums(i) \in [1 .. TL(i) -> Nat]
    BY <2>2
  <2> QED
    BY <2>1, <2>3
<1> HIDE DEF nums
<1>7. /\ DOMAIN models = Models /\ IsFunction(models)
      /\ \A i \in Models : models[i] = NewTable(nums(i))
  BY <1>1 DEF IsFunction
<1>8. ASSUME NEW i \in Models
      PROVE  /\ Sound(models[i]) /\ models[i].next = 1
             /\ DOMAIN models[i].table = 0 .. TL(i) - 1
             /\ \A e \in 0 .. TL(i) - 1 : /\ models[i].table[e].leaf_num = FirstLeaf(i) + e
                                          /\ Len(Chain(models[i], e)) = 0
  <2>1. /\ Sound(models[i]) /\ models[i].next = 1
        /\ DOMAIN models[i].table = 0 .. Len(nums(i)) - 1
        /\ \A e \in DOMAIN models[i].table : /\ models[i].table[e].leaf_num = nums(i)[e + 1]
                                             /\ Len(Chain(models[i], e)) = 0
    BY <1>6, <1>7, NewTableLemma
  <2>2. ASSUME NEW e \in 0 .. TL(i) - 1
        PROVE  nums(i)[e + 1] = FirstLeaf(i) + e
    <3>1. e + 1 \in 1 .. TL(i) /\ e \in Nat /\ FirstLeaf(i) \in Nat
      BY <1>2, <1>3
    <3>2. nums(i)[e + 1] = FirstLeaf(i) + (e + 1) - 1
      BY <1>6, <3>1
    <3> QED
      BY <3>1, <3>2
  <2> QED
    BY <1>6, <2>1, <2>2
<1>9. \A x \in Places(models) :
        /\ x = <<x[1], x[2], x[3]>> /\ x[1] \in Models /\ x[2] \in 0 .. TL(x[1]) - 1
        /\ x[3] = 0 /\ Num(models, x) = FirstLeaf(x[1]) + x[2]
  <2> SUFFICES ASSUME NEW x \in Places(models)
               PROVE  /\ x = <<x[1], x[2], x[3]>> /\ x[1] \in Models
                      /\ x[2] \in 0 .. TL(x[1]) - 1
                      /\ x[3] = 0 /\ Num(models, x) = FirstLeaf(x[1]) + x[2]
    OBVIOUS
  <2>1. /\ x = <<x[1], x[2], x[3]>> /\ x[1] \in Models
        /\ x[2] \in DOMAIN models[x[1]].table
        /\ x[3] \in 0 .. Len(Chain(models[x[1]], x[2]))
    BY <1>7, PlacesLemma
  <2>2. x[2] \in 0 .. TL(x[1]) - 1
    BY <1>8, <2>1
  <2>3. x[3] = 0
    BY <1>8, <2>1, <2>2
  <2>4. Num(models, x) = models[x[1]].table[x[2]].leaf_num
    BY <2>3 DEF Num, LeafNum
  <2> QED
    BY <1>8, <2>1, <2>2, <2>3, <2>4
<1>10. \A i \in Models : \A e \in 0 .. TL(i) - 1 :
         <<i, e, 0>> \in Places(models) /\ Num(models, <<i, e, 0>>) = FirstLeaf(i) + e
  <2> SUFFICES ASSUME NEW i \in Models, NEW e \in 0 .. TL(i) - 1
               PROVE  /\ <<i, e, 0>> \in Places(models)
                      /\ Num(models, <<i, e, 0>>) = FirstLeaf(i) + e
    OBVIOUS
  <2>a. i \in DOMAIN models
    BY <1>7
  <2>b. e \in DOMAIN models[i].table /\ Len(Chain(models[i], e)) = 0
    BY <1>8
  <2>c. 0 \in 0 .. Len(Chain(models[i], e))
    BY <2>b
  <2>1. <<i, e, 0>> \in Places(models)
    BY <2>a, <2>b, <2>c, PlacesLemma
  <2> QED
    BY <1>9, <2>1
\* the models' leaves follow one another
<1>11. \A i, j \in Models : i < j => FirstLeaf(i) + TL(i) <= FirstLeaf(j)
  <2> SUFFICES ASSUME NEW i \in Models, NEW j \in Models, i < j
               PROVE  FirstLeaf(i) + TL(i) <= FirstLeaf(j)
    OBVIOUS
  <2>1. i \in 1 .. size /\ j \in 1 .. size + 1 /\ i + 1 \in 1 .. size + 1 /\ i + 1 <= j
    BY <1>2
  <2> QED
    BY <1>3, <2>1
<1>12. PlacedOnce(models)
  <2> SUFFICES ASSUME NEW x \in Places(models), NEW y \in Places(models),
                      Num(models, x) = Num(models, y)
               PROVE  x = y
    BY DEF PlacedOnce
  <2>1. /\ x = <<x[1], x[2], 0>> /\ x[1] \in Models /\ x[2] \in 0 .. TL(x[1]) - 1
        /\ y = <<y[1], y[2], 0>> /\ y[1] \in Models /\ y[2] \in 0 .. TL(y[1]) - 1
        /\ FirstLeaf(x[1]) + x[2] = FirstLeaf(y[1]) + y[2]
    BY <1>9
  <2>2. /\ x[1] \in Nat /\ y[1] \in Nat /\ x[2] \in Nat /\ y[2] \in Nat
        /\ FirstLeaf(x[1]) \in Nat /\ FirstLeaf(y[1]) \in Nat
        /\ TL(x[1]) \in Nat /\ TL(y[1]) \in Nat
        /\ x[2] < TL(x[1]) /\ y[2] < TL(y[1])
    BY <1>2, <1>3, <2>1
  <2>3. ~ (x[1] < y[1])
    BY <1>11, <2>1, <2>2
  <2>4. ~ (y[1] < x[1])
    BY <1>11, <2>1, <2>2
  <2>5. x[1] = y[1]
    BY <2>2, <2>3, <2>4
  <2>6. x[2] = y[2]
    BY <2>1, <2>2, <2>5
  <2> QED
    BY <2>1, <2>5, <2>6
\* the model that a leaf of the training belongs to
<1>13. ASSUME NEW n \in 0 .. Pool - 1, n < BaseLeaves
       PROVE  /\ owner(n) \in Models /\ n - FirstLeaf(owner(n)) \in 0 .. TL(owner(n)) - 1
              /\ FirstLeaf(owner(n)) \in Nat
  <2> DEFINE S == {j \in Models : FirstLeaf(j) <= n}
  <2>1. 1 \in S
    BY <1>2, <1>3
  <2>2. S \in SUBSET Int /\ \A y \in S : y <= size
    BY <1>2
  <2>3. S # {} /\ size \in Int /\ owner(n) = Greatest(S)
    BY <1>2, <2>1 DEF owner
  <2> HIDE DEF S
  <2>4. owner(n) \in S /\ \A y \in S : y <= owner(n)
    BY <2>2, <2>3, GreatestLemma
  <2> DEFINE o == owner(n)
  <2>5. o \in Models /\ FirstLeaf(o) <= n
    BY <2>4 DEF S
  <2>6. n < FirstLeaf(o + 1)
    <3>1. CASE o = size
      BY <1>4, <1>13, <3>1
    <3>2. CASE o # size
      <4>1. o + 1 \in Models /\ ~ (o + 1 <= o)
        BY <1>2, <2>5, <3>2
      <4>2. ~ (FirstLeaf(o + 1) <= n)
        BY <2>4, <4>1 DEF S
      <4>3. FirstLeaf(o + 1) \in Nat /\ n \in Nat
        BY <1>2, <1>3, <4>1
      <4> QED
        BY <4>2, <4>3
    <3> QED
      BY <3>1, <3>2
  <2>7. FirstLeaf(o + 1) = FirstLeaf(o) + TL(o) /\ FirstLeaf(o) \in Nat /\ TL(o) \in Nat
    BY <1>2, <1>3, <2>5
  <2> HIDE DEF o
  <2>8. n - FirstLeaf(o) \in 0 .. TL(o) - 1
    BY <2>5, <2>6, <2>7
  <2> QED
    BY <2>5, <2>7, <2>8 DEF o
<1>14. ASSUME NEW n \in 0 .. Pool - 1
       PROVE  /\ leaves[n] \in Leaves /\ Sorted(leaves[n])
              /\ n >= BaseLeaves => leaves[n] = NewLeaf
  <2>1. CASE n >= BaseLeaves
    <3>1. leaves[n] = NewLeaf
      BY <1>1, <2>1
    <3> QED
      BY <3>1, NewLeafLemma
  <2>2. CASE ~ (n >= BaseLeaves)
    <3>1. leaves[n] = TrainedLeaf(Training[owner(n)], n - FirstLeaf(owner(n)), TrainedVal)
      BY <1>1, <2>2
    <3>2. n < BaseLeaves
      BY <1>5, <2>2
    <3>3. Trained(Training[owner(n)]) /\ n - FirstLeaf(owner(n)) \in Nat
      <4>1. owner(n) \in Models /\ n - FirstLeaf(owner(n)) \in 0 .. TL(owner(n)) - 1
        BY <1>13, <3>2
      <4> QED
        BY <1>2, <4>1
    <3>4. leaves[n] \in Leaves /\ Sorted(leaves[n])
      BY <1>2, <3>1, <3>3, TrainedLeafLemma
    <3> QED
      BY <2>2, <3>4
  <2> QED
    BY <2>1, <2>2
<1>15. leaves \in [0 .. Pool - 1 -> Leaves]
  <2>1. leaves = [n \in 0 .. Pool - 1 |-> leaves[n]]
    BY <1>1
  <2> QED
    BY <1>14, <2>1
<1>16. Placed(models, leaves)
  <2> SUFFICES ASSUME NEW n \in 0 .. Pool - 1, KeysOf(leaves[n]) # {}
               PROVE  \E x \in Places(models) : Num(models, x) = n
    BY DEF Placed
  <2>1. n < BaseLeaves
    <3>1. KeysOf(NewLeaf) = {}
      BY NewLeafLemma, KeysLemma
    <3> QED
      BY <1>5, <1>14, <3>1
  <2>2. /\ owner(n) \in Models /\ n - FirstLeaf(owner(n)) \in 0 .. TL(owner(n)) - 1
        /\ FirstLeaf(owner(n)) \in Nat
    BY <1>13, <2>1
  <2>3. /\ <<owner(n), n - FirstLeaf(owner(n)), 0>> \in Places(models)
        /\ Num(models, <<owner(n), n - FirstLeaf(owner(n)), 0>>)
             = FirstLeaf(owner(n)) + (n - FirstLeaf(owner(n)))
    BY <1>10, <2>2
  <2>4. FirstLeaf(owner(n)) + (n - FirstLeaf(owner(n))) = n
    BY <2>2
  <2> QED
    BY <2>3, <2>4
<1>17. InOrder(models, leaves)
  BY <1>9 DEF InOrder
<1>18. \A m \in DOMAIN models : Fetched(models[m], used)
  <2> SUFFICES ASSUME NEW m \in Models PROVE Fetched(models[m], used)
    BY <1>7
  <2>1. FirstLeaf(m) \in Nat /\ TL(m) \in Nat /\ FirstLeaf(m) + TL(m) <= BaseLeaves
    <3>1. m \in 1 .. size /\ m + 1 \in 1 .. size + 1 /\ size + 1 \in 1 .. size + 1 /\ m + 1 <= size + 1
      BY <1>2
    <3> QED
      BY <1>2, <1>3, <1>4, <3>1
  <2>2. \A e \in 0 .. TL(m) - 1 : models[m].table[e].leaf_num < used
    BY <1>1, <1>5, <1>8, <2>1
  <2>3. 1 .. models[m].next - 1 = {}
    BY <1>8
  <2> QED
    BY <1>8, <2>2, <2>3 DEF Fetched
<1>19. used \in 0 .. Pool
  BY <1>1, <1>4, <1>5
<1>20. Consistent(models, leaves, used)
  BY <1>7, <1>8, <1>12, <1>14, <1>15, <1>16, <1>17, <1>18, <1>19 DEF Consistent
<1>21. 1 \in 1 .. SynonymMax - 1
  BY SynonymAssumption
<1>22. \A m \in Models : /\ DOMAIN models[m].table = 0 .. TrainedLeaves(Training[m]) - 1
                          /\ models[m].next \in 1 .. SynonymMax - 1
  BY <1>8, <1>21 DEF TL
<1>23. used >= BaseLeaves
  BY <1>1, <1>5
<1>24. aborted \in BOOLEAN
  BY <1>1
<1>25. ASSUME NEW n \in 0 .. Pool - 1, KeysOf(leaves[n]) # {}
       PROVE  \E i \in Models : \E e \in 0 .. TL(i) - 1 :
                n = FirstLeaf(i) + e /\ leaves[n] = TrainedLeaf(Training[i], e, TrainedVal)
  <2> DEFINE o == owner(n)
             f == n - FirstLeaf(owner(n))
  <2>1. n < BaseLeaves
    <3>1. KeysOf(NewLeaf) = {}
      BY NewLeafLemma, KeysLemma
    <3> QED
      BY <1>5, <1>14, <1>25, <3>1
  <2>2. o \in Models /\ f \in 0 .. TL(o) - 1 /\ FirstLeaf(o) \in Nat
    BY <1>13, <2>1
  <2>3. leaves[n] = TrainedLeaf(Training[o], f, TrainedVal)
    BY <1>1, <1>5, <2>1
  <2>4. n = FirstLeaf(o) + f
    BY <2>2
  <2> HIDE DEF o, f
  <2> QED
    BY <2>2, <2>3, <2>4
<1>26. Appended
  BY <1>8, <1>10, <1>25 DEF Appended, TL
<1> QED
  BY <1>1, <1>7, <1>20, <1>22, <1>23, <1>24, <1>26 DEF IndexInv

\* The model and the window that an operation on a key works on
LEMMA WindowFacts ==
  ASSUME IndexInv, NEW k \in Keys
  PROVE  /\ model_for[k] \in Models /\ model_for[k] \in DOMAIN models
         /\ window[k].lo \in Nat /\ window[k].hi \in Nat /\ window[k].lo <= window[k].hi
         /\ window[k].lo .. window[k].hi \subseteq DOMAIN models[model_for[k]].table
<1>1. load \in DOMAIN Loads
  BY DEF IndexInv
<1>2. /\ model_for[k] \in Models
      /\ window[k].lo \in Nat /\ window[k].hi \in Nat /\ window[k].lo <= window[k].hi
      /\ window[k].lo .. window[k].hi \subseteq 0 .. TrainedLeaves(Training[model_for[k]]) - 1
  BY <1>1, ModelLemma DEF model_for, window, Models, Training
<1> QED
  BY <1>2 DEF IndexInv

\* A step leaves a consistent index behind, and nothing of the training changes.
LEMMA IndexKept ==
  ASSUME IndexInv, load' = load, NEW m \in Models, NEW lt, NEW mem, NEW u,
         Consistent(Replaced(models, m, lt), mem, u), u >= used,
         DOMAIN lt.table = DOMAIN models[m].table,
         lt.next = models[m].next \/ (~ Full(models[m]) /\ lt.next = models[m].next + 1),
         models' = Replaced(models, m, lt), leaves' = mem, used' = u, aborted' = aborted
  PROVE  IndexInv'
<1>1. Training' = Training /\ Models' = Models /\ BaseLeaves' = BaseLeaves
  BY DEF Training, Models, BaseLeaves, FirstLeaf
<1>2. /\ IsFunction(models) /\ DOMAIN models = Models
      /\ \A j \in Models : /\ DOMAIN models[j].table = 0 .. TrainedLeaves(Training[j]) - 1
                           /\ models[j].next \in 1 .. SynonymMax - 1
      /\ used >= BaseLeaves /\ load \in DOMAIN Loads
  BY DEF IndexInv
<1>3. /\ DOMAIN Replaced(models, m, lt) = Models /\ Replaced(models, m, lt)[m] = lt
      /\ \A j \in Models : j # m => Replaced(models, m, lt)[j] = models[j]
      /\ IsFunction(Replaced(models, m, lt))
  BY <1>2 DEF Replaced, IsFunction
<1>4. lt.next \in 1 .. SynonymMax - 1
  <2>1. models[m].next \in 1 .. SynonymMax - 1 /\ SynonymMax \in Nat
    BY <1>2, SynonymAssumption
  <2> QED
    BY <2>1 DEF Full
<1>5. u >= BaseLeaves
  <2>1. used \in Int /\ u \in Int /\ BaseLeaves \in Int
    <3>1. Pool \in Nat /\ used \in 0 .. Pool /\ u \in 0 .. Pool
      BY PoolAssumption DEF IndexInv, Consistent
    <3>2. BaseLeaves \in Nat
      <4>1. LET training == Loads[load].training
            IN  /\ Len(training) \in Nat
                /\ \A i \in 1 .. Len(training) + 1 : first_leaf[load][i] \in Nat
        BY <1>2, FirstLeafLemma, LoadLemma
      <4>2. \A z \in Nat : z + 1 \in 1 .. z + 1
        OBVIOUS
      <4> QED
        BY <4>1, <4>2 DEF BaseLeaves, FirstLeaf, Training
    <3> QED
      BY <3>1, <3>2
  <2> QED
    BY <1>2, <2>1
<1>6. aborted' \in BOOLEAN
  BY DEF IndexInv
<1>7. \A j \in Models : /\ DOMAIN models'[j].table = 0 .. TrainedLeaves(Training[j]) - 1
                        /\ models'[j].next \in 1 .. SynonymMax - 1
  BY <1>2, <1>3, <1>4
<1>8. IsFunction(models') /\ DOMAIN models' = Models /\ Consistent(models', leaves', used')
  BY <1>3
<1> QED
  BY <1>1, <1>2, <1>5, <1>6, <1>7, <1>8 DEF IndexInv

\* Every operation keeps the index consistent.
LEMMA IndexStep ==
  ASSUME N % 2 = 0, IndexInv, [Next]_vars
  PROVE  IndexInv'
<1>1. /\ Consistent(models, leaves, used) /\ IsFunction(models) /\ DOMAIN models = Models
      /\ load \in DOMAIN Loads
  BY DEF IndexInv
<1>2. /\ Loads[load].writes \subseteq Keys /\ Loads[load].removes \subseteq Keys
      /\ Loads[load].values \subseteq Vals
  BY <1>1, LoadLemma
<1>3. used \in Int
  BY <1>1, PoolAssumption DEF Consistent
<1>4. ASSUME NEW k \in Loads[load].writes, NEW v \in Loads[load].values, PutKey(k, v)
      PROVE  IndexInv'
  <2> DEFINE m == model_for[k]
             a == window[k].lo
             b == window[k].hi
             r == Insert(models[m], leaves, used, k, v, a, b)
  <2>1. /\ m \in Models /\ a \in Nat /\ b \in Nat /\ a <= b
        /\ a .. b \subseteq DOMAIN models[m].table /\ k \in Keys /\ v \in Vals
    BY <1>2, WindowFacts
  <2>2. /\ NeedsLeaf(models[m], leaves, k, a, b) => used < Pool
        /\ models' = Replaced(models, m, r.lt) /\ leaves' = r.mem /\ used' = r.used
        /\ load' = load /\ aborted' = aborted
    BY <1>4 DEF PutKey, Replaced
  <2> HIDE DEF m, a, b
  <2>3. /\ Consistent(Replaced(models, m, r.lt), r.mem, r.used)
        /\ DOMAIN r.lt.table = DOMAIN models[m].table
        /\ r.used \in {used, used + 1}
        /\ \/ r.lt.next = models[m].next
           \/ ~ Full(models[m]) /\ r.lt.next = models[m].next + 1
    BY <1>1, <2>1, <2>2, InsertStep
  <2> HIDE DEF r
  <2>4. r.used >= used
    BY <1>3, <2>3
  <2> QED
    BY <2>1, <2>2, <2>3, <2>4, IndexKept
<1>5. ASSUME NEW k \in Loads[load].writes, NEW v \in Loads[load].values, UpdateKey(k, v)
      PROVE  IndexInv'
  <2> DEFINE m == model_for[k]
             a == window[k].lo
             b == window[k].hi
             mem == Update(models[m], leaves, k, v, a, b).mem
  <2>1. /\ m \in Models /\ a \in Nat /\ b \in Nat /\ a <= b
        /\ a .. b \subseteq DOMAIN models[m].table /\ k \in Keys /\ v \in Vals
    BY <1>2, WindowFacts
  <2>2. models' = models /\ leaves' = mem /\ used' = used /\ load' = load /\ aborted' = aborted
    BY <1>5 DEF UpdateKey
  <2> HIDE DEF m, a, b
  <2>3. Consistent(models, mem, used)
    BY <1>1, <2>1, UpdateStep
  <2> HIDE DEF mem
  <2>4. Replaced(models, m, models[m]) = models
    BY <1>1 DEF Replaced, IsFunction
  <2>5. used >= used
    BY <1>3
  <2> QED
    BY <2>1, <2>2, <2>3, <2>4, <2>5, IndexKept
<1>6. ASSUME NEW k \in Loads[load].writes, PutAborts(k)
      PROVE  IndexInv'
  <2>1. load' = load /\ models' = models /\ leaves' = leaves /\ used' = used /\ aborted' = TRUE
    BY <1>6 DEF PutAborts
  <2>2. Training' = Training /\ Models' = Models /\ BaseLeaves' = BaseLeaves
    BY <2>1 DEF Training, Models, BaseLeaves, FirstLeaf
  <2> QED
    BY <2>1, <2>2 DEF IndexInv
<1>7. ASSUME NEW k \in Loads[load].removes, RemoveKey(k)
      PROVE  IndexInv'
  <2> DEFINE m == model_for[k]
             a == window[k].lo
             b == window[k].hi
             r == Remove(models[m], leaves, k, a, b)
  <2>1. /\ m \in Models /\ a \in Nat /\ b \in Nat /\ a <= b
        /\ a .. b \subseteq DOMAIN models[m].table /\ k \in Keys
    BY <1>2, WindowFacts
  <2>2. /\ models' = Replaced(models, m, r.lt) /\ leaves' = r.mem /\ used' = used
        /\ load' = load /\ aborted' = aborted
    BY <1>7 DEF RemoveKey, Replaced
  <2> HIDE DEF m, a, b
  <2>3. /\ Consistent(Replaced(models, m, r.lt), r.mem, used)
        /\ DOMAIN r.lt.table = DOMAIN models[m].table
        /\ r.lt.next = models[m].next
    BY <1>1, <2>1, RemoveStep
  <2> HIDE DEF r
  <2>4. used >= used
    BY <1>3
  <2> QED
    BY <2>1, <2>2, <2>3, <2>4, IndexKept
<1>8. CASE UNCHANGED vars
  <2>1. load' = load /\ models' = models /\ leaves' = leaves /\ used' = used /\ aborted' = aborted
    BY <1>8 DEF vars
  <2>2. Training' = Training /\ Models' = Models /\ BaseLeaves' = BaseLeaves
    BY <2>1 DEF Training, Models, BaseLeaves, FirstLeaf
  <2> QED
    BY <2>1, <2>2 DEF IndexInv
<1> QED
  BY <1>4, <1>5, <1>6, <1>7, <1>8 DEF Next

\* In every state of the program, the index is consistent.
LEMMA IndexAlways ==
  ASSUME N % 2 = 0
  PROVE  Spec => []IndexInv
<1>1. IndexInv /\ [Next]_vars => IndexInv'
  BY IndexStep
<1> QED
  BY InitLemma, <1>1, PTL DEF Spec

\* The index is well formed in every state: every link leads to a slot in use and
\* every leaf number to a leaf of the pool, whatever fetch_new_leaf,
\* synonym_emplace_back and synonym_table_remove have done.
THEOREM IndexTypes ==
  ASSUME N % 2 = 0
  PROVE  Spec => []TypeOK
<1>1. IndexInv => TypeOK
  <2> SUFFICES ASSUME IndexInv PROVE TypeOK
    OBVIOUS
  <2>1. /\ load \in DOMAIN Loads /\ DOMAIN models = Models
        /\ \A m \in Models : /\ DOMAIN models[m].table = 0 .. TrainedLeaves(Training[m]) - 1
                             /\ models[m].next \in 1 .. SynonymMax - 1
        /\ used >= BaseLeaves
        /\ Consistent(models, leaves, used)
    BY DEF IndexInv
  <2>2. used \in Nat /\ used <= Pool /\ Pool \in Nat
    BY <2>1, PoolAssumption DEF Consistent
  <2>3. ASSUME NEW m \in Models
        PROVE  LET lt == models[m]
                   entries == [leaf_num : 0 .. Pool - 1, synonym_leaf : 0 .. lt.next - 1]
               IN  /\ lt.next \in 1 .. SynonymMax - 1
                   /\ lt.table \in [0 .. TrainedLeaves(Training[m]) - 1 -> entries]
                   /\ DOMAIN lt.syn = 1 .. lt.next - 1
                   /\ \A s \in DOMAIN lt.syn : lt.syn[s] \in entries
    <3> DEFINE lt == models[m]
               entries == [leaf_num : 0 .. Pool - 1, synonym_leaf : 0 .. lt.next - 1]
    <3>1. Linked(lt) /\ Fetched(lt, used)
      BY <2>1 DEF Consistent, Sound
    <3>2. DOMAIN lt.table = 0 .. TrainedLeaves(Training[m]) - 1
      BY <2>1
    <3> HIDE DEF lt
    <3>3. /\ lt.table \in [DOMAIN lt.table -> TableEntries(lt.next)]
          /\ lt.syn \in [1 .. lt.next - 1 -> TableEntries(lt.next)]
      BY <3>1 DEF Linked
    <3>4. ASSUME NEW e \in TableEntries(lt.next), e.leaf_num < used
          PROVE  e \in entries
      <4>1. e.leaf_num \in 0 .. Pool - 1
        BY <2>2, <3>4 DEF TableEntries
      <4> QED
        BY <4>1 DEF TableEntries
    <3> HIDE DEF entries
    <3>5. \A i \in DOMAIN lt.table : lt.table[i] \in entries
      BY <3>1, <3>3, <3>4 DEF Fetched
    <3>6. DOMAIN lt.syn = 1 .. lt.next - 1 /\ \A s \in DOMAIN lt.syn : lt.syn[s] \in entries
      BY <3>1, <3>3, <3>4 DEF Fetched
    <3>7. lt.table \in [0 .. TrainedLeaves(Training[m]) - 1 -> entries]
      BY <3>2, <3>3, <3>5
    <3> QED
      BY <2>1, <3>6, <3>7 DEF lt, entries
  <2>4. leaves \in [0 .. Pool - 1 -> Leaves] /\ used \in BaseLeaves .. Pool
    <3>1. leaves \in [0 .. Pool - 1 -> Leaves]
      BY <2>1 DEF Consistent
    <3>2. BaseLeaves \in Nat
      <4>1. LET training == Loads[load].training
            IN  /\ Len(training) \in Nat
                /\ \A i \in 1 .. Len(training) + 1 : first_leaf[load][i] \in Nat
        BY <2>1, FirstLeafLemma, LoadLemma
      <4>2. \A z \in Nat : z + 1 \in 1 .. z + 1
        OBVIOUS
      <4> QED
        BY <4>1, <4>2 DEF BaseLeaves, FirstLeaf, Training
    <3> QED
      BY <2>1, <2>2, <3>1, <3>2
  <2>5. aborted \in BOOLEAN
    BY DEF IndexInv
  <2> QED
    BY <2>1, <2>3, <2>4, <2>5 DEF TypeOK
<1> QED
  BY IndexAlways, <1>1, PTL

\* insert_synonym, update_synonym and remove_synonym: in every state every leaf is
\* sorted, and in a chain the keys of one leaf are below those of the next, for every
\* load the node may be given.
THEOREM LeavesKeepOrder ==
  ASSUME N % 2 = 0
  PROVE  Spec => []ChainsSorted
<1>1. IndexInv => ChainsSorted
  <2> SUFFICES ASSUME IndexInv, NEW m \in Models, NEW i \in EntriesOf(m),
                      NEW p \in DOMAIN LeavesOf(m, i), NEW q \in DOMAIN LeavesOf(m, i)
               PROVE  /\ Sorted(LeavesOf(m, i)[p])
                      /\ p < q => \A j \in KeysOf(LeavesOf(m, i)[p]),
                                    k \in KeysOf(LeavesOf(m, i)[q]) : j < k
    BY DEF ChainsSorted
  <2>1. Consistent(models, leaves, used) /\ m \in DOMAIN models /\ i \in DOMAIN models[m].table
    BY DEF IndexInv, EntriesOf
  <2>2. /\ p \in 0 .. Len(Chain(models[m], i)) /\ q \in 0 .. Len(Chain(models[m], i))
        /\ LeavesOf(m, i)[p] = leaves[LeafNum(models[m], i, p)]
        /\ LeavesOf(m, i)[q] = leaves[LeafNum(models[m], i, q)]
    BY DEF LeavesOf
  <2> DEFINE x == <<m, i, p>>
             y == <<m, i, q>>
  <2>3. /\ x \in Places(models) /\ Num(models, x) = LeafNum(models[m], i, p)
        /\ y \in Places(models) /\ Num(models, y) = LeafNum(models[m], i, q)
    BY <2>1, <2>2, PlacesLemma
  <2>4. SameEntry(x, y) /\ x[3] = p /\ y[3] = q
    BY DEF SameEntry
  <2> HIDE DEF x, y
  <2>5. Sorted(leaves[Num(models, x)])
    BY <2>1, <2>3, PlaceFacts
  <2>6. p < q => \A j \in KeysOf(leaves[Num(models, x)]),
                    k \in KeysOf(leaves[Num(models, y)]) : j < k
    BY <2>1, <2>3, <2>4 DEF Consistent, InOrder
  <2> QED
    BY <2>2, <2>3, <2>5, <2>6
<1> QED
  BY IndexAlways, <1>1, PTL

\* fetch_new_leaf and synonym_emplace_back: in every state every leaf of the pool is in
\* one place of the index only, and a leaf that is in none holds no key.
THEOREM LeavesInOnePlace ==
  ASSUME N % 2 = 0
  PROVE  Spec => []LeavesPlacedOnce
<1>1. IndexInv => LeavesPlacedOnce
  <2> DEFINE at(m, i) == 0 .. Len(Chain(models[m], i))
  <2> SUFFICES ASSUME IndexInv
               PROVE  LeavesPlacedOnce
    OBVIOUS
  <2>1. Consistent(models, leaves, used) /\ DOMAIN models = Models
    BY DEF IndexInv
  <2>2. \A m, i, p : <<m, i, p>> \in Places(models) <=>
          m \in Models /\ i \in EntriesOf(m) /\ p \in at(m, i)
    BY <2>1, PlacesLemma DEF EntriesOf
  <2>3. \A m, i, p : Num(models, <<m, i, p>>) = LeafNum(models[m], i, p)
    BY PlacesLemma
  <2>4. ASSUME NEW m \in Models, NEW l \in Models, NEW i \in EntriesOf(m), NEW j \in EntriesOf(l),
               NEW p \in at(m, i), NEW q \in at(l, j),
               LeafNum(models[m], i, p) = LeafNum(models[l], j, q)
        PROVE  <<m, i, p>> = <<l, j, q>>
    <3>1. <<m, i, p>> \in Places(models) /\ <<l, j, q>> \in Places(models)
      BY <2>2
    <3>2. Num(models, <<m, i, p>>) = Num(models, <<l, j, q>>)
      BY <2>3, <2>4
    <3> QED
      BY <2>1, <3>1, <3>2 DEF Consistent, PlacedOnce
  <2>5. ASSUME NEW n \in 0 .. Pool - 1, KeysOf(leaves[n]) # {}
        PROVE  \E m \in Models : \E i \in EntriesOf(m) : \E p \in at(m, i) :
                 LeafNum(models[m], i, p) = n
    <3>1. PICK x \in Places(models) : Num(models, x) = n
      BY <2>1, <2>5 DEF Consistent, Placed
    <3>2. x = <<x[1], x[2], x[3]>>
      BY PlacesLemma
    <3>3. x[1] \in Models /\ x[2] \in EntriesOf(x[1]) /\ x[3] \in at(x[1], x[2])
      BY <2>2, <3>2
    <3> QED
      BY <3>1, <3>3 DEF Num
  <2> QED
    BY <2>4, <2>5 DEF LeavesPlacedOnce
<1> QED
  BY IndexAlways, <1>1, PTL
-----------------------------------------------------------------------------
\* The leaf at place p of entry i of submodel m
LeafAt(ms, mem, m, i, p) == mem[Num(ms, <<m, i, p>>)]

\* Entry [k, v] is in one of the leaves.
Stored(mem, k, v) ==
  \E n \in 0 .. Pool - 1 : [key |-> k, val |-> v] \in Content(mem[n])
-----------------------------------------------------------------------------
\* An entry of a leaf, by its key and its value
LEMMA ContentLemma ==
  ASSUME NEW l \in Leaves
  PROVE  /\ \A e \in Content(l) : /\ e = [key |-> e.key, val |-> e.val]
                                  /\ e.key \in Keys /\ e.val \in Vals /\ e.val # NoVal
                                  /\ e.key \in KeysOf(l)
         /\ \A k \in KeysOf(l) : k \in Keys /\ \E v \in Vals : [key |-> k, val |-> v] \in Content(l)
<1>1. /\ KeysOf(l) \subseteq Keys /\ Content(l) \subseteq Entries
      /\ \A k : k \in KeysOf(l) <=> \E e \in Content(l) : e.key = k
  BY KeysLemma
<1>2. \A e \in Entries : e = [key |-> e.key, val |-> e.val] /\ e.key \in Keys /\ e.val \in Vals
  BY DEF Entries
<1>3. \A v \in Vals : v # NoVal
  BY LeafAssumption
<1>4. ASSUME NEW k \in KeysOf(l)
      PROVE  \E v \in Vals : [key |-> k, val |-> v] \in Content(l)
  <2>1. PICK e \in Content(l) : e.key = k
    BY <1>1
  <2> QED
    BY <1>1, <1>2, <2>1
<1> QED
  BY <1>1, <1>2, <1>3, <1>4

\* The places of an entry of the index and the leaves that are there
LEMMA LeavesAt ==
  ASSUME NEW ms, NEW mem, NEW u, Consistent(ms, mem, u),
         NEW m \in DOMAIN ms, NEW i \in DOMAIN ms[m].table
  PROVE  /\ Len(Chain(ms[m], i)) \in Nat
         /\ DOMAIN Chain(ms[m], i) = 1 .. Len(Chain(ms[m], i))
         /\ LeafAt(ms, mem, m, i, 0) = mem[ms[m].table[i].leaf_num]
         /\ \A p \in 1 .. Len(Chain(ms[m], i)) :
              LeafAt(ms, mem, m, i, p) = mem[ms[m].syn[Chain(ms[m], i)[p]].leaf_num]
         /\ \A p \in 0 .. Len(Chain(ms[m], i)) :
              /\ <<m, i, p>> \in Places(ms)
              /\ LeafAt(ms, mem, m, i, p) \in Leaves /\ Sorted(LeafAt(ms, mem, m, i, p))
         /\ \A p, q \in 0 .. Len(Chain(ms[m], i)) : p < q =>
              \A j \in KeysOf(LeafAt(ms, mem, m, i, p)), k \in KeysOf(LeafAt(ms, mem, m, i, q)) : j < k
<1> DEFINE lt == ms[m]
           c == Chain(lt, i)
<1>1. Sound(lt)
  BY DEF Consistent
<1>2. c \in Seq(1 .. lt.next - 1) /\ Len(c) \in Nat
  BY <1>1, ChainLemma
<1>3. DOMAIN c = 1 .. Len(c)
  BY <1>2
<1>4. Num(ms, <<m, i, 0>>) = lt.table[i].leaf_num
  BY DEF Num, LeafNum
<1>5. \A p \in 1 .. Len(c) : Num(ms, <<m, i, p>>) = lt.syn[c[p]].leaf_num
  BY DEF Num, LeafNum
<1>6. ASSUME NEW p \in 0 .. Len(c)
      PROVE  /\ <<m, i, p>> \in Places(ms)
             /\ LeafAt(ms, mem, m, i, p) \in Leaves /\ Sorted(LeafAt(ms, mem, m, i, p))
  <2>1. <<m, i, p>> \in Places(ms)
    BY PlacesLemma
  <2> QED
    BY <2>1, PlaceFacts DEF LeafAt
<1>7. ASSUME NEW p \in 0 .. Len(c), NEW q \in 0 .. Len(c), p < q,
             NEW j \in KeysOf(LeafAt(ms, mem, m, i, p)), NEW k \in KeysOf(LeafAt(ms, mem, m, i, q))
      PROVE  j < k
  <2> DEFINE x == <<m, i, p>>
             y == <<m, i, q>>
  <2>1. SameEntry(x, y) /\ x[3] < y[3]
    BY <1>7 DEF SameEntry
  <2>2. x \in Places(ms) /\ y \in Places(ms)
    BY <1>6
  <2>3. j \in KeysOf(mem[Num(ms, x)]) /\ k \in KeysOf(mem[Num(ms, y)])
    BY DEF LeafAt
  <2> HIDE DEF x, y
  <2> QED
    BY <2>1, <2>2, <2>3 DEF Consistent, InOrder
<1> QED
  BY <1>2, <1>3, <1>4, <1>5, <1>6, <1>7 DEF LeafAt

\* search and search_synonym: what they answer is the value stored with the key in a
\* leaf of its entry, and no value when no leaf of its entry has the key.
LEMMA SearchLemma ==
  ASSUME NEW ms, NEW mem, NEW u, Consistent(ms, mem, u),
         NEW m \in DOMAIN ms, NEW k \in Keys,
         NEW a \in Nat, NEW b \in Nat, a <= b, a .. b \subseteq DOMAIN ms[m].table
  PROVE  LET i == Entry(ms[m], mem, k, a, b)
             s == Search(ms[m], mem, k, a, b)
         IN  /\ \A p \in 0 .. Len(Chain(ms[m], i)) :
                  \A e \in Content(LeafAt(ms, mem, m, i, p)) : e.key = k => s = e.val
             /\ s = NoVal \/ \E p \in 0 .. Len(Chain(ms[m], i)) :
                  [key |-> k, val |-> s] \in Content(LeafAt(ms, mem, m, i, p))
<1> DEFINE lt == ms[m]
           i == Entry(lt, mem, k, a, b)
           c == Chain(lt, i)
           s == Search(lt, mem, k, a, b)
           L(p) == LeafAt(ms, mem, m, i, p)
           hits == {p \in DOMAIN c : contain(mem[lt.syn[c[p]].leaf_num], k)}
<1>1. i \in DOMAIN lt.table
  BY EntryLemma
<1>3. s = IF contain(mem[lt.table[i].leaf_num], k) THEN search(mem[lt.table[i].leaf_num], k)
          ELSE IF hits = {} THEN NoVal
          ELSE search(mem[lt.syn[c[Greatest(hits)]].leaf_num], k)
  BY DEF Search
<1> DEFINE Goal == /\ \A p \in 0 .. Len(c) : \A e \in Content(L(p)) : e.key = k => s = e.val
                   /\ s = NoVal \/ \E p \in 0 .. Len(c) : [key |-> k, val |-> s] \in Content(L(p))
<1> SUFFICES Goal
  OBVIOUS
<1> HIDE DEF s, i, hits
<1>2. /\ Len(c) \in Nat /\ DOMAIN c = 1 .. Len(c)
      /\ L(0) = mem[lt.table[i].leaf_num]
      /\ \A p \in 1 .. Len(c) : L(p) = mem[lt.syn[c[p]].leaf_num]
      /\ \A p \in 0 .. Len(c) : L(p) \in Leaves /\ Sorted(L(p))
      /\ \A p, q \in 0 .. Len(c) : p < q => \A j \in KeysOf(L(p)), h \in KeysOf(L(q)) : j < h
  <2>1. i \in DOMAIN ms[m].table
    BY <1>1
  <2>2. Len(Chain(ms[m], i)) \in Nat /\ DOMAIN Chain(ms[m], i) = 1 .. Len(Chain(ms[m], i))
    BY <2>1, LeavesAt
  <2>3. LeafAt(ms, mem, m, i, 0) = mem[ms[m].table[i].leaf_num]
    BY <2>1, LeavesAt
  <2>4. \A p \in 1 .. Len(Chain(ms[m], i)) :
              LeafAt(ms, mem, m, i, p) = mem[ms[m].syn[Chain(ms[m], i)[p]].leaf_num]
    BY <2>1, LeavesAt
  <2>5. \A p \in 0 .. Len(Chain(ms[m], i)) :
              LeafAt(ms, mem, m, i, p) \in Leaves /\ Sorted(LeafAt(ms, mem, m, i, p))
    BY <2>1, LeavesAt
  <2>6. \A p, q \in 0 .. Len(Chain(ms[m], i)) : p < q =>
              \A j \in KeysOf(LeafAt(ms, mem, m, i, p)), h \in KeysOf(LeafAt(ms, mem, m, i, q)) : j < h
    BY <2>1, LeavesAt
  <2> QED
    BY <2>1, <2>2, <2>3, <2>4, <2>5, <2>6
<1> HIDE DEF L, c, lt
<1>4. \A p \in 0 .. Len(c) : contain(L(p), k) <=> k \in KeysOf(L(p))
  BY <1>2, FoundLemma
<1>5. \A p, q \in 0 .. Len(c) : k \in KeysOf(L(p)) /\ k \in KeysOf(L(q)) => p = q
  <2> SUFFICES ASSUME NEW p \in 0 .. Len(c), NEW q \in 0 .. Len(c),
                      k \in KeysOf(L(p)), k \in KeysOf(L(q))
               PROVE  p = q
    OBVIOUS
  <2>1. ~ (k < k) /\ p \in Nat /\ q \in Nat
    BY <1>2 DEF Keys
  <2>2. ~ (p < q) /\ ~ (q < p)
    BY <1>2, <2>1
  <2> QED
    BY <2>1, <2>2
<1>6. ASSUME NEW q \in 0 .. Len(c), k \in KeysOf(L(q)), s = search(L(q), k)
      PROVE  /\ \A p \in 0 .. Len(c) : \A e \in Content(L(p)) : e.key = k => s = e.val
             /\ [key |-> k, val |-> s] \in Content(L(q))
  <2>1. L(q) \in Leaves /\ Sorted(L(q))
    BY <1>2
  <2>2. \A e \in Content(L(q)) : e.key = k => s = e.val
    BY <1>6, <2>1, FoundLemma
  <2>3. PICK v \in Vals : [key |-> k, val |-> v] \in Content(L(q))
    BY <1>6, <2>1, ContentLemma
  <2>4. s = v
    BY <2>2, <2>3
  <2>5. ASSUME NEW p \in 0 .. Len(c), NEW e \in Content(L(p)), e.key = k
        PROVE  p = q
    <3>1. L(p) \in Leaves
      BY <1>2
    <3>2. k \in KeysOf(L(p))
      BY <2>5, <3>1, ContentLemma
    <3> QED
      BY <1>5, <1>6, <3>2
  <2> QED
    BY <2>2, <2>3, <2>4, <2>5
<1>7. 0 \in 0 .. Len(c)
  BY <1>2
<1>8. CASE contain(L(0), k)
  <2>1. k \in KeysOf(L(0)) /\ s = search(L(0), k)
    BY <1>2, <1>3, <1>4, <1>7, <1>8
  <2> QED
    BY <1>6, <1>7, <2>1
<1>9. CASE ~ contain(L(0), k) /\ hits = {}
  <2>1. \A p \in 0 .. Len(c) : k \notin KeysOf(L(p))
    <3> SUFFICES ASSUME NEW p \in 0 .. Len(c) PROVE ~ contain(L(p), k)
      BY <1>4
    <3>1. p = 0 \/ p \in DOMAIN c
      BY <1>2
    <3> QED
      BY <1>2, <1>9, <3>1 DEF hits
  <2>2. \A p \in 0 .. Len(c) : \A e \in Content(L(p)) : e.key # k
    BY <1>2, <2>1, ContentLemma
  <2>3. s = NoVal
    BY <1>2, <1>3, <1>9
  <2> QED
    BY <2>2, <2>3
<1>10. CASE ~ contain(L(0), k) /\ hits # {}
  <2> DEFINE g == Greatest(hits)
  <2>1. hits \in SUBSET Int /\ (\A y \in hits : y <= Len(c)) /\ Len(c) \in Int
    BY <1>2 DEF hits
  <2>2. g \in hits
    BY <1>10, <2>1, GreatestLemma
  <2>3. g \in 1 .. Len(c) /\ contain(mem[lt.syn[c[g]].leaf_num], k)
    BY <1>2, <2>2 DEF hits
  <2>4. s = search(mem[lt.syn[c[g]].leaf_num], k)
    BY <1>2, <1>3, <1>10
  <2> HIDE DEF g
  <2>5. g \in 0 .. Len(c) /\ k \in KeysOf(L(g)) /\ s = search(L(g), k)
    BY <1>2, <1>4, <2>3, <2>4
  <2> QED
    BY <1>6, <2>5
<1> QED
  BY <1>8, <1>9, <1>10

\* A key that insert_synonym meets in the leaf it goes to is one that search finds.
LEMMA MetKey ==
  ASSUME NEW ms, NEW mem, NEW u, Consistent(ms, mem, u), NEW m \in DOMAIN ms,
         NEW k \in Keys, NEW a \in Nat, NEW b \in Nat, a <= b, a .. b \subseteq DOMAIN ms[m].table
  PROVE  k \in KeysOf(mem[Num(ms, Spot(ms, mem, m, k, a, b))])
           <=> Search(ms[m], mem, k, a, b) # NoVal
<1> DEFINE i == Entry(ms[m], mem, k, a, b)
           p == Place(ms[m], mem, k, i)
           x == Spot(ms, mem, m, k, a, b)
           s == Search(ms[m], mem, k, a, b)
<1>1. /\ x = <<m, i, p>> /\ x \in Places(ms) /\ Takes(ms, mem, x, k)
      /\ i \in DOMAIN ms[m].table /\ p \in 0 .. Len(Chain(ms[m], i))
  BY SpotLemma
<1>2. /\ \A q \in 0 .. Len(Chain(ms[m], i)) :
           \A e \in Content(LeafAt(ms, mem, m, i, q)) : e.key = k => s = e.val
      /\ s = NoVal \/ \E q \in 0 .. Len(Chain(ms[m], i)) :
           [key |-> k, val |-> s] \in Content(LeafAt(ms, mem, m, i, q))
  BY SearchLemma
<1> HIDE DEF i, p, s, x
<1>3. LeafAt(ms, mem, m, i, p) = mem[Num(ms, x)] /\ mem[Num(ms, x)] \in Leaves
  BY <1>1, PlaceFacts DEF LeafAt
<1>4. ASSUME k \in KeysOf(mem[Num(ms, x)])
      PROVE  s # NoVal
  <2>1. PICK v \in Vals : [key |-> k, val |-> v] \in Content(LeafAt(ms, mem, m, i, p))
    BY <1>3, <1>4, ContentLemma
  <2>2. s = v
    BY <1>1, <1>2, <2>1
  <2> QED
    BY <2>2, LeafAssumption
<1>5. ASSUME s # NoVal
      PROVE  k \in KeysOf(mem[Num(ms, x)])
  <2>1. PICK q \in 0 .. Len(Chain(ms[m], i)) :
          [key |-> k, val |-> s] \in Content(LeafAt(ms, mem, m, i, q))
    BY <1>2, <1>5
  <2> DEFINE y == <<m, i, q>>
  <2>2. y \in Places(ms) /\ LeafAt(ms, mem, m, i, q) = mem[Num(ms, y)]
    BY <1>1, LeavesAt DEF LeafAt
  <2>3. SameEntry(x, y) /\ y[3] = q /\ x[3] = p
    BY <1>1 DEF SameEntry
  <2>4. mem[Num(ms, y)] \in Leaves
    BY <2>2, PlaceFacts
  <2> HIDE DEF y
  <2>5. k \in KeysOf(mem[Num(ms, y)])
    BY <2>1, <2>2, <2>4, ContentLemma
  <2>6. ~ (k < k) /\ q \in Int /\ p \in Int
    BY <1>1 DEF Keys
  <2>7. ~ (q < p) /\ ~ (p < q)
    BY <1>1, <2>2, <2>3, <2>5, <2>6 DEF Takes
  <2>8. q = p
    BY <2>6, <2>7
  <2> QED
    BY <1>1, <2>5, <2>8 DEF y
<1> QED
  BY <1>4, <1>5 DEF s, x

\* insert_synonym: an insert answers false only for a key that search finds or when
\* the synonym table of the key's model has no slot left, for every load.
THEOREM RefusedForAReason ==
  ASSUME N % 2 = 0
  PROVE  Spec => RefusedWithReason
<1> DEFINE Reason == \/ contents[reply'.key] # NoVal
                     \/ Full(models[model_for[reply'.key]])
<1>1. ASSUME IndexInv, [Next]_vars
      PROVE  [reply'.op = "insert" /\ reply' # reply /\ ~ reply'.ok => Reason]_vars
  <2>1. Consistent(models, leaves, used) /\ load \in DOMAIN Loads
    BY <1>1 DEF IndexInv
  <2>2. Loads[load].writes \subseteq Keys /\ Loads[load].values \subseteq Vals
    BY <2>1, LoadLemma
  <2> SUFFICES ASSUME Next, reply'.op = "insert", reply' # reply, ~ reply'.ok
               PROVE  Reason
    BY <1>1
  <2>3. ASSUME NEW k \in Loads[load].writes, NEW v \in Loads[load].values, PutKey(k, v)
        PROVE  Reason
    <3> DEFINE m == model_for[k]
               a == window[k].lo
               b == window[k].hi
               r == Insert(models[m], leaves, used, k, v, a, b)
               x == Spot(models, leaves, m, k, a, b)
    <3>1. /\ m \in DOMAIN models /\ a \in Nat /\ b \in Nat /\ a <= b
          /\ a .. b \subseteq DOMAIN models[m].table /\ k \in Keys /\ v \in Vals
      BY <1>1, <2>2, WindowFacts
    <3>2. reply' = [op |-> "insert", key |-> k, ok |-> r.ok]
      BY <2>3 DEF PutKey, Answer
    <3>3. contents[k] = Search(models[m], leaves, k, a, b)
      BY <3>1 DEF contents, Lookup
    <3> HIDE DEF m, a, b
    <3>4. \/ InsertRefused(models, leaves, used, x, k, r)
          \/ InsertWritten(models, leaves, used, x, k, v, r)
          \/ InsertSplit(models, leaves, used, x, k, v, r)
      BY <2>1, <3>1, InsertCases
    <3>5. x[1] = m
      BY DEF Spot
    <3>6. k \in KeysOf(leaves[Num(models, x)]) => contents[k] # NoVal
      BY <2>1, <3>1, <3>3, MetKey
    <3> HIDE DEF r, x
    <3>7. reply'.key = k /\ ~ r.ok
      BY <3>2
    <3>8. InsertRefused(models, leaves, used, x, k, r)
      BY <3>4, <3>7 DEF InsertWritten, InsertSplit
    <3> QED
      BY <3>5, <3>6, <3>7, <3>8 DEF InsertRefused, m
  <2>4. ASSUME NEW k \in Loads[load].writes, NEW v \in Loads[load].values, UpdateKey(k, v)
        PROVE  FALSE
    BY <2>4 DEF UpdateKey, Answer
  <2>5. ASSUME NEW k \in Loads[load].writes, PutAborts(k)
        PROVE  FALSE
    BY <2>5 DEF PutAborts
  <2>6. ASSUME NEW k \in Loads[load].removes, RemoveKey(k)
        PROVE  FALSE
    BY <2>6 DEF RemoveKey, Answer
  <2> QED
    BY <2>3, <2>4, <2>5, <2>6 DEF Next
<1> QED
  BY IndexAlways, <1>1, PTL DEF Spec, RefusedWithReason
-----------------------------------------------------------------------------
\* No leaf leaves its entry.
Kept(ms, new) ==
  \A y \in Places(ms) : \E z \in Places(new) : SameEntry(y, z) /\ Num(new, z) = Num(ms, y)

\* The key that the walk over a window compares with at entry i of submodel m
FirstKey(ms, mem, m, i) == mem[ms[m].table[i].leaf_num][0].key

\* The keys that leaf n has gained were in the entry of place x, or are k.
GainsOnly(ms, mem, new, nmem, x, k) ==
  \A n \in 0 .. Pool - 1 : nmem[n] # mem[n] =>
    /\ \E z \in Places(new) : SameEntry(x, z) /\ Num(new, z) = n
    /\ \A j \in KeysOf(nmem[n]) : j \in KeysOf(mem[Num(ms, x)]) \/ j = k

\* The first keys of the entries stay, or that of the entry of place x becomes k.
FirstKeysKept(ms, mem, new, nmem, x, k) ==
  \A l \in DOMAIN ms : \A j \in DOMAIN ms[l].table :
    \/ FirstKey(new, nmem, l, j) = FirstKey(ms, mem, l, j)
    \/ /\ l = x[1] /\ j = x[2]
       /\ FirstKey(new, nmem, l, j) = k /\ k < FirstKey(ms, mem, l, j)

\* [k, v] came into the entry of place x and nothing was lost.
Grown(ms, mem, new, nmem, x, k, v) ==
  /\ Kept(ms, new)
  /\ GainsOnly(ms, mem, new, nmem, x, k)
  /\ FirstKeysKept(ms, mem, new, nmem, x, k)
  /\ \A j, w : Stored(nmem, j, w) <=> Stored(mem, j, w) \/ (j = k /\ w = v)

\* insert_not_full: the key comes into the leaf at place x.
LEMMA WrittenGrown ==
  ASSUME NEW ms, NEW mem, NEW u, Consistent(ms, mem, u), NEW x \in Places(ms),
         NEW k \in Keys, NEW v \in Vals, NEW w \in Leaves, Sorted(w),
         Content(w) = Content(mem[Num(ms, x)]) \cup {[key |-> k, val |-> v]}
  PROVE  Grown(ms, mem, ms, [mem EXCEPT ![Num(ms, x)] = w], x, k, v)
<1> DEFINE at == Num(ms, x)
           l == mem[at]
           nmem == [mem EXCEPT ![at] = w]
<1>1. at \in 0 .. Pool - 1 /\ l \in Leaves /\ Sorted(l) /\ mem \in [0 .. Pool - 1 -> Leaves]
  BY PlaceFacts DEF Consistent
<1>2. nmem[at] = w /\ \A n \in 0 .. Pool - 1 : n # at => nmem[n] = mem[n]
  BY <1>1
<1>3. \A j : j \in KeysOf(w) <=> j \in KeysOf(l) \/ j = k
  BY <1>1, KeysAdded
<1> HIDE DEF nmem
<1>4. Kept(ms, ms)
  BY DEF Kept, SameEntry
<1>5. GainsOnly(ms, mem, ms, nmem, x, k)
  <2> SUFFICES ASSUME NEW n \in 0 .. Pool - 1, nmem[n] # mem[n]
               PROVE  /\ \E z \in Places(ms) : SameEntry(x, z) /\ Num(ms, z) = n
                      /\ \A j \in KeysOf(nmem[n]) : j \in KeysOf(mem[Num(ms, x)]) \/ j = k
    BY DEF GainsOnly
  <2>1. n = at
    BY <1>2
  <2>2. SameEntry(x, x)
    BY DEF SameEntry
  <2> QED
    BY <1>2, <1>3, <2>1, <2>2
<1>6. FirstKeysKept(ms, mem, ms, nmem, x, k)
  <2> SUFFICES ASSUME NEW h \in DOMAIN ms, NEW j \in DOMAIN ms[h].table
               PROVE  \/ FirstKey(ms, nmem, h, j) = FirstKey(ms, mem, h, j)
                      \/ /\ h = x[1] /\ j = x[2]
                         /\ FirstKey(ms, nmem, h, j) = k /\ k < FirstKey(ms, mem, h, j)
    BY DEF FirstKeysKept
  <2> DEFINE y == <<h, j, 0>>
  <2>1. 0 \in 0 .. Len(Chain(ms[h], j))
    BY LeavesAt
  <2>2. y \in Places(ms) /\ y[1] = h /\ y[2] = j
    BY <2>1, PlacesLemma
  <2>3. Num(ms, y) = ms[h].table[j].leaf_num
    BY DEF Num, LeafNum
  <2> HIDE DEF y
  <2>4. Num(ms, y) \in 0 .. Pool - 1
    BY <2>2, PlaceFacts
  <2>5. CASE y = x
    <3>1. FirstKey(ms, nmem, h, j) = w[0].key /\ FirstKey(ms, mem, h, j) = l[0].key
      BY <1>2, <2>3, <2>5 DEF FirstKey
    <3>2. KeysOf(w) # {} /\ \A z \in KeysOf(l) : w[0].key <= z
      BY <1>3, FirstKeyLemma
    <3>3. w[0].key = l[0].key \/ (w[0].key = k /\ k < l[0].key)
      <4> HIDE DEF l
      <4> QED
        BY <1>1, <1>3, <3>2, FirstKeyAdded
    <3> QED
      BY <2>2, <2>5, <3>1, <3>3
  <2>6. CASE y # x
    <3>1. Num(ms, y) # at
      BY <2>2, <2>6 DEF Consistent, PlacedOnce
    <3> QED
      BY <1>2, <2>3, <2>4, <3>1 DEF FirstKey
  <2> QED
    BY <2>5, <2>6
<1>7. ASSUME NEW j, NEW z
      PROVE  Stored(nmem, j, z) <=> Stored(mem, j, z) \/ (j = k /\ z = v)
  <2> DEFINE e == [key |-> j, val |-> z]
             f == [key |-> k, val |-> v]
  <2>1. e = f <=> j = k /\ z = v
    OBVIOUS
  <2>2. Stored(nmem, j, z) <=> \E n \in 0 .. Pool - 1 : e \in Content(nmem[n])
    BY DEF Stored
  <2>3. Stored(mem, j, z) <=> \E n \in 0 .. Pool - 1 : e \in Content(mem[n])
    BY DEF Stored
  <2>4. e \in Content(w) <=> e \in Content(l) \/ e = f
    OBVIOUS
  <2> HIDE DEF e, f
  <2>5. (\E n \in 0 .. Pool - 1 : e \in Content(nmem[n]))
          <=> e \in Content(w) \/ \E n \in 0 .. Pool - 1 : n # at /\ e \in Content(mem[n])
    BY <1>1, <1>2
  <2> QED
    BY <1>1, <2>1, <2>2, <2>3, <2>4, <2>5
<1> QED
  BY <1>4, <1>5, <1>6, <1>7 DEF Grown, nmem

\* insert_synonym's split: the key comes into the leaf at place p or into the new leaf
\* behind it, where a part of the keys of the leaf goes.
LEMMA SplitGrown ==
  ASSUME NEW ms, NEW mem, NEW u, Consistent(ms, mem, u), u < Pool,
         NEW m \in DOMAIN ms, NEW i \in DOMAIN ms[m].table,
         NEW p \in 0 .. Len(Chain(ms[m], i)),
         NEW k \in Keys, NEW v \in Vals, NEW low \in Leaves, NEW high \in Leaves,
         Sorted(low), Sorted(high), KeysOf(low) # {},
         \A j \in KeysOf(low), h \in KeysOf(high) : j < h,
         Content(low) \cup Content(high) =
           Content(LeafAt(ms, mem, m, i, p)) \cup {[key |-> k, val |-> v]}
  PROVE  LET x == <<m, i, p>>
             new == Replaced(ms, m, synonym_emplace_back(ms[m], i, p, u))
         IN  Grown(ms, mem, new, [mem EXCEPT ![Num(ms, x)] = low, ![u] = high], x, k, v)
<1> DEFINE x == <<m, i, p>>
           lt == ms[m]
           nt == synonym_emplace_back(lt, i, p, u)
           new == Replaced(ms, m, nt)
           at == Num(ms, x)
           l == mem[at]
           nmem == [mem EXCEPT ![at] = low, ![u] = high]
           n == Len(Chain(lt, i))
<1>1. u \in Nat /\ u \in 0 .. Pool - 1 /\ Sound(lt) /\ mem \in [0 .. Pool - 1 -> Leaves]
  BY PoolAssumption DEF Consistent
<1>2. n \in Nat /\ p \in Nat /\ p <= n
  BY <1>1, ChainLemma
<1>3. x \in Places(ms) /\ LeafAt(ms, mem, m, i, p) = l
  BY PlacesLemma DEF LeafAt
<1>4. at \in 0 .. Pool - 1 /\ at \in 0 .. u - 1 /\ at # u /\ l \in Leaves /\ Sorted(l)
  <2>1. at \in 0 .. Pool - 1 /\ at \in 0 .. u - 1 /\ l \in Leaves /\ Sorted(l)
    BY <1>3, PlaceFacts
  <2> QED
    BY <1>1, <2>1
<1>5. /\ nmem[at] = low /\ nmem[u] = high
      /\ \A q \in 0 .. Pool - 1 : q # at /\ q # u => nmem[q] = mem[q]
  <2> HIDE DEF at
  <2> QED
    BY <1>1, <1>4
<1> HIDE DEF nmem
<1>6. /\ Sound(nt) /\ nt.next = lt.next + 1
      /\ DOMAIN nt.table = DOMAIN lt.table
      /\ \A j \in DOMAIN lt.table : j # i =>
           /\ Len(Chain(nt, j)) = Len(Chain(lt, j))
           /\ \A q \in 0 .. Len(Chain(lt, j)) : LeafNum(nt, j, q) = LeafNum(lt, j, q)
      /\ Len(Chain(nt, i)) = n + 1
      /\ \A q \in 0 .. n + 1 :
           LeafNum(nt, i, q) = IF q <= p THEN LeafNum(lt, i, q)
                               ELSE IF q = p + 1 THEN u ELSE LeafNum(lt, i, q - 1)
  <2>1. i \in DOMAIN lt.table /\ p \in 0 .. Len(Chain(lt, i)) /\ u \in Nat /\ Sound(lt)
    BY <1>1
  <2> HIDE DEF lt, x, at, l
  <2> QED
    BY <2>1, EmplaceLeaves
<1>7. /\ DOMAIN nt.table = DOMAIN lt.table
      /\ \A j \in DOMAIN lt.table : nt.table[j].leaf_num = lt.table[j].leaf_num
  BY <1>1, EmplaceFields
<1>8. KeysOf(mem[u]) = {} /\ Content(mem[u]) = {}
  <2>1. KeysOf(mem[u]) = {}
    BY LinkStep
  <2>2. mem[u] \in Leaves
    BY <1>1
  <2> QED
    BY <2>1, <2>2, KeysLemma
<1>9. \A j : j \in KeysOf(low) \cup KeysOf(high) <=> j \in KeysOf(l) \/ j = k
  <2>1. Content(low) \cup Content(high) = Content(l) \cup {[key |-> k, val |-> v]}
    BY <1>3
  <2> HIDE DEF l, at
  <2>2. Shared(l, low, high, k, v) /\ l \in Leaves
    BY <1>4, <2>1 DEF Shared
  <2> QED
    BY <2>2, KeysShared
<1> HIDE DEF nt
<1>10. /\ DOMAIN new = DOMAIN ms /\ new[m] = nt
       /\ \A h \in DOMAIN ms : h # m => new[h] = ms[h]
  BY DEF Replaced
<1> HIDE DEF new
<1>11. /\ \A q : <<m, i, q>> \in Places(new) <=> q \in 0 .. n + 1
       /\ \A q : Num(new, <<m, i, q>>) = LeafNum(nt, i, q)
       /\ \A q : Num(ms, <<m, i, q>>) = LeafNum(lt, i, q)
  BY <1>6, <1>7, <1>10, PlacesLemma
<1> HIDE DEF n
<1>12. ASSUME NEW y \in Places(ms)
       PROVE  \E z \in Places(new) : SameEntry(y, z) /\ Num(new, z) = Num(ms, y)
  <2>1. /\ y = <<y[1], y[2], y[3]>> /\ y[1] \in DOMAIN ms /\ y[2] \in DOMAIN ms[y[1]].table
        /\ y[3] \in 0 .. Len(Chain(ms[y[1]], y[2]))
        /\ Num(ms, y) = LeafNum(ms[y[1]], y[2], y[3])
    BY PlacesLemma
  <2>2. CASE y[1] = m /\ y[2] = i
    <3> DEFINE q == y[3]
               t == IF q <= p THEN q ELSE q + 1
               z == <<m, i, t>>
    <3>1. q \in 0 .. n /\ q \in Nat
      BY <1>2, <2>1, <2>2 DEF n
    <3> HIDE DEF q
    <3>2. t \in 0 .. n + 1 /\ ~ (q <= p) => t = q + 1 /\ ~ (t <= p) /\ t # p + 1 /\ t - 1 = q
      BY <1>2, <3>1
    <3>3. t \in 0 .. n + 1
      BY <1>2, <3>1
    <3>4. LeafNum(nt, i, t) = LeafNum(lt, i, q)
      <4>1. CASE q <= p
        <5>1. t = q
          BY <4>1
        <5> QED
          BY <1>6, <3>3, <4>1, <5>1 DEF n
      <4>2. CASE ~ (q <= p)
        <5>1. t - 1 = q /\ ~ (t <= p) /\ t # p + 1
          BY <3>2, <3>3, <4>2
        <5> HIDE DEF t
        <5> QED
          BY <1>6, <3>3, <5>1 DEF n
      <4> QED
        BY <4>1, <4>2
    <3> HIDE DEF t
    <3>5. z \in Places(new) /\ Num(new, z) = LeafNum(lt, i, q)
      BY <1>11, <3>3, <3>4
    <3>6. Num(ms, y) = LeafNum(lt, i, q) /\ SameEntry(y, z)
      BY <2>1, <2>2 DEF SameEntry, q
    <3> QED
      BY <3>5, <3>6
  <2>3. CASE ~ (y[1] = m /\ y[2] = i)
    <3>1. SameEntry(y, y)
      BY DEF SameEntry
    <3>2. y \in Places(new) /\ Num(new, y) = Num(ms, y)
      <4>1. CASE y[1] # m
        <5>1. new[y[1]] = ms[y[1]]
          BY <1>10, <2>1, <4>1
        <5> QED
          BY <1>10, <2>1, <5>1, PlacesLemma
      <4>2. CASE y[1] = m
        <5>1. y[2] \in DOMAIN lt.table /\ y[2] # i
          BY <2>1, <2>3, <4>2
        <5>2. /\ Len(Chain(nt, y[2])) = Len(Chain(lt, y[2]))
              /\ \A q \in 0 .. Len(Chain(lt, y[2])) : LeafNum(nt, y[2], q) = LeafNum(lt, y[2], q)
          BY <1>6, <5>1
        <5>3. /\ <<m, y[2], y[3]>> \in Places(new)
              /\ Num(new, <<m, y[2], y[3]>>) = LeafNum(nt, y[2], y[3])
          BY <1>7, <1>10, <2>1, <4>2, <5>1, <5>2, PlacesLemma
        <5> QED
          BY <2>1, <4>2, <5>2, <5>3
      <4> QED
        BY <4>1, <4>2
    <3> QED
      BY <3>1, <3>2
  <2> QED
    BY <2>2, <2>3
<1>13. Kept(ms, new)
  BY <1>12 DEF Kept
<1>14. GainsOnly(ms, mem, new, nmem, x, k)
  <2> SUFFICES ASSUME NEW q \in 0 .. Pool - 1, nmem[q] # mem[q]
               PROVE  /\ \E z \in Places(new) : SameEntry(x, z) /\ Num(new, z) = q
                      /\ \A j \in KeysOf(nmem[q]) : j \in KeysOf(mem[Num(ms, x)]) \/ j = k
    BY DEF GainsOnly
  <2>1. q = at \/ q = u
    BY <1>5
  <2>2. \A j \in KeysOf(nmem[q]) : j \in KeysOf(l) \/ j = k
    BY <1>5, <1>9, <2>1
  <2>3. CASE q = at
    <3>1. \E z \in Places(new) : SameEntry(x, z) /\ Num(new, z) = Num(ms, x)
      BY <1>3, <1>12
    <3> QED
      BY <2>2, <2>3, <3>1
  <2>4. CASE q = u
    <3> DEFINE z == <<m, i, p + 1>>
    <3>1. p + 1 \in 0 .. n + 1 /\ ~ (p + 1 <= p)
      BY <1>2
    <3>2. LeafNum(nt, i, p + 1) = u
      BY <1>6, <3>1 DEF n
    <3>3. z \in Places(new) /\ Num(new, z) = u
      BY <1>11, <3>1, <3>2
    <3>4. SameEntry(x, z)
      BY DEF SameEntry
    <3> HIDE DEF z
    <3> QED
      BY <2>2, <2>4, <3>3, <3>4
  <2> QED
    BY <2>1, <2>3, <2>4
<1>15. FirstKeysKept(ms, mem, new, nmem, x, k)
  <2> SUFFICES ASSUME NEW h \in DOMAIN ms, NEW j \in DOMAIN ms[h].table
               PROVE  \/ FirstKey(new, nmem, h, j) = FirstKey(ms, mem, h, j)
                      \/ /\ h = x[1] /\ j = x[2]
                         /\ FirstKey(new, nmem, h, j) = k /\ k < FirstKey(ms, mem, h, j)
    BY DEF FirstKeysKept
  <2> DEFINE y == <<h, j, 0>>
  <2>1. 0 \in 0 .. Len(Chain(ms[h], j))
    BY LeavesAt
  <2>2. y \in Places(ms) /\ y[1] = h /\ y[2] = j
    BY <2>1, PlacesLemma
  <2>3. Num(ms, y) = ms[h].table[j].leaf_num
    BY DEF Num, LeafNum
  <2> HIDE DEF y
  <2>4. Num(ms, y) \in 0 .. Pool - 1 /\ Num(ms, y) # u
    <3>1. Num(ms, y) \in 0 .. Pool - 1 /\ Num(ms, y) \in 0 .. u - 1
      BY <2>2, PlaceFacts
    <3> QED
      BY <1>1, <3>1
  <2>5. new[h].table[j].leaf_num = Num(ms, y)
    BY <1>7, <1>10, <2>3
  <2>6. /\ FirstKey(new, nmem, h, j) = nmem[Num(ms, y)][0].key
        /\ FirstKey(ms, mem, h, j) = mem[Num(ms, y)][0].key
    BY <2>3, <2>5 DEF FirstKey
  <2>7. CASE y = x
    <3>1. FirstKey(new, nmem, h, j) = low[0].key /\ FirstKey(ms, mem, h, j) = l[0].key
      BY <1>5, <2>6, <2>7
    <3>2. \A z \in KeysOf(low) \cup KeysOf(high) : low[0].key <= z
      <4>1. low[0].key \in KeysOf(low) /\ \A z \in KeysOf(low) : low[0].key <= z
        BY FirstKeyLemma
      <4>2. \A z \in KeysOf(high) : low[0].key < z
        BY <4>1
      <4>3. KeysOf(low) \subseteq Keys /\ KeysOf(high) \subseteq Keys /\ Keys \subseteq Int
        BY KeysLemma DEF Keys
      <4>4. ASSUME NEW z \in KeysOf(high) PROVE low[0].key <= z
        BY <4>1, <4>2, <4>3
      <4> QED
        BY <4>1, <4>4
    <3>3. low[0].key = l[0].key \/ (low[0].key = k /\ k < l[0].key)
      <4>1. /\ \A z \in KeysOf(low) : z \in KeysOf(l) \/ z = k
            /\ \A z \in KeysOf(l) : low[0].key <= z
        BY <1>9, <3>2
      <4> HIDE DEF l
      <4> QED
        BY <1>4, <4>1, FirstKeyAdded
    <3> QED
      BY <2>2, <2>7, <3>1, <3>3
  <2>8. CASE y # x
    <3>1. Num(ms, y) # at
      BY <1>3, <2>2, <2>8 DEF Consistent, PlacedOnce
    <3> QED
      BY <1>5, <2>4, <2>6, <3>1
  <2> QED
    BY <2>7, <2>8
<1>16. ASSUME NEW j, NEW z
       PROVE  Stored(nmem, j, z) <=> Stored(mem, j, z) \/ (j = k /\ z = v)
  <2> DEFINE e == [key |-> j, val |-> z]
             f == [key |-> k, val |-> v]
  <2>1. e = f <=> j = k /\ z = v
    OBVIOUS
  <2>2. Stored(nmem, j, z) <=> \E q \in 0 .. Pool - 1 : e \in Content(nmem[q])
    BY DEF Stored
  <2>3. Stored(mem, j, z) <=> \E q \in 0 .. Pool - 1 : e \in Content(mem[q])
    BY DEF Stored
  <2>4. e \in Content(low) \/ e \in Content(high) <=> e \in Content(l) \/ e = f
    BY <1>3
  <2> HIDE DEF e, f
  <2>5. (\E q \in 0 .. Pool - 1 : e \in Content(nmem[q]))
          <=> \/ e \in Content(low) \/ e \in Content(high)
              \/ \E q \in 0 .. Pool - 1 : q # at /\ q # u /\ e \in Content(mem[q])
    BY <1>1, <1>4, <1>5
  <2>6. (\E q \in 0 .. Pool - 1 : e \in Content(mem[q]))
          <=> \/ e \in Content(l)
              \/ \E q \in 0 .. Pool - 1 : q # at /\ q # u /\ e \in Content(mem[q])
    BY <1>4, <1>8
  <2> QED
    BY <2>1, <2>2, <2>3, <2>4, <2>5, <2>6
<1> QED
  BY <1>13, <1>14, <1>15, <1>16 DEF Grown, nmem, new, nt

\* insert_synonym: it refuses a key and changes nothing, or the key comes into the
\* entry that it belongs to, where it was not before.
LEMMA InsertGrown ==
  ASSUME N % 2 = 0, NEW ms, NEW mem, NEW u, Consistent(ms, mem, u), IsFunction(ms),
         NEW m \in DOMAIN ms,
         NEW k \in Keys, NEW v \in Vals,
         NEW a \in Nat, NEW b \in Nat, a <= b, a .. b \subseteq DOMAIN ms[m].table,
         NeedsLeaf(ms[m], mem, k, a, b) => u < Pool
  PROVE  LET r == Insert(ms[m], mem, u, k, v, a, b)
             x == Spot(ms, mem, m, k, a, b)
         IN  \/ ~ r.ok /\ Replaced(ms, m, r.lt) = ms /\ r.mem = mem
             \/ /\ r.ok /\ k \notin KeysOf(mem[Num(ms, x)])
                /\ Grown(ms, mem, Replaced(ms, m, r.lt), r.mem, x, k, v)
<1> DEFINE r == Insert(ms[m], mem, u, k, v, a, b)
           x == Spot(ms, mem, m, k, a, b)
           i == Entry(ms[m], mem, k, a, b)
           p == Place(ms[m], mem, k, i)
           Goal == \/ ~ r.ok /\ Replaced(ms, m, r.lt) = ms /\ r.mem = mem
                   \/ /\ r.ok /\ k \notin KeysOf(mem[Num(ms, x)])
                      /\ Grown(ms, mem, Replaced(ms, m, r.lt), r.mem, x, k, v)
<1> SUFFICES Goal
  OBVIOUS
<1>1. /\ x = <<m, i, p>> /\ x \in Places(ms)
      /\ i \in DOMAIN ms[m].table /\ p \in 0 .. Len(Chain(ms[m], i))
  BY SpotLemma
<1>2. \/ InsertRefused(ms, mem, u, x, k, r)
      \/ InsertWritten(ms, mem, u, x, k, v, r)
      \/ InsertSplit(ms, mem, u, x, k, v, r) /\ NeedsLeaf(ms[m], mem, k, a, b)
  BY InsertCases
<1> HIDE DEF r, x, i, p
<1>3. x[1] = m /\ x[2] = i /\ x[3] = p
  BY <1>1
<1>4. Replaced(ms, m, ms[m]) = ms
  BY DEF IsFunction, Replaced
<1>5. CASE InsertRefused(ms, mem, u, x, k, r)
  BY <1>3, <1>4, <1>5 DEF InsertRefused
<1>6. CASE InsertWritten(ms, mem, u, x, k, v, r)
  <2>1. PICK w \in Leaves :
          /\ Sorted(w) /\ Content(w) = Content(mem[Num(ms, x)]) \cup {[key |-> k, val |-> v]}
          /\ r = [lt |-> ms[m], mem |-> [mem EXCEPT ![Num(ms, x)] = w], used |-> u, ok |-> TRUE]
    BY <1>3, <1>6 DEF InsertWritten
  <2>2. k \notin KeysOf(mem[Num(ms, x)])
    BY <1>6 DEF InsertWritten
  <2>3. r.lt = ms[m] /\ r.mem = [mem EXCEPT ![Num(ms, x)] = w] /\ r.ok
    BY <2>1
  <2>4. Grown(ms, mem, ms, [mem EXCEPT ![Num(ms, x)] = w], x, k, v)
    BY <1>1, <2>1, WrittenGrown
  <2>5. Grown(ms, mem, Replaced(ms, m, r.lt), r.mem, x, k, v)
    BY <1>4, <2>3, <2>4
  <2> QED
    BY <2>2, <2>3, <2>5
<1>7. CASE InsertSplit(ms, mem, u, x, k, v, r) /\ NeedsLeaf(ms[m], mem, k, a, b)
  <2> DEFINE nt == synonym_emplace_back(ms[m], i, p, u)
  <2>1. PICK low \in Leaves, high \in Leaves :
          /\ Sorted(low) /\ Sorted(high) /\ KeysOf(low) # {}
          /\ \A j \in KeysOf(low), h \in KeysOf(high) : j < h
          /\ Content(low) \cup Content(high) =
               Content(mem[Num(ms, x)]) \cup {[key |-> k, val |-> v]}
          /\ r = [lt |-> nt, mem |-> [mem EXCEPT ![Num(ms, x)] = low, ![u] = high],
                  used |-> u + 1, ok |-> TRUE]
    BY <1>3, <1>7 DEF InsertSplit
  <2>2. k \notin KeysOf(mem[Num(ms, x)])
    BY <1>7 DEF InsertSplit
  <2>3. r.lt = nt /\ r.mem = [mem EXCEPT ![Num(ms, x)] = low, ![u] = high] /\ r.ok
    BY <2>1
  <2>4. LeafAt(ms, mem, m, i, p) = mem[Num(ms, x)]
    BY <1>1 DEF LeafAt
  <2>5. Content(low) \cup Content(high) =
          Content(LeafAt(ms, mem, m, i, p)) \cup {[key |-> k, val |-> v]}
    BY <2>1, <2>4
  <2>6. u < Pool
    BY <1>7
  <2>7. Grown(ms, mem, Replaced(ms, m, nt),
              [mem EXCEPT ![Num(ms, <<m, i, p>>)] = low, ![u] = high], <<m, i, p>>, k, v)
    BY <1>1, <2>1, <2>5, <2>6, SplitGrown
  <2> HIDE DEF nt
  <2>8. Grown(ms, mem, Replaced(ms, m, r.lt), r.mem, x, k, v)
    BY <1>1, <2>3, <2>7
  <2> QED
    BY <2>2, <2>3, <2>8
<1> QED
  BY <1>2, <1>5, <1>6, <1>7
-----------------------------------------------------------------------------
\* The entry of its submodel that load n sends a key to, and what search finds there
Owner(ms, mem, n, k) ==
  Entry(ms[model_index[n][k]], mem, k, windows[n][k].lo, windows[n][k].hi)

Found(ms, mem, n, k) ==
  Search(ms[model_index[n][k]], mem, k, windows[n][k].lo, windows[n][k].hi)

\* Every key is in a leaf of the entry that it is sent to.
Routed(ms, mem, n) ==
  \A q \in 0 .. Pool - 1 : \A k \in KeysOf(mem[q]) :
    \E z \in Places(ms) : /\ z[1] = model_index[n][k] /\ z[2] = Owner(ms, mem, n, k)
                          /\ Num(ms, z) = q

\* The tables ms are those of the models of load n.
TablesOf(ms, n) ==
  /\ n \in DOMAIN Loads
  /\ DOMAIN ms = 1 .. Len(Loads[n].training)
  /\ \A i \in DOMAIN ms : DOMAIN ms[i].table = 0 .. TrainedLeaves(Loads[n].training[i]) - 1

\* The walk of a key over its window
LEMMA OwnerLemma ==
  ASSUME NEW ms, NEW mem, NEW n, TablesOf(ms, n), NEW k \in Keys
  PROVE  LET m == model_index[n][k]
             w == windows[n][k]
         IN  /\ m \in DOMAIN ms /\ Trained(Loads[n].training[m])
             /\ w.lo = lo(Loads[n].training[m], k)
             /\ w.lo \in Nat /\ w.hi \in Nat /\ w.lo <= w.hi
             /\ w.lo .. w.hi \subseteq DOMAIN ms[m].table
             /\ Owner(ms, mem, n, k) \in w.lo .. w.hi
             /\ Owner(ms, mem, n, k) = w.lo \/ k >= FirstKey(ms, mem, m, Owner(ms, mem, n, k))
<1> DEFINE m == model_index[n][k]
           w == windows[n][k]
           e == Owner(ms, mem, n, k)
<1>1. /\ m \in DOMAIN ms /\ Trained(Loads[n].training[m])
      /\ w = [lo |-> lo(Loads[n].training[m], k), hi |-> hi(Loads[n].training[m], k)]
      /\ w.lo \in Nat /\ w.hi \in Nat /\ w.lo <= w.hi
      /\ w.lo .. w.hi \subseteq DOMAIN ms[m].table
  BY ModelLemma, LoadLemma DEF TablesOf
<1>2. e = Entry(ms[m], mem, k, w.lo, w.hi)
  BY DEF Owner
<1> HIDE DEF m, e
<1>3. e \in w.lo .. w.hi /\ (e = w.lo \/ insertHere(mem[ms[m].table[e].leaf_num], k))
  <2> HIDE DEF w
  <2> QED
    BY <1>1, <1>2, EntryLemma
<1>4. e = w.lo \/ k >= FirstKey(ms, mem, m, e)
  BY <1>3 DEF insertHere, FirstKey
<1>5. w.lo = lo(Loads[n].training[m], k)
  BY <1>1
<1> QED
  BY <1>1, <1>3, <1>4, <1>5 DEF m, e

\* A key that becomes the first one of its entry is sent there because its window
\* starts there, and the window of a larger key starts no further left: no key is sent
\* to another entry than before.
LEMMA OwnerKept ==
  ASSUME NEW ms, NEW mem, NEW u, Consistent(ms, mem, u), NEW new, NEW nmem, NEW n, TablesOf(ms, n),
         NEW k \in Keys, NEW x, x[1] = model_index[n][k], x[2] = Owner(ms, mem, n, k),
         FirstKeysKept(ms, mem, new, nmem, x, k), NEW j \in Keys
  PROVE  Owner(new, nmem, n, j) = Owner(ms, mem, n, j)
<1> DEFINE m == model_index[n][j]
           a == windows[n][j].lo
           b == windows[n][j].hi
           here == {i \in a + 1 .. b : insertHere(mem[ms[m].table[i].leaf_num], j)}
           after == {i \in a + 1 .. b : insertHere(nmem[new[m].table[i].leaf_num], j)}
<1>1. /\ m \in DOMAIN ms /\ a \in Nat /\ b \in Nat /\ a .. b \subseteq DOMAIN ms[m].table
      /\ a = lo(Loads[n].training[m], j) /\ Trained(Loads[n].training[m])
  BY OwnerLemma
<1>2. ASSUME NEW i \in a + 1 .. b
      PROVE  insertHere(mem[ms[m].table[i].leaf_num], j)
               <=> insertHere(nmem[new[m].table[i].leaf_num], j)
  <2>1. i \in DOMAIN ms[m].table /\ i \in Int /\ a < i
    BY <1>1
  <2>2. /\ insertHere(mem[ms[m].table[i].leaf_num], j) <=> j >= FirstKey(ms, mem, m, i)
        /\ insertHere(nmem[new[m].table[i].leaf_num], j) <=> j >= FirstKey(new, nmem, m, i)
    BY DEF insertHere, FirstKey
  <2> HIDE DEF m, a
  <2>3. \/ FirstKey(new, nmem, m, i) = FirstKey(ms, mem, m, i)
        \/ /\ m = x[1] /\ i = x[2]
           /\ FirstKey(new, nmem, m, i) = k /\ k < FirstKey(ms, mem, m, i)
    BY <1>1, <2>1 DEF FirstKeysKept
  <2>4. CASE /\ m = x[1] /\ i = x[2]
             /\ FirstKey(new, nmem, m, i) = k /\ k < FirstKey(ms, mem, m, i)
    <3>1. model_index[n][k] = m /\ Owner(ms, mem, n, k) = i
      BY <2>4
    <3>2. /\ windows[n][k].lo = lo(Loads[n].training[m], k)
          /\ i = windows[n][k].lo \/ k >= FirstKey(ms, mem, m, i)
      BY <3>1, OwnerLemma
    <3>3. FirstKey(ms, mem, m, i) \in Int /\ k \in Int /\ j \in Int
      <4>1. k \in Int /\ j \in Int
        BY DEF Keys
      <4>2. mem[ms[m].table[i].leaf_num] \in Leaves
        <5>1. Len(Chain(ms[m], i)) \in Nat /\ LeafAt(ms, mem, m, i, 0) = mem[ms[m].table[i].leaf_num]
          BY <1>1, <2>1, LeavesAt
        <5>2. 0 \in 0 .. Len(Chain(ms[m], i))
          BY <5>1
        <5>3. LeafAt(ms, mem, m, i, 0) \in Leaves
          BY <1>1, <2>1, <5>2, LeavesAt
        <5> QED
          BY <5>1, <5>3
      <4>3. FirstKey(ms, mem, m, i) \in Int
        BY <4>2, SlotLemma DEF FirstKey
      <4> QED
        BY <4>1, <4>3
    <3>4. i = lo(Loads[n].training[m], k)
      BY <2>4, <3>2, <3>3
    <3>5. ~ (k <= j)
      <4> SUFFICES ASSUME k <= j PROVE FALSE
        OBVIOUS
      <4>1. lo(Loads[n].training[m], k) <= lo(Loads[n].training[m], j)
        BY <1>1, WindowOrder
      <4> QED
        BY <1>1, <2>1, <3>4, <4>1
    <3> QED
      BY <2>2, <2>4, <3>3, <3>5
  <2> QED
    BY <2>2, <2>3, <2>4
<1>3. here = after
  BY <1>2
<1>4. /\ Owner(ms, mem, n, j) = IF here = {} THEN a ELSE Greatest(here)
      /\ Owner(new, nmem, n, j) = IF after = {} THEN a ELSE Greatest(after)
  BY DEF Owner, Entry
<1> HIDE DEF here, after
<1> QED
  BY <1>3, <1>4

\* insert_synonym and update_synonym leave every key where search goes.
LEMMA RoutedKept ==
  ASSUME NEW ms, NEW mem, NEW u, Consistent(ms, mem, u), NEW new, NEW nmem,
         NEW n, TablesOf(ms, n), Routed(ms, mem, n),
         NEW k \in Keys, NEW x \in Places(ms),
         x[1] = model_index[n][k], x[2] = Owner(ms, mem, n, k),
         Kept(ms, new), GainsOnly(ms, mem, new, nmem, x, k),
         FirstKeysKept(ms, mem, new, nmem, x, k),
         \A q \in 0 .. Pool - 1 : KeysOf(nmem[q]) \subseteq Keys
  PROVE  Routed(new, nmem, n)
<1>1. \A j \in Keys : Owner(new, nmem, n, j) = Owner(ms, mem, n, j)
  BY OwnerKept
<1>2. \A y \in Places(ms) : \E z \in Places(new) : SameEntry(y, z) /\ Num(new, z) = Num(ms, y)
  BY DEF Kept
<1>3. Num(ms, x) \in 0 .. Pool - 1
  BY PlaceFacts
<1> SUFFICES ASSUME NEW q \in 0 .. Pool - 1, NEW j \in KeysOf(nmem[q])
             PROVE  \E z \in Places(new) :
                      z[1] = model_index[n][j] /\ z[2] = Owner(new, nmem, n, j) /\ Num(new, z) = q
  BY DEF Routed
<1>4. j \in Keys
  OBVIOUS
<1>5. CASE nmem[q] = mem[q]
  <2>1. PICK y \in Places(ms) :
          y[1] = model_index[n][j] /\ y[2] = Owner(ms, mem, n, j) /\ Num(ms, y) = q
    BY <1>5 DEF Routed
  <2>2. PICK z \in Places(new) : SameEntry(y, z) /\ Num(new, z) = Num(ms, y)
    BY <1>2
  <2> QED
    BY <1>1, <1>4, <2>1, <2>2 DEF SameEntry
<1>6. CASE nmem[q] # mem[q]
  <2>1. /\ \E z \in Places(new) : SameEntry(x, z) /\ Num(new, z) = q
        /\ j \in KeysOf(mem[Num(ms, x)]) \/ j = k
    BY <1>6 DEF GainsOnly
  <2>2. PICK z \in Places(new) : SameEntry(x, z) /\ Num(new, z) = q
    BY <2>1
  <2>3. x[1] = model_index[n][j] /\ x[2] = Owner(ms, mem, n, j)
    <3>1. CASE j = k
      BY <3>1
    <3>2. CASE j \in KeysOf(mem[Num(ms, x)])
      <4>1. PICK y \in Places(ms) : /\ y[1] = model_index[n][j] /\ y[2] = Owner(ms, mem, n, j)
                                    /\ Num(ms, y) = Num(ms, x)
        BY <1>3, <3>2 DEF Routed
      <4>2. y = x
        BY <4>1 DEF Consistent, PlacedOnce
      <4> QED
        BY <4>1, <4>2
    <3> QED
      BY <2>1, <3>1, <3>2
  <2> QED
    BY <1>1, <1>4, <2>2, <2>3 DEF SameEntry
<1> QED
  BY <1>5, <1>6
-----------------------------------------------------------------------------
\* The walk over a window ends at the last entry of the window that takes the key.
LEMMA EntryUnique ==
  ASSUME NEW lt, NEW mem, NEW k, NEW a \in Nat, NEW b \in Nat, NEW e \in a .. b,
         e = a \/ insertHere(mem[lt.table[e].leaf_num], k),
         \A j \in e + 1 .. b : ~ insertHere(mem[lt.table[j].leaf_num], k)
  PROVE  Entry(lt, mem, k, a, b) = e
<1> DEFINE f == Entry(lt, mem, k, a, b)
<1>1. a <= b /\ e \in Int
  OBVIOUS
<1>2. /\ f \in a .. b
      /\ f = a \/ insertHere(mem[lt.table[f].leaf_num], k)
      /\ \A j \in f + 1 .. b : ~ insertHere(mem[lt.table[j].leaf_num], k)
  BY <1>1, EntryLemma
<1> HIDE DEF f
<1>3. ~ (f < e)
  <2> SUFFICES ASSUME f < e PROVE FALSE
    OBVIOUS
  <2>1. e \in f + 1 .. b
    BY <1>2
  <2>2. e = a
    BY <1>2, <2>1
  <2> QED
    BY <1>2, <2>2
<1>4. ~ (e < f)
  <2> SUFFICES ASSUME e < f PROVE FALSE
    OBVIOUS
  <2>1. f \in e + 1 .. b
    BY <1>2
  <2>2. f = a
    BY <1>2, <2>1
  <2> QED
    BY <1>2, <2>2
<1>5. f \in Int
  BY <1>2
<1> QED
  BY <1>1, <1>3, <1>4, <1>5 DEF f

\* A key goes to the model that it was trained with.
LEMMA TrainedModel ==
  ASSUME NEW n \in DOMAIN Loads, NEW i \in 1 .. Len(Loads[n].training),
         NEW j \in 1 .. Loads[n].training[i].capacity
  PROVE  LET k == Loads[n].training[i].keys[j]
         IN  k \in Keys /\ model_index[n][k] = i
<1> DEFINE training == Loads[n].training
           size == Len(training)
           model_keys == [h \in DOMAIN training |-> last_key(training[h])]
           k == training[i].keys[j]
           m == model_index[n][k]
           found == model_for_key(model_keys, k)
<1>1. /\ size \in Nat /\ size > 0 /\ DOMAIN training = 1 .. size
      /\ \A h \in 1 .. size : Trained(training[h]) /\ last_key(training[h]) \in Nat
      /\ \A h \in 1 .. size - 1 : last_key(training[h]) <= last_key(training[h + 1])
  BY LoadLemma
<1>2. \A h \in 1 .. size : h > 1 => last_key(training[h - 1]) < training[h].keys[1]
  BY <1>1, LoadsAssumption
<1>3. i \in 1 .. size /\ j \in 1 .. training[i].capacity
  OBVIOUS
<1> HIDE DEF training, size
<1>4. /\ training[i].capacity \in Nat \ {0} /\ i \in Int /\ j \in Int
      /\ \A h \in 1 .. training[i].capacity : training[i].keys[h] \in Keys
  BY <1>1, <1>3, ElementLemma DEF Trained
<1>5. k \in Keys /\ k \in Nat
  BY <1>3, <1>4, LeafAssumption DEF Keys
<1>6. m = found + 1
  BY <1>5 DEF model_index, training
<1> HIDE DEF m
<1>7. training[i].keys[1] <= k /\ k <= last_key(training[i]) /\ training[i].keys[1] \in Nat
  <2> DEFINE t == training[i]
             c == t.capacity
  <2>1. \A g, h \in 1 .. c : g < h => t.keys[g] < t.keys[h]
    BY <1>1, <1>3, KeysIncrease
  <2>2. \A h \in 1 .. c : t.keys[h] \in Nat
    BY <1>4, LeafAssumption DEF Keys
  <2>3. last_key(t) = t.keys[c] /\ k = t.keys[j]
    BY DEF last_key
  <2> HIDE DEF t, c, k
  <2>4. 1 \in 1 .. c /\ c \in 1 .. c /\ j \in 1 .. c /\ c \in Nat
    BY <1>3, <1>4 DEF t, c
  <2>5. t.keys[1] <= t.keys[j]
    <3>1. CASE j = 1
      BY <2>2, <2>4, <3>1
    <3>2. CASE j # 1
      <4>1. 1 < j
        BY <1>4, <2>4, <3>2
      <4>2. t.keys[1] < t.keys[j]
        BY <2>1, <2>4, <4>1
      <4> QED
        BY <2>2, <2>4, <4>2
    <3> QED
      BY <3>1, <3>2
  <2>6. t.keys[j] <= t.keys[c]
    <3>1. CASE j = c
      BY <2>2, <2>4, <3>1
    <3>2. CASE j # c
      <4>1. j < c
        BY <1>4, <2>4, <3>2
      <4>2. t.keys[j] < t.keys[c]
        BY <2>1, <2>4, <4>1
      <4> QED
        BY <2>2, <2>4, <4>2
    <3> QED
      BY <3>1, <3>2
  <2> QED
    BY <2>2, <2>3, <2>4, <2>5, <2>6 DEF t
<1> HIDE DEF k
<1>8. model_keys \in Seq(Nat) /\ Len(model_keys) = size
  <2>1. model_keys \in [1 .. size -> Nat] /\ size \in Nat
    BY <1>1
  <2> HIDE DEF model_keys
  <2> QED
    BY <2>1
<1>9. \A h \in 1 .. size : model_keys[h] = last_key(training[h])
  BY <1>1
<1> HIDE DEF model_keys, found
<1>10. \A g, h \in 1 .. size : g <= h => model_keys[g] <= model_keys[h]
  <2>1. \A h \in 1 .. size : model_keys[h] \in Int
    BY <1>1, <1>9
  <2>2. ASSUME NEW h \in 1 .. size - 1 PROVE model_keys[h] <= model_keys[h + 1]
    <3>1. h \in 1 .. size /\ h + 1 \in 1 .. size
      BY <1>1
    <3> QED
      BY <1>1, <1>9, <3>1
  <2> QED
    BY <1>1, <2>1, <2>2, StepOn
<1>11. /\ found \in 0 .. size - 1
       /\ \A h \in 1 .. size - 1 : model_keys[h] < k <=> h <= found
  <2>1. Len(model_keys) > 0
    BY <1>1, <1>8
  <2> QED
    BY <1>5, <1>8, <1>10, <2>1, ModelForKey DEF found
<1>12. ~ (i <= found)
  <2> SUFFICES ASSUME i <= found PROVE FALSE
    OBVIOUS
  <2>1. i \in 1 .. size - 1
    BY <1>1, <1>3, <1>4, <1>11
  <2>2. model_keys[i] < k
    BY <1>11, <2>1
  <2> QED
    BY <1>1, <1>3, <1>5, <1>7, <1>9, <2>2
<1>13. i - 1 <= found
  <2>1. CASE i = 1
    BY <1>11, <2>1
  <2>2. CASE i # 1
    <3>1. i > 1 /\ i - 1 \in 1 .. size - 1 /\ i - 1 \in 1 .. size
      BY <1>1, <1>3, <1>4, <2>2
    <3>2. last_key(training[i - 1]) < training[i].keys[1] /\ last_key(training[i - 1]) \in Nat
      BY <1>1, <1>2, <1>3, <3>1
    <3>3. model_keys[i - 1] < k
      BY <1>5, <1>7, <1>9, <3>1, <3>2
    <3> QED
      BY <1>11, <3>1, <3>3
  <2> QED
    BY <2>1, <2>2
<1>14. m = i
  BY <1>4, <1>6, <1>11, <1>12, <1>13
<1> QED
  BY <1>5, <1>14 DEF m, k, training

\* SubModel(...): the keys of a leaf of the training, and those of the leaves before it
LEMMA TrainedKeys ==
  ASSUME NEW m, Trained(m), NEW l \in Nat, NEW v \in Vals
  PROVE  /\ \A k \in KeysOf(TrainedLeaf(m, l, v)) :
              \E j \in 1 .. m.capacity : k = m.keys[j] /\ (j - 1) \div N = l
         /\ \A j \in 1 .. m.capacity : (j - 1) \div N < l
              => ~ insertHere(TrainedLeaf(m, l, v), m.keys[j])
<1> DEFINE t == TrainedLeaf(m, l, v)
           c == m.capacity
           b == l * N
<1>1. /\ N \in Nat \ {0} /\ Slots = 0 .. N - 1 /\ InvalidKey \in Nat
      /\ c \in Nat /\ \A j \in 1 .. c : m.keys[j] \in Keys
  BY LeafAssumption, ElementLemma DEF Slots, Trained
<1>2. b \in Nat /\ N * l = b
  BY <1>1
<1>3. \A s \in Slots : t[s] = IF b + s < c THEN [key |-> m.keys[b + s + 1], val |-> v] ELSE Empty
  BY DEF TrainedLeaf
<1>4. Empty.key = InvalidKey /\ \A k \in Keys : k \in Nat /\ k < InvalidKey
  BY <1>1 DEF Empty, Keys
<1> HIDE DEF t, c, b
<1>5. ASSUME NEW k \in KeysOf(t)
      PROVE  \E j \in 1 .. c : k = m.keys[j] /\ (j - 1) \div N = l
  <2>1. PICK s \in Slots : t[s].key = k /\ k # InvalidKey
    BY DEF KeysOf
  <2>a. b + s < c
    <3> SUFFICES ASSUME ~ (b + s < c) PROVE FALSE
      OBVIOUS
    <3>1. t[s] = Empty
      BY <1>3
    <3> QED
      BY <1>4, <2>1, <3>1
  <2>b. t[s] = [key |-> m.keys[b + s + 1], val |-> v]
    BY <1>3, <2>a
  <2>2. b + s < c /\ k = m.keys[b + s + 1]
    BY <2>1, <2>a, <2>b
  <2> DEFINE j == b + s + 1
             q == (j - 1) \div N
  <2>3. s \in Nat /\ s < N /\ j \in 1 .. c /\ j - 1 \in Nat /\ j - 1 = b + s
    BY <1>1, <1>2, <2>2
  <2> HIDE DEF j
  <2>4. q \in Nat /\ N * q <= j - 1 /\ j - 1 < N * q + N
    BY <1>1, <2>3, Quotient
  <2> HIDE DEF q
  <2>5. N * q \in Int
    BY <1>1, <2>4
  <2>6. ~ (q < l)
    <3> SUFFICES ASSUME q < l PROVE FALSE
      OBVIOUS
    <3>1. N * q + N <= N * l
      BY <1>1, <2>4, ProductOrder
    <3> QED
      BY <1>1, <1>2, <2>3, <2>4, <2>5, <3>1
  <2>7. ~ (l < q)
    <3> SUFFICES ASSUME l < q PROVE FALSE
      OBVIOUS
    <3>1. N * l + N <= N * q
      BY <1>1, <2>4, ProductOrder
    <3> QED
      BY <1>1, <1>2, <2>3, <2>4, <2>5, <3>1
  <2>8. q = l
    BY <2>4, <2>6, <2>7
  <2> QED
    BY <2>2, <2>3, <2>8 DEF j, q
<1>6. ASSUME NEW j \in 1 .. c, (j - 1) \div N < l
      PROVE  ~ insertHere(t, m.keys[j])
  <2> DEFINE q == (j - 1) \div N
  <2>1. j - 1 \in Nat /\ j \in Int
    BY <1>1
  <2>2. q \in Nat /\ j - 1 < N * q + N /\ q < l
    BY <1>1, <1>6, <2>1, Quotient
  <2> HIDE DEF q
  <2>3. N * q + N <= N * l /\ N * q \in Int
    BY <1>1, <2>2, ProductOrder
  <2>4. j < b + 1
    BY <1>1, <1>2, <2>1, <2>2, <2>3
  <2>5. 0 \in Slots /\ b + 0 = b /\ b + 0 + 1 = b + 1
    BY <1>1, <1>2
  <2>6. CASE b < c
    <3>1. b + 1 \in 1 .. c
      BY <1>1, <1>2, <2>6
    <3>2. m.keys[j] < m.keys[b + 1]
      BY <2>4, <3>1, KeysIncrease DEF c
    <3>3. t[0].key = m.keys[b + 1]
      <4>1. t[0] = [key |-> m.keys[b + 0 + 1], val |-> v]
        BY <1>3, <2>5, <2>6
      <4> QED
        BY <2>5, <4>1
    <3>4. m.keys[j] \in Nat /\ m.keys[b + 1] \in Nat
      BY <1>1, <1>4, <3>1
    <3> QED
      BY <3>2, <3>3, <3>4 DEF insertHere
  <2>7. CASE ~ (b < c)
    <3>1. t[0].key = InvalidKey
      BY <1>3, <1>4, <2>5, <2>7
    <3>2. m.keys[j] \in Nat /\ m.keys[j] < InvalidKey
      BY <1>1, <1>4
    <3> QED
      BY <1>1, <3>1, <3>2 DEF insertHere
  <2> QED
    BY <2>6, <2>7
<1> QED
  BY <1>5, <1>6 DEF t, c

\* train(): every key is in the leaf that its model predicts.
LEMMA InitRouted == Init => Routed(models, leaves, load)
<1> SUFFICES ASSUME Init PROVE Routed(models, leaves, load)
  OBVIOUS
<1>1. IndexInv /\ Appended
  BY InitLemma
<1>2. /\ load \in DOMAIN Loads /\ DOMAIN models = Models
      /\ Consistent(models, leaves, used)
      /\ \A i \in Models : DOMAIN models[i].table = 0 .. TrainedLeaves(Training[i]) - 1
  BY <1>1 DEF IndexInv
<1>3. /\ TrainedVal \in Vals /\ Models = 1 .. Len(Training)
      /\ \A i \in Models : Trained(Training[i]) /\ TrainedLeaves(Training[i]) \in Nat
  BY <1>2, LoadLemma DEF Models, Training
<1> SUFFICES ASSUME NEW q \in 0 .. Pool - 1, NEW k \in KeysOf(leaves[q])
             PROVE  \E z \in Places(models) : /\ z[1] = model_index[load][k]
                                              /\ z[2] = Owner(models, leaves, load, k)
                                              /\ Num(models, z) = q
  BY DEF Routed
<1>a. PICK i \in Models : \E e \in 0 .. TrainedLeaves(Training[i]) - 1 :
        q = FirstLeaf(i) + e /\ leaves[q] = TrainedLeaf(Training[i], e, TrainedVal)
  BY <1>1 DEF Appended
<1>4. PICK e \in 0 .. TrainedLeaves(Training[i]) - 1 :
        q = FirstLeaf(i) + e /\ leaves[q] = TrainedLeaf(Training[i], e, TrainedVal)
  BY <1>a
<1> DEFINE m == Training[i]
           T == 0 .. TrainedLeaves(Training[i]) - 1
<1>5. Trained(m) /\ e \in Nat /\ e \in T
  BY <1>3
<1>6. /\ <<i, e, 0>> \in Places(models) /\ Num(models, <<i, e, 0>>) = q
      /\ models[i].table[e].leaf_num = q
  BY <1>1, <1>4 DEF Appended
<1>7. PICK j \in 1 .. m.capacity : k = m.keys[j] /\ (j - 1) \div N = e
  BY <1>3, <1>4, <1>5, TrainedKeys
<1>8. k \in Keys /\ model_index[load][k] = i
  BY <1>2, <1>3, <1>7, TrainedModel DEF Training
<1>9. TablesOf(models, load)
  BY <1>2 DEF TablesOf, Models, Training
<1> DEFINE a == windows[load][k].lo
           b == windows[load][k].hi
<1>10. a = lo(m, k) /\ b = hi(m, k) /\ a .. b \subseteq T /\ a \in Nat /\ b \in Nat
  <2>1. windows[load][k] = [lo |-> lo(m, k), hi |-> hi(m, k)]
    BY <1>2, <1>8, ModelLemma DEF Training
  <2>2. a .. b \subseteq T /\ a \in Nat /\ b \in Nat
    BY <1>2, <1>8, ModelLemma DEF Training
  <2> QED
    BY <2>1, <2>2
<1>11. e \in a .. b
  BY <1>5, <1>7, <1>10, TrainedWindow
<1> HIDE DEF a, b, m, T
<1>12. insertHere(leaves[models[i].table[e].leaf_num], k)
  <2>1. leaves[q] \in Leaves /\ Sorted(leaves[q])
    BY <1>2 DEF Consistent
  <2>2. leaves[q][0].key <= k
    BY <2>1, FirstKeyLemma
  <2>3. leaves[q][0].key \in Int /\ k \in Int
    BY <1>8, <2>1, SlotLemma DEF Keys
  <2> QED
    BY <1>6, <2>2, <2>3 DEF insertHere
<1>13. ASSUME NEW f \in e + 1 .. b
       PROVE  ~ insertHere(leaves[models[i].table[f].leaf_num], k)
  <2>1. f \in a .. b /\ f \in T /\ e < f /\ f \in Nat
    BY <1>5, <1>10, <1>11
  <2> DEFINE g == models[i].table[f].leaf_num
             y == <<i, f, 0>>
  <2>2. y \in Places(models) /\ Num(models, y) = g
    BY <1>1, <2>1 DEF Appended, T
  <2>3. g \in 0 .. Pool - 1 /\ leaves[g] \in Leaves /\ Sorted(leaves[g])
    BY <1>2, <2>2, PlaceFacts
  <2>4. CASE KeysOf(leaves[g]) = {}
    <3>1. isEmpty(leaves[g])
      BY <2>3, <2>4, FirstKeyLemma
    <3> QED
      BY <1>8, <2>3, <3>1, FirstKeyLemma
  <2>5. CASE KeysOf(leaves[g]) # {}
    <3>a. PICK o \in Models : \E h \in 0 .. TrainedLeaves(Training[o]) - 1 :
            g = FirstLeaf(o) + h /\ leaves[g] = TrainedLeaf(Training[o], h, TrainedVal)
      BY <1>1, <2>3, <2>5 DEF Appended
    <3>1. PICK h \in 0 .. TrainedLeaves(Training[o]) - 1 :
            g = FirstLeaf(o) + h /\ leaves[g] = TrainedLeaf(Training[o], h, TrainedVal)
      BY <3>a
    <3>2. <<o, h, 0>> \in Places(models) /\ Num(models, <<o, h, 0>>) = g
      BY <1>1, <3>1 DEF Appended
    <3>3. y = <<o, h, 0>>
      BY <1>2, <2>2, <3>2 DEF Consistent, PlacedOnce
    <3>4. leaves[g] = TrainedLeaf(m, f, TrainedVal)
      BY <3>1, <3>3 DEF m
    <3> HIDE DEF g
    <3>5. ~ insertHere(TrainedLeaf(m, f, TrainedVal), m.keys[j])
      BY <1>3, <1>5, <1>7, <2>1, TrainedKeys
    <3> QED
      BY <1>7, <3>4, <3>5 DEF g
  <2> QED
    BY <2>4, <2>5
<1>14. Entry(models[i], leaves, k, a, b) = e
  BY <1>10, <1>11, <1>12, <1>13, EntryUnique
<1>15. Owner(models, leaves, load, k) = e
  BY <1>8, <1>14 DEF Owner, a, b
<1> QED
  BY <1>6, <1>8, <1>15
-----------------------------------------------------------------------------
\* What search answers is what the leaves hold: no other entry of the index has a key
\* than the one that the key is sent to.
LEMMA FoundStored ==
  ASSUME NEW ms, NEW mem, NEW u, Consistent(ms, mem, u),
         NEW n, TablesOf(ms, n), Routed(ms, mem, n), NEW k \in Keys
  PROVE  /\ \A w : Stored(mem, k, w) => Found(ms, mem, n, k) = w
         /\ \/ Found(ms, mem, n, k) = NoVal
            \/ Found(ms, mem, n, k) \in Vals /\ Stored(mem, k, Found(ms, mem, n, k))
<1> DEFINE m == model_index[n][k]
           a == windows[n][k].lo
           b == windows[n][k].hi
           i == Owner(ms, mem, n, k)
           s == Found(ms, mem, n, k)
<1>1. /\ m \in DOMAIN ms /\ a \in Nat /\ b \in Nat /\ a <= b
      /\ a .. b \subseteq DOMAIN ms[m].table /\ i \in a .. b
  BY OwnerLemma
<1>2. i = Entry(ms[m], mem, k, a, b) /\ s = Search(ms[m], mem, k, a, b)
  BY DEF Owner, Found
<1> HIDE DEF m, a, b, i, s
<1>3. /\ \A p \in 0 .. Len(Chain(ms[m], i)) :
           \A e \in Content(LeafAt(ms, mem, m, i, p)) : e.key = k => s = e.val
      /\ s = NoVal \/ \E p \in 0 .. Len(Chain(ms[m], i)) :
           [key |-> k, val |-> s] \in Content(LeafAt(ms, mem, m, i, p))
  BY <1>1, <1>2, SearchLemma
<1>4. ASSUME NEW w, Stored(mem, k, w)
      PROVE  s = w
  <2>1. PICK q \in 0 .. Pool - 1 : [key |-> k, val |-> w] \in Content(mem[q])
    BY <1>4 DEF Stored
  <2>2. mem[q] \in Leaves
    BY DEF Consistent
  <2>3. k \in KeysOf(mem[q])
    BY <2>1, <2>2, ContentLemma
  <2>4. PICK z \in Places(ms) : z[1] = m /\ z[2] = i /\ Num(ms, z) = q
    BY <2>3 DEF Routed, m, i
  <2>5. z = <<m, i, z[3]>> /\ z[3] \in 0 .. Len(Chain(ms[m], i))
    BY <2>4, PlaceFacts
  <2>6. LeafAt(ms, mem, m, i, z[3]) = mem[q]
    BY <2>4, <2>5 DEF LeafAt
  <2> QED
    BY <1>3, <2>1, <2>5, <2>6
<1>5. ASSUME s # NoVal
      PROVE  s \in Vals /\ Stored(mem, k, s)
  <2>1. PICK p \in 0 .. Len(Chain(ms[m], i)) :
          [key |-> k, val |-> s] \in Content(LeafAt(ms, mem, m, i, p))
    BY <1>3, <1>5
  <2>2. <<m, i, p>> \in Places(ms)
    BY <1>1, LeavesAt
  <2>3. Num(ms, <<m, i, p>>) \in 0 .. Pool - 1 /\ mem[Num(ms, <<m, i, p>>)] \in Leaves
    BY <2>2, PlaceFacts
  <2>4. [key |-> k, val |-> s].val \in Vals
    BY <2>1, <2>3, ContentLemma DEF LeafAt
  <2> QED
    BY <2>1, <2>3, <2>4 DEF Stored, LeafAt
<1> QED
  BY <1>4, <1>5 DEF s

\* A write that changes no entry of a key leaves what search finds for the key.
LEMMA SameFound ==
  ASSUME NEW ms, NEW mem, NEW u, Consistent(ms, mem, u),
         NEW n, TablesOf(ms, n), Routed(ms, mem, n),
         NEW new, NEW nmem, NEW nu, Consistent(new, nmem, nu),
         TablesOf(new, n), Routed(new, nmem, n),
         NEW j \in Keys, \A w : Stored(nmem, j, w) <=> Stored(mem, j, w)
  PROVE  Found(new, nmem, n, j) = Found(ms, mem, n, j)
<1> DEFINE f == Found(ms, mem, n, j)
           g == Found(new, nmem, n, j)
<1>1. (\A w : Stored(mem, j, w) => f = w) /\ (f = NoVal \/ Stored(mem, j, f))
  BY FoundStored
<1>2. (\A w : Stored(nmem, j, w) => g = w) /\ (g = NoVal \/ Stored(nmem, j, g))
  BY FoundStored
<1> HIDE DEF f, g
<1> QED
  BY <1>1, <1>2 DEF f, g

\* update_synonym: the key stays where it is and gets the value, if it is there.
LEMMA UpdateRewrites ==
  ASSUME NEW ms, NEW mem, NEW u, Consistent(ms, mem, u), NEW m \in DOMAIN ms,
         NEW k \in Keys, NEW v \in Vals,
         NEW a \in Nat, NEW b \in Nat, a <= b, a .. b \subseteq DOMAIN ms[m].table
  PROVE  LET x == Spot(ms, mem, m, k, a, b)
             r == Update(ms[m], mem, k, v, a, b)
         IN  /\ Kept(ms, ms) /\ GainsOnly(ms, mem, ms, r.mem, x, k)
             /\ FirstKeysKept(ms, mem, ms, r.mem, x, k)
             /\ r.ok <=> k \in KeysOf(mem[Num(ms, x)])
             /\ ~ r.ok => r.mem = mem
             /\ r.ok => Stored(r.mem, k, v)
             /\ \A j, w : j # k => (Stored(r.mem, j, w) <=> Stored(mem, j, w))
<1> DEFINE x == Spot(ms, mem, m, k, a, b)
           at == Num(ms, x)
           l == mem[at]
           w == update(l, k, v)
           r == Update(ms[m], mem, k, v, a, b)
           nmem == [mem EXCEPT ![at] = w]
<1> DEFINE Goal == /\ Kept(ms, ms) /\ GainsOnly(ms, mem, ms, r.mem, x, k)
                   /\ FirstKeysKept(ms, mem, ms, r.mem, x, k)
                   /\ r.ok <=> k \in KeysOf(mem[Num(ms, x)])
                   /\ ~ r.ok => r.mem = mem
                   /\ r.ok => Stored(r.mem, k, v)
                   /\ \A j, z : j # k => (Stored(r.mem, j, z) <=> Stored(mem, j, z))
<1> SUFFICES Goal
  OBVIOUS
<1>1. x \in Places(ms)
  BY SpotLemma
<1>2. at \in 0 .. Pool - 1 /\ mem \in [0 .. Pool - 1 -> Leaves] /\ l \in Leaves /\ Sorted(l)
  <2> HIDE DEF x
  <2> QED
    BY <1>1, PlaceFacts DEF Consistent
<1>3. r.mem = nmem /\ r.ok = contain(l, k)
  <2>1. at = LET i == Entry(ms[m], mem, k, a, b)
             IN  LeafNum(ms[m], i, Place(ms[m], mem, k, i))
    BY SpotLemma
  <2> HIDE DEF x
  <2> QED
    BY <1>2, <2>1 DEF Update
<1> HIDE DEF x, r
<1>4. nmem[at] = w /\ \A q \in 0 .. Pool - 1 : q # at => nmem[q] = mem[q]
  <2> HIDE DEF w, at
  <2> QED
    BY <1>2
<1> HIDE DEF at, l
<1>5. /\ w \in Leaves /\ Sorted(w) /\ KeysOf(w) = KeysOf(l)
      /\ \A i \in Slots : w[i].key = l[i].key
      /\ Content(w) = IF k \in KeysOf(l)
                        THEN {e \in Content(l) : e.key # k} \cup {[key |-> k, val |-> v]}
                        ELSE Content(l)
  BY <1>2, UpdateLemma
<1>6. contain(l, k) <=> k \in KeysOf(l)
  BY <1>2, FoundLemma
<1>7. ~ contain(l, k) => w = l
  BY DEF update
<1> HIDE DEF w
<1>8. ~ contain(l, k) => nmem = mem
  <2> HIDE DEF nmem
  <2>1. nmem = [mem EXCEPT ![at] = w]
    BY DEF nmem
  <2> QED
    BY <1>2, <1>7, <2>1 DEF l
<1> HIDE DEF nmem
<1>9. Kept(ms, ms)
  BY DEF Kept, SameEntry
<1>10. GainsOnly(ms, mem, ms, nmem, x, k)
  <2> SUFFICES ASSUME NEW q \in 0 .. Pool - 1, nmem[q] # mem[q]
               PROVE  /\ \E z \in Places(ms) : SameEntry(x, z) /\ Num(ms, z) = q
                      /\ \A j \in KeysOf(nmem[q]) : j \in KeysOf(mem[Num(ms, x)]) \/ j = k
    BY DEF GainsOnly
  <2>1. q = at
    BY <1>4
  <2>2. SameEntry(x, x)
    BY DEF SameEntry
  <2> QED
    BY <1>1, <1>4, <1>5, <2>1, <2>2 DEF at, l
<1>11. FirstKeysKept(ms, mem, ms, nmem, x, k)
  <2> SUFFICES ASSUME NEW h \in DOMAIN ms, NEW j \in DOMAIN ms[h].table
               PROVE  FirstKey(ms, nmem, h, j) = FirstKey(ms, mem, h, j)
    BY DEF FirstKeysKept
  <2> DEFINE y == <<h, j, 0>>
  <2>1. 0 \in 0 .. Len(Chain(ms[h], j))
    BY LeavesAt
  <2>2. y \in Places(ms)
    BY <2>1, PlacesLemma
  <2>3. Num(ms, y) = ms[h].table[j].leaf_num
    BY DEF Num, LeafNum
  <2> HIDE DEF y
  <2>4. Num(ms, y) \in 0 .. Pool - 1
    BY <2>2, PlaceFacts
  <2>5. 0 \in Slots
    BY <1>2, SlotLemma
  <2> QED
    BY <1>4, <1>5, <2>3, <2>4, <2>5 DEF FirstKey, l
<1>12. contain(l, k) => Stored(nmem, k, v)
  BY <1>2, <1>4, <1>5, <1>6 DEF Stored
<1>13. ASSUME NEW j, NEW z, j # k
       PROVE  Stored(nmem, j, z) <=> Stored(mem, j, z)
  <2> DEFINE e == [key |-> j, val |-> z]
             f == [key |-> k, val |-> v]
  <2>1. e # f /\ e.key = j
    BY <1>13
  <2>2. Stored(nmem, j, z) <=> \E q \in 0 .. Pool - 1 : e \in Content(nmem[q])
    BY DEF Stored
  <2>3. Stored(mem, j, z) <=> \E q \in 0 .. Pool - 1 : e \in Content(mem[q])
    BY DEF Stored
  <2> HIDE DEF e, f
  <2>4. e \in Content(w) <=> e \in Content(l)
    <3>1. CASE k \in KeysOf(l)
      BY <1>5, <1>13, <2>1, <3>1 DEF f
    <3>2. CASE k \notin KeysOf(l)
      BY <1>5, <3>2
    <3> QED
      BY <3>1, <3>2
  <2>5. \A q \in 0 .. Pool - 1 : e \in Content(nmem[q]) <=> e \in Content(mem[q])
    BY <1>4, <2>4 DEF l
  <2> QED
    BY <2>2, <2>3, <2>5
<1> QED
  BY <1>3, <1>6, <1>8, <1>9, <1>10, <1>11, <1>12, <1>13 DEF at, l
-----------------------------------------------------------------------------
\* The index is consistent and every key is where search goes.
DictInv == IndexInv /\ Routed(models, leaves, load)

\* No client removes a key.
NoRemoves == \A n \in DOMAIN Loads : Loads[n].removes = {}

\* What search finds, in terms of the parts of the index
LEMMA ContentsFound ==
  /\ contents = [k \in Keys |-> Found(models, leaves, load, k)]
  /\ contents' = [k \in Keys |-> Found(models', leaves', load', k)]
BY DEF contents, Lookup, Found, model_for, window

\* The tables are those of the load.
LEMMA TablesLemma ==
  ASSUME IndexInv
  PROVE  TablesOf(models, load) /\ Consistent(models, leaves, used)
BY DEF IndexInv, TablesOf, Models, Training

\* The same after a step
LEMMA TablesAfter ==
  ASSUME DictInv'
  PROVE  /\ TablesOf(models', load') /\ Consistent(models', leaves', used')
         /\ Routed(models', leaves', load')
<1>1. IndexInv' /\ Routed(models', leaves', load')
  BY DEF DictInv
<1> QED
  BY <1>1 DEF IndexInv, TablesOf, Models, Training

\* A write changes at most what search finds for its own key.
LEMMA OthersKept ==
  ASSUME DictInv, DictInv', load' = load, NEW k \in Keys,
         \A j, w : j # k => (Stored(leaves', j, w) <=> Stored(leaves, j, w))
  PROVE  contents' = [contents EXCEPT ![k] = contents'[k]]
<1>1. /\ TablesOf(models, load) /\ Consistent(models, leaves, used) /\ Routed(models, leaves, load)
  BY TablesLemma DEF DictInv
<1>2. TablesOf(models', load') /\ Consistent(models', leaves', used') /\ Routed(models', leaves', load')
  BY TablesAfter
<1>3. ASSUME NEW j \in Keys, j # k
      PROVE  contents'[j] = contents[j]
  <2>1. Found(models', leaves', load, j) = Found(models, leaves, load, j)
    BY <1>1, <1>2, <1>3, SameFound
  <2> QED
    BY <2>1, ContentsFound
<1>4. contents = [j \in Keys |-> contents[j]] /\ contents' = [j \in Keys |-> contents'[j]]
  BY ContentsFound
<1> QED
  BY <1>3, <1>4

\* The value that search finds for a key in a leaf
LEMMA ContentsStored ==
  ASSUME DictInv, NEW k \in Keys
  PROVE  /\ \A w : Stored(leaves, k, w) => contents[k] = w
         /\ contents[k] \in Vals \cup {NoVal}
<1>1. /\ TablesOf(models, load) /\ Consistent(models, leaves, used) /\ Routed(models, leaves, load)
  BY TablesLemma DEF DictInv
<1>2. contents[k] = Found(models, leaves, load, k)
  BY ContentsFound
<1>3. \A w : Stored(leaves, k, w) => Found(models, leaves, load, k) = w
  BY <1>1, FoundStored
<1>4. Found(models, leaves, load, k) = NoVal \/ Found(models, leaves, load, k) \in Vals
  BY <1>1, FoundStored
<1> QED
  BY <1>2, <1>3, <1>4

\* insert: a key that search does not find comes in with its value, or nothing changes.
LEMMA PutStep ==
  ASSUME N % 2 = 0, DictInv, NEW k \in Loads[load].writes, NEW v \in Loads[load].values,
         PutKey(k, v)
  PROVE  /\ DictInv'
         /\ \/ reply' = [op |-> "insert", key |-> k, ok |-> FALSE] /\ contents' = contents
            \/ /\ reply' = [op |-> "insert", key |-> k, ok |-> TRUE]
               /\ contents[k] = NoVal /\ contents' = [contents EXCEPT ![k] = v]
<1>0. IndexInv /\ Routed(models, leaves, load) /\ load \in DOMAIN Loads
  BY DEF DictInv, IndexInv
<1>1. Next
  BY DEF Next
<1>2. IndexInv'
  BY <1>0, <1>1, IndexStep
<1>3. k \in Keys /\ v \in Vals
  BY <1>0, LoadLemma
<1> DEFINE m == model_for[k]
           a == window[k].lo
           b == window[k].hi
           r == Insert(models[m], leaves, used, k, v, a, b)
           x == Spot(models, leaves, m, k, a, b)
<1>4. /\ m \in DOMAIN models /\ a \in Nat /\ b \in Nat /\ a <= b
      /\ a .. b \subseteq DOMAIN models[m].table
  BY <1>0, <1>3, WindowFacts
<1>5. TablesOf(models, load) /\ Consistent(models, leaves, used) /\ IsFunction(models)
  BY <1>0, TablesLemma DEF IndexInv
<1>6. /\ NeedsLeaf(models[m], leaves, k, a, b) => used < Pool
      /\ models' = Replaced(models, m, r.lt) /\ leaves' = r.mem /\ load' = load
      /\ reply' = [op |-> "insert", key |-> k, ok |-> r.ok]
  BY DEF PutKey, Replaced, Answer
<1>7. m = model_index[load][k] /\ Entry(models[m], leaves, k, a, b) = Owner(models, leaves, load, k)
  BY DEF model_for, window, Owner
<1>8. contents[k] = Search(models[m], leaves, k, a, b)
  BY <1>3 DEF contents, Lookup
<1> HIDE DEF m, a, b
<1>9. \/ ~ r.ok /\ Replaced(models, m, r.lt) = models /\ r.mem = leaves
      \/ /\ r.ok /\ k \notin KeysOf(leaves[Num(models, x)])
         /\ Grown(models, leaves, Replaced(models, m, r.lt), r.mem, x, k, v)
  BY <1>3, <1>4, <1>5, <1>6, InsertGrown
<1>10. /\ x \in Places(models) /\ x[1] = m
       /\ x[2] = Entry(models[m], leaves, k, a, b)
  <2>1. /\ x = <<m, Entry(models[m], leaves, k, a, b),
                 Place(models[m], leaves, k, Entry(models[m], leaves, k, a, b))>>
        /\ x \in Places(models)
    BY <1>3, <1>4, <1>5, SpotLemma
  <2> QED
    BY <2>1
<1>11. k \in KeysOf(leaves[Num(models, x)]) <=> contents[k] # NoVal
  BY <1>3, <1>4, <1>5, <1>8, MetKey
<1>12. r.ok \in BOOLEAN
  BY DEF Insert
<1> HIDE DEF r, x
<1>13. CASE ~ r.ok
  <2>1. models' = models /\ leaves' = leaves
    BY <1>6, <1>9, <1>13
  <2>2. reply' = [op |-> "insert", key |-> k, ok |-> FALSE]
    BY <1>6, <1>12, <1>13
  <2>3. contents' = contents
    BY <1>6, <2>1, ContentsFound
  <2>4. DictInv'
    BY <1>0, <1>2, <1>6, <2>1 DEF DictInv
  <2> QED
    BY <2>2, <2>3, <2>4
<1>14. CASE r.ok
  <2>1. /\ contents[k] = NoVal
        /\ Grown(models, leaves, models', leaves', x, k, v)
    BY <1>6, <1>9, <1>11, <1>14
  <2>2. reply' = [op |-> "insert", key |-> k, ok |-> TRUE]
    BY <1>6, <1>12, <1>14
  <2>3. \A q \in 0 .. Pool - 1 : KeysOf(leaves'[q]) \subseteq Keys
    <3>1. leaves' \in [0 .. Pool - 1 -> Leaves]
      BY <1>2 DEF IndexInv, Consistent
    <3> QED
      BY <3>1, KeysLemma
  <2>4. /\ Kept(models, models') /\ GainsOnly(models, leaves, models', leaves', x, k)
        /\ FirstKeysKept(models, leaves, models', leaves', x, k)
        /\ \A j, w : Stored(leaves', j, w) <=> Stored(leaves, j, w) \/ (j = k /\ w = v)
    BY <2>1 DEF Grown
  <2>5. Routed(models', leaves', load)
    BY <1>0, <1>3, <1>5, <1>7, <1>10, <2>3, <2>4, RoutedKept
  <2>6. DictInv'
    BY <1>2, <1>6, <2>5 DEF DictInv
  <2>7. contents' = [contents EXCEPT ![k] = contents'[k]]
    BY <1>3, <1>6, <2>4, <2>6, OthersKept
  <2>8. contents'[k] = v
    <3>1. Stored(leaves', k, v)
      BY <2>4
    <3>2. /\ TablesOf(models', load) /\ Consistent(models', leaves', used')
          /\ Routed(models', leaves', load)
      BY <1>6, <2>6, TablesAfter
    <3>3. Found(models', leaves', load, k) = v
      BY <1>3, <3>1, <3>2, FoundStored
    <3> QED
      BY <1>3, <1>6, <3>3, ContentsFound
  <2> QED
    BY <2>1, <2>2, <2>6, <2>7, <2>8
<1> QED
  BY <1>12, <1>13, <1>14

\* update: the value of a key that search finds becomes the new one, or nothing changes.
LEMMA RewriteStep ==
  ASSUME N % 2 = 0, DictInv, NEW k \in Loads[load].writes, NEW v \in Loads[load].values,
         UpdateKey(k, v)
  PROVE  /\ DictInv'
         /\ \/ /\ reply' = [op |-> "update", key |-> k, ok |-> FALSE]
               /\ contents[k] = NoVal /\ contents' = contents
            \/ /\ reply' = [op |-> "update", key |-> k, ok |-> TRUE]
               /\ contents[k] # NoVal /\ contents' = [contents EXCEPT ![k] = v]
<1>0. IndexInv /\ Routed(models, leaves, load) /\ load \in DOMAIN Loads
  BY DEF DictInv, IndexInv
<1>1. Next
  BY DEF Next
<1>2. IndexInv'
  BY <1>0, <1>1, IndexStep
<1>3. k \in Keys /\ v \in Vals
  BY <1>0, LoadLemma
<1> DEFINE m == model_for[k]
           a == window[k].lo
           b == window[k].hi
           r == Update(models[m], leaves, k, v, a, b)
           x == Spot(models, leaves, m, k, a, b)
<1>4. /\ m \in DOMAIN models /\ a \in Nat /\ b \in Nat /\ a <= b
      /\ a .. b \subseteq DOMAIN models[m].table
  BY <1>0, <1>3, WindowFacts
<1>5. TablesOf(models, load) /\ Consistent(models, leaves, used)
  BY <1>0, TablesLemma
<1>6. /\ models' = models /\ leaves' = r.mem /\ load' = load
      /\ reply' = [op |-> "update", key |-> k, ok |-> r.ok]
  BY DEF UpdateKey, Answer
<1>7. m = model_index[load][k] /\ Entry(models[m], leaves, k, a, b) = Owner(models, leaves, load, k)
  BY DEF model_for, window, Owner
<1>8. contents[k] = Search(models[m], leaves, k, a, b)
  BY <1>3 DEF contents, Lookup
<1>9. r.ok \in BOOLEAN
  <2>1. \A l \in Leaves : contain(l, k) \in BOOLEAN
    BY DEF contain
  <2> QED
    BY DEF Update, contain
<1> HIDE DEF m, a, b
<1>10. /\ Kept(models, models) /\ GainsOnly(models, leaves, models, r.mem, x, k)
       /\ FirstKeysKept(models, leaves, models, r.mem, x, k)
       /\ r.ok <=> k \in KeysOf(leaves[Num(models, x)])
       /\ ~ r.ok => r.mem = leaves
       /\ r.ok => Stored(r.mem, k, v)
       /\ \A j, w : j # k => (Stored(r.mem, j, w) <=> Stored(leaves, j, w))
  BY <1>3, <1>4, <1>5, UpdateRewrites
<1>11. /\ x \in Places(models) /\ x[1] = m
       /\ x[2] = Entry(models[m], leaves, k, a, b)
  <2>1. /\ x = <<m, Entry(models[m], leaves, k, a, b),
                 Place(models[m], leaves, k, Entry(models[m], leaves, k, a, b))>>
        /\ x \in Places(models)
    BY <1>3, <1>4, <1>5, SpotLemma
  <2> QED
    BY <2>1
<1>12. k \in KeysOf(leaves[Num(models, x)]) <=> contents[k] # NoVal
  BY <1>3, <1>4, <1>5, <1>8, MetKey
<1> HIDE DEF r, x
<1>13. \A q \in 0 .. Pool - 1 : KeysOf(leaves'[q]) \subseteq Keys
  <2>1. leaves' \in [0 .. Pool - 1 -> Leaves]
    BY <1>2 DEF IndexInv, Consistent
  <2> QED
    BY <2>1, KeysLemma
<1>14. Routed(models', leaves', load)
  <2>1. Routed(models, r.mem, load)
    BY <1>0, <1>3, <1>5, <1>6, <1>7, <1>10, <1>11, <1>13, RoutedKept
  <2> QED
    BY <1>6, <2>1
<1>15. DictInv'
  BY <1>2, <1>6, <1>14 DEF DictInv
<1>16. CASE ~ r.ok
  <2>1. contents' = contents
    BY <1>6, <1>10, <1>16, ContentsFound
  <2>2. reply' = [op |-> "update", key |-> k, ok |-> FALSE]
    BY <1>6, <1>9, <1>16
  <2> QED
    BY <1>10, <1>12, <1>15, <1>16, <2>1, <2>2
<1>17. CASE r.ok
  <2>1. contents' = [contents EXCEPT ![k] = contents'[k]]
    BY <1>3, <1>6, <1>10, <1>15, OthersKept
  <2>2. contents'[k] = v
    <3>1. Stored(leaves', k, v)
      BY <1>6, <1>10, <1>17
    <3>2. /\ TablesOf(models', load) /\ Consistent(models', leaves', used')
          /\ Routed(models', leaves', load)
      BY <1>6, <1>15, TablesAfter
    <3>3. Found(models', leaves', load, k) = v
      BY <1>3, <3>1, <3>2, FoundStored
    <3> QED
      BY <1>3, <1>6, <3>3, ContentsFound
  <2>3. reply' = [op |-> "update", key |-> k, ok |-> TRUE]
    BY <1>6, <1>9, <1>17
  <2> QED
    BY <1>10, <1>12, <1>15, <1>17, <2>1, <2>2, <2>3
<1> QED
  BY <1>9, <1>16, <1>17

-----------------------------------------------------------------------------
\* Leaves lost keys, and only a leaf without keys left its entry.
Shrunk(ms, mem, new, nmem) ==
  /\ \A q \in 0 .. Pool - 1 : KeysOf(nmem[q]) \subseteq KeysOf(mem[q])
  /\ \A y \in Places(ms) : KeysOf(nmem[Num(ms, y)]) # {} =>
       \E z \in Places(new) : SameEntry(y, z) /\ Num(new, z) = Num(ms, y)
  /\ \A l \in DOMAIN ms : \A j \in DOMAIN ms[l].table :
       FirstKey(ms, mem, l, j) <= FirstKey(new, nmem, l, j)

\* An entry whose own leaf is empty has only keys in its synonym leaves for which the
\* walk starts at this entry.
HidesNone(ms, mem, n) ==
  \A m \in DOMAIN ms : \A i \in DOMAIN ms[m].table :
    isEmpty(mem[ms[m].table[i].leaf_num]) =>
      \A p \in 1 .. Len(Chain(ms[m], i)) :
        \A k \in KeysOf(LeafAt(ms, mem, m, i, p)) : windows[n][k].lo = i

\* The walk over a window passes entries by whose first keys are too large. When first
\* keys grow, it still ends at the entry of a key, unless this entry's own leaf is empty.
LEMMA ShrunkRouted ==
  ASSUME NEW ms, NEW mem, NEW u, Consistent(ms, mem, u),
         NEW n, TablesOf(ms, n), Routed(ms, mem, n),
         NEW new, NEW nmem, NEW nu, Consistent(new, nmem, nu), TablesOf(new, n),
         Shrunk(ms, mem, new, nmem), HidesNone(new, nmem, n)
  PROVE  Routed(new, nmem, n)
<1> SUFFICES ASSUME NEW q \in 0 .. Pool - 1, NEW j \in KeysOf(nmem[q])
             PROVE  \E z \in Places(new) :
                      z[1] = model_index[n][j] /\ z[2] = Owner(new, nmem, n, j) /\ Num(new, z) = q
  BY DEF Routed
<1> DEFINE m == model_index[n][j]
           a == windows[n][j].lo
           b == windows[n][j].hi
           e == Owner(ms, mem, n, j)
<1>1. nmem[q] \in Leaves /\ Sorted(nmem[q])
  BY DEF Consistent
<1>2. j \in Keys /\ j \in Int
  BY <1>1, KeysLemma DEF Keys
<1>3. /\ m \in DOMAIN ms /\ a \in Nat /\ b \in Nat /\ a <= b
      /\ a .. b \subseteq DOMAIN ms[m].table /\ e \in a .. b
  BY <1>2, OwnerLemma
<1>4. /\ e = Entry(ms[m], mem, j, a, b)
      /\ Owner(new, nmem, n, j) = Entry(new[m], nmem, j, a, b)
  BY DEF Owner
<1>5. PICK y \in Places(ms) : y[1] = m /\ y[2] = e /\ Num(ms, y) = q
  BY DEF Shrunk, Routed
<1>6. PICK z \in Places(new) : SameEntry(y, z) /\ Num(new, z) = q
  BY <1>5 DEF Shrunk
<1> HIDE DEF m, a, b, e
<1>7. DOMAIN new = DOMAIN ms /\ DOMAIN new[m].table = DOMAIN ms[m].table
  BY <1>3 DEF TablesOf
<1>8. m \in DOMAIN new /\ e \in DOMAIN new[m].table /\ e \in Int
  BY <1>3, <1>7
<1>9. z = <<m, e, z[3]>> /\ z[3] \in 0 .. Len(Chain(new[m], e)) /\ z[3] \in Nat
  BY <1>5, <1>6, PlaceFacts DEF SameEntry
<1>10. e = a \/ insertHere(nmem[new[m].table[e].leaf_num], j)
  <2> DEFINE base == LeafAt(new, nmem, m, e, 0)
  <2>1. Len(Chain(new[m], e)) \in Nat /\ base = nmem[new[m].table[e].leaf_num]
    BY <1>8, LeavesAt
  <2>2. 0 \in 0 .. Len(Chain(new[m], e))
    BY <2>1
  <2>3. base \in Leaves /\ Sorted(base)
    BY <1>8, <2>2, LeavesAt
  <2>4. LeafAt(new, nmem, m, e, z[3]) = nmem[q]
    BY <1>6, <1>9 DEF LeafAt
  <2> HIDE DEF base
  <2>5. base[0].key \in Int
    BY <2>3, SlotLemma
  <2>6. CASE z[3] = 0
    <3>1. base = nmem[q]
      BY <2>4, <2>6 DEF base
    <3>2. base[0].key <= j
      BY <1>1, <3>1, FirstKeyLemma
    <3> QED
      BY <1>2, <2>1, <2>5, <3>2 DEF insertHere
  <2>7. CASE z[3] # 0 /\ isEmpty(base)
    <3>1. z[3] \in 1 .. Len(Chain(new[m], e))
      BY <1>9, <2>1, <2>7
    <3>2. j \in KeysOf(LeafAt(new, nmem, m, e, z[3]))
      BY <2>4
    <3>3. windows[n][j].lo = e
      BY <1>8, <2>1, <2>7, <3>1, <3>2 DEF HidesNone
    <3> QED
      BY <3>3 DEF a
  <2>8. CASE z[3] # 0 /\ ~ isEmpty(base)
    <3>1. base[0].key \in KeysOf(base)
      BY <2>3, <2>8, FirstKeyLemma
    <3>2. 0 < z[3] /\ j \in KeysOf(LeafAt(new, nmem, m, e, z[3]))
      BY <1>9, <2>4, <2>8
    <3>3. \A p, r \in 0 .. Len(Chain(new[m], e)) : p < r =>
            \A g \in KeysOf(LeafAt(new, nmem, m, e, p)), h \in KeysOf(LeafAt(new, nmem, m, e, r)) : g < h
      BY <1>8, LeavesAt
    <3>4. base[0].key < j
      BY <1>9, <2>2, <3>1, <3>2, <3>3 DEF base
    <3> QED
      BY <1>2, <2>1, <2>5, <3>4 DEF insertHere
  <2> QED
    BY <2>6, <2>7, <2>8
<1>11. ASSUME NEW f \in e + 1 .. b
       PROVE  ~ insertHere(nmem[new[m].table[f].leaf_num], j)
  <2>1. ~ insertHere(mem[ms[m].table[f].leaf_num], j)
    BY <1>3, <1>4, EntryLemma
  <2>2. f \in a .. b /\ f \in DOMAIN ms[m].table /\ f \in DOMAIN new[m].table
    BY <1>3, <1>7, <1>8
  <2>3. mem[ms[m].table[f].leaf_num] \in Leaves /\ nmem[new[m].table[f].leaf_num] \in Leaves
    <3>1. Len(Chain(ms[m], f)) \in Nat /\ LeafAt(ms, mem, m, f, 0) = mem[ms[m].table[f].leaf_num]
      BY <1>3, <2>2, LeavesAt
    <3>2. 0 \in 0 .. Len(Chain(ms[m], f))
      BY <3>1
    <3>3. LeafAt(ms, mem, m, f, 0) \in Leaves
      BY <1>3, <2>2, <3>2, LeavesAt
    <3>4. Len(Chain(new[m], f)) \in Nat /\ LeafAt(new, nmem, m, f, 0) = nmem[new[m].table[f].leaf_num]
      BY <1>8, <2>2, LeavesAt
    <3>5. 0 \in 0 .. Len(Chain(new[m], f))
      BY <3>4
    <3>6. LeafAt(new, nmem, m, f, 0) \in Leaves
      BY <1>8, <2>2, <3>5, LeavesAt
    <3> QED
      BY <3>1, <3>3, <3>4, <3>6
  <2>4. FirstKey(ms, mem, m, f) <= FirstKey(new, nmem, m, f)
    BY <1>3, <2>2 DEF Shrunk
  <2>5. FirstKey(ms, mem, m, f) \in Int /\ FirstKey(new, nmem, m, f) \in Int
    BY <2>3, SlotLemma DEF FirstKey
  <2>6. ~ (j >= FirstKey(ms, mem, m, f))
    BY <2>1 DEF insertHere, FirstKey
  <2>7. ~ (j >= FirstKey(new, nmem, m, f))
    BY <1>2, <2>4, <2>5, <2>6
  <2> QED
    BY <2>7 DEF insertHere, FirstKey
<1>12. Entry(new[m], nmem, j, a, b) = e
  BY <1>3, <1>10, <1>11, EntryUnique
<1>13. z[1] = model_index[n][j] /\ z[2] = Owner(new, nmem, n, j)
  BY <1>4, <1>5, <1>6, <1>12 DEF SameEntry, m
<1> QED
  BY <1>6, <1>13

\* synonym_table_remove: the other leaves stay in their entries, and the entries keep
\* their own leaves.
LEMMA UnlinkKept ==
  ASSUME NEW ms, NEW m \in DOMAIN ms, Sound(ms[m]), NEW i \in DOMAIN ms[m].table,
         NEW p \in 1 .. Len(Chain(ms[m], i)), NEW y \in Places(ms), y # <<m, i, p>>
  PROVE  \E z \in Places(Replaced(ms, m, synonym_table_remove(ms[m], i, p))) :
           /\ SameEntry(y, z)
           /\ Num(Replaced(ms, m, synonym_table_remove(ms[m], i, p)), z) = Num(ms, y)
<1> DEFINE lt == ms[m]
           nt == synonym_table_remove(lt, i, p)
           new == Replaced(ms, m, nt)
           n == Len(Chain(lt, i))
<1>1. n \in Nat /\ p \in Nat /\ p >= 1 /\ p <= n
  <2>1. n \in Nat
    BY ChainLemma
  <2> QED
    BY <2>1
<1>2. /\ DOMAIN nt.table = DOMAIN lt.table
      /\ \A j \in DOMAIN lt.table : j # i =>
           /\ Len(Chain(nt, j)) = Len(Chain(lt, j))
           /\ \A q \in 0 .. Len(Chain(lt, j)) : LeafNum(nt, j, q) = LeafNum(lt, j, q)
      /\ Len(Chain(nt, i)) = n - 1
      /\ \A q \in 0 .. n - 1 :
           LeafNum(nt, i, q) = IF q < p THEN LeafNum(lt, i, q) ELSE LeafNum(lt, i, q + 1)
  BY UnlinkLeaves
<1> HIDE DEF nt
<1>3. /\ DOMAIN new = DOMAIN ms /\ new[m] = nt
      /\ \A h \in DOMAIN ms : h # m => new[h] = ms[h]
  BY DEF Replaced
<1> HIDE DEF new
<1>4. /\ y = <<y[1], y[2], y[3]>> /\ y[1] \in DOMAIN ms /\ y[2] \in DOMAIN ms[y[1]].table
      /\ y[3] \in 0 .. Len(Chain(ms[y[1]], y[2]))
      /\ Num(ms, y) = LeafNum(ms[y[1]], y[2], y[3])
  BY PlacesLemma
<1> SUFFICES \E z \in Places(new) : SameEntry(y, z) /\ Num(new, z) = Num(ms, y)
  BY DEF new, nt
<1>5. CASE y[1] = m /\ y[2] = i
  <2> DEFINE q == y[3]
             t == IF q < p THEN q ELSE q - 1
             z == <<m, i, t>>
  <2>1. q \in 0 .. n /\ q \in Nat
    BY <1>1, <1>4, <1>5 DEF n
  <2>2. q # p
    BY <1>4, <1>5
  <2> HIDE DEF q
  <2>3. t \in 0 .. n - 1 /\ (q < p => t = q) /\ (~ (q < p) => ~ (t < p) /\ t + 1 = q)
    BY <1>1, <2>1, <2>2
  <2> HIDE DEF t
  <2>4. LeafNum(nt, i, t) = LeafNum(lt, i, q)
    <3>1. CASE q < p
      BY <1>2, <2>3, <3>1
    <3>2. CASE ~ (q < p)
      BY <1>2, <2>3, <3>2
    <3> QED
      BY <3>1, <3>2
  <2>5. z \in Places(new) /\ Num(new, z) = LeafNum(nt, i, t)
    BY <1>2, <1>3, <2>3, PlacesLemma
  <2>6. Num(ms, y) = LeafNum(lt, i, q) /\ SameEntry(y, z)
    BY <1>4, <1>5 DEF SameEntry, q
  <2> QED
    BY <2>4, <2>5, <2>6
<1>6. CASE ~ (y[1] = m /\ y[2] = i)
  <2>1. SameEntry(y, y)
    BY DEF SameEntry
  <2>2. CASE y[1] # m
    <3>1. new[y[1]] = ms[y[1]]
      BY <1>3, <1>4, <2>2
    <3>2. y \in Places(new) /\ Num(new, y) = Num(ms, y)
      BY <1>3, <1>4, <3>1, PlacesLemma
    <3> QED
      BY <2>1, <3>2
  <2>3. CASE y[1] = m
    <3>1. y[2] \in DOMAIN lt.table /\ y[2] # i
      BY <1>4, <1>6, <2>3
    <3>2. /\ Len(Chain(nt, y[2])) = Len(Chain(lt, y[2]))
          /\ \A q \in 0 .. Len(Chain(lt, y[2])) : LeafNum(nt, y[2], q) = LeafNum(lt, y[2], q)
      BY <1>2, <3>1
    <3>3. /\ <<m, y[2], y[3]>> \in Places(new)
          /\ Num(new, <<m, y[2], y[3]>>) = LeafNum(nt, y[2], y[3])
      BY <1>2, <1>3, <1>4, <2>3, <3>1, <3>2, PlacesLemma
    <3>4. y \in Places(new) /\ Num(new, y) = Num(ms, y)
      BY <1>4, <2>3, <3>2, <3>3
    <3> QED
      BY <2>1, <3>4
  <2> QED
    BY <2>2, <2>3
<1> QED
  BY <1>5, <1>6

\* remove_synonym: the key goes, a synonym leaf that it leaves empty is unlinked, and
\* every other key stays in its entry.
LEMMA RemoveShrinks ==
  ASSUME NEW ms, NEW mem, NEW u, Consistent(ms, mem, u), IsFunction(ms),
         NEW m \in DOMAIN ms, NEW k \in Keys,
         NEW a \in Nat, NEW b \in Nat, a <= b, a .. b \subseteq DOMAIN ms[m].table
  PROVE  LET x == Spot(ms, mem, m, k, a, b)
             r == Remove(ms[m], mem, k, a, b)
         IN  /\ Shrunk(ms, mem, Replaced(ms, m, r.lt), r.mem)
             /\ r.ok <=> k \in KeysOf(mem[Num(ms, x)])
             /\ k \notin KeysOf(r.mem[Num(ms, x)])
             /\ \A j, z : j # k => (Stored(r.mem, j, z) <=> Stored(mem, j, z))
<1> DEFINE i == Entry(ms[m], mem, k, a, b)
           p == Place(ms[m], mem, k, i)
           x == Spot(ms, mem, m, k, a, b)
           at == Num(ms, x)
           l == mem[at]
           w == remove(l, k)
           r == Remove(ms[m], mem, k, a, b)
           new == Replaced(ms, m, r.lt)
           Goal == /\ Shrunk(ms, mem, new, r.mem)
                   /\ r.ok <=> k \in KeysOf(mem[Num(ms, x)])
                   /\ k \notin KeysOf(r.mem[Num(ms, x)])
                   /\ \A j, z : j # k => (Stored(r.mem, j, z) <=> Stored(mem, j, z))
<1> SUFFICES Goal
  OBVIOUS
<1>1. /\ x = <<m, i, p>> /\ x \in Places(ms)
      /\ i \in DOMAIN ms[m].table /\ p \in 0 .. Len(Chain(ms[m], i))
      /\ at = LeafNum(ms[m], i, p)
  BY SpotLemma
<1>2. at \in 0 .. Pool - 1 /\ mem \in [0 .. Pool - 1 -> Leaves] /\ l \in Leaves /\ Sorted(l)
  <2> HIDE DEF x
  <2> QED
    BY <1>1, PlaceFacts DEF Consistent
<1>3. /\ r.mem = [mem EXCEPT ![at] = w] /\ r.ok = (At(l, k) # {})
      /\ r.lt = IF isEmpty(w) /\ p # 0 THEN synonym_table_remove(ms[m], i, p) ELSE ms[m]
  <2> HIDE DEF x
  <2> QED
    BY <1>1, <1>2 DEF Remove
<1>4. Sound(ms[m])
  BY DEF Consistent
<1> HIDE DEF x, r, i, p
<1>5. r.mem[at] = w /\ \A q \in 0 .. Pool - 1 : q # at => r.mem[q] = mem[q]
  <2> HIDE DEF w, at
  <2> QED
    BY <1>2, <1>3
<1> HIDE DEF at, l
<1>6. w \in Leaves /\ Sorted(w) /\ Content(w) = {e \in Content(l) : e.key # k}
  BY <1>2, RemoveLemma
<1>7. At(l, k) # {} <=> k \in KeysOf(l)
  BY <1>2, FoundLemma
<1> HIDE DEF w
<1>8. \A j : j \in KeysOf(w) <=> j \in KeysOf(l) /\ j # k
  <2>1. \A j : j \in KeysOf(w) <=> \E e \in Content(w) : e.key = j
    BY <1>6, KeysLemma
  <2>2. \A j : j \in KeysOf(l) <=> \E e \in Content(l) : e.key = j
    BY <1>2, KeysLemma
  <2> QED
    BY <1>6, <2>1, <2>2
<1>9. \A q \in 0 .. Pool - 1 : KeysOf(r.mem[q]) \subseteq KeysOf(mem[q])
  BY <1>5, <1>8 DEF l
<1>10. \A y \in Places(ms) : KeysOf(r.mem[Num(ms, y)]) # {} =>
         \E z \in Places(new) : SameEntry(y, z) /\ Num(new, z) = Num(ms, y)
  <2>1. CASE isEmpty(w) /\ p # 0
    <3>1. r.lt = synonym_table_remove(ms[m], i, p)
      BY <1>3, <2>1
    <3>2. p \in 1 .. Len(Chain(ms[m], i))
      <4>1. Len(Chain(ms[m], i)) \in Nat
        BY <1>1, <1>4, ChainLemma
      <4> QED
        BY <1>1, <2>1, <4>1
    <3>3. KeysOf(r.mem[Num(ms, x)]) = {}
      BY <1>5, <1>6, <2>1, FirstKeyLemma DEF at
    <3> SUFFICES ASSUME NEW y \in Places(ms), KeysOf(r.mem[Num(ms, y)]) # {}
                 PROVE  \E z \in Places(new) : SameEntry(y, z) /\ Num(new, z) = Num(ms, y)
      OBVIOUS
    <3>4. y # <<m, i, p>>
      BY <1>1, <3>3
    <3> QED
      BY <1>1, <1>4, <3>1, <3>2, <3>4, UnlinkKept
  <2>2. CASE ~ (isEmpty(w) /\ p # 0)
    <3>1. new = ms
      BY <1>3, <2>2 DEF IsFunction, Replaced
    <3> HIDE DEF new
    <3> QED
      BY <3>1 DEF SameEntry
  <2> QED
    BY <2>1, <2>2
<1>11. ASSUME NEW h \in DOMAIN ms, NEW j \in DOMAIN ms[h].table
       PROVE  FirstKey(ms, mem, h, j) <= FirstKey(new, r.mem, h, j)
  <2> DEFINE y == <<h, j, 0>>
  <2>1. 0 \in 0 .. Len(Chain(ms[h], j))
    BY LeavesAt
  <2>2. y \in Places(ms)
    BY <2>1, PlacesLemma
  <2>3. Num(ms, y) = ms[h].table[j].leaf_num
    BY DEF Num, LeafNum
  <2> HIDE DEF y
  <2>4. Num(ms, y) \in 0 .. Pool - 1 /\ mem[Num(ms, y)] \in Leaves
    BY <2>2, PlaceFacts
  <2>5. new[h].table[j].leaf_num = ms[h].table[j].leaf_num
    <3>1. CASE h # m
      BY <3>1 DEF Replaced
    <3>2. CASE h = m
      <4>1. new[h] = r.lt
        BY <3>2 DEF Replaced
      <4>2. CASE isEmpty(w) /\ p # 0
        <5>1. r.lt = synonym_table_remove(ms[m], i, p)
          BY <1>3, <4>2
        <5>2. p \in 1 .. Len(Chain(ms[m], i))
          <6>1. Len(Chain(ms[m], i)) \in Nat
            BY <1>1, <1>4, ChainLemma
          <6> QED
            BY <1>1, <4>2, <6>1
        <5>3. \A f \in DOMAIN ms[m].table : r.lt.table[f].leaf_num = ms[m].table[f].leaf_num
          BY <1>1, <1>4, <5>1, <5>2, UnlinkFields
        <5> QED
          BY <3>2, <4>1, <5>3
      <4>3. CASE ~ (isEmpty(w) /\ p # 0)
        BY <1>3, <3>2, <4>1, <4>3
      <4> QED
        BY <4>2, <4>3
    <3> QED
      BY <3>1, <3>2
  <2>6. /\ FirstKey(ms, mem, h, j) = mem[Num(ms, y)][0].key
        /\ FirstKey(new, r.mem, h, j) = r.mem[Num(ms, y)][0].key
    BY <2>3, <2>5 DEF FirstKey
  <2>7. CASE Num(ms, y) # at
    <3>1. mem[Num(ms, y)][0].key \in Int
      BY <2>4, SlotLemma
    <3> QED
      BY <1>5, <2>4, <2>6, <2>7, <3>1
  <2>8. CASE Num(ms, y) = at
    <3>1. l[0].key <= w[0].key
      <4>1. /\ l[0].key \in 0 .. InvalidKey /\ w[0].key \in 0 .. InvalidKey
            /\ InvalidKey \in Nat
        BY <1>2, <1>6, SlotLemma
      <4>2. CASE isEmpty(w)
        BY <4>1, <4>2 DEF isEmpty
      <4>3. CASE ~ isEmpty(w)
        <5>1. w[0].key \in KeysOf(l)
          BY <1>6, <1>8, <4>3, FirstKeyLemma
        <5> QED
          BY <1>2, <5>1, FirstKeyLemma
      <4> QED
        BY <4>2, <4>3
    <3> QED
      BY <1>5, <2>6, <2>8, <3>1 DEF l
  <2> QED
    BY <2>7, <2>8
<1>12. Shrunk(ms, mem, new, r.mem)
  BY <1>9, <1>10, <1>11 DEF Shrunk
<1>13. ASSUME NEW j, NEW z, j # k
       PROVE  Stored(r.mem, j, z) <=> Stored(mem, j, z)
  <2> DEFINE e == [key |-> j, val |-> z]
  <2>1. e.key = j
    OBVIOUS
  <2>2. Stored(r.mem, j, z) <=> \E q \in 0 .. Pool - 1 : e \in Content(r.mem[q])
    BY DEF Stored
  <2>3. Stored(mem, j, z) <=> \E q \in 0 .. Pool - 1 : e \in Content(mem[q])
    BY DEF Stored
  <2> HIDE DEF e
  <2>4. e \in Content(w) <=> e \in Content(l)
    BY <1>6, <1>13, <2>1
  <2>5. \A q \in 0 .. Pool - 1 : e \in Content(r.mem[q]) <=> e \in Content(mem[q])
    BY <1>5, <2>4 DEF l
  <2> QED
    BY <2>2, <2>3, <2>5
<1> QED
  BY <1>3, <1>5, <1>7, <1>8, <1>12, <1>13 DEF at, l

\* An entry whose own leaf is empty hides none of its keys from the walk.
NoneHidden == HidesNone(models, leaves, load)

\* remove: search finds the key no more, and every other key as before, as long as the
\* remove does not empty the own leaf of an entry over a key that the walk reaches from
\* further left.
LEMMA TakeStep ==
  ASSUME N % 2 = 0, DictInv, NEW k \in Loads[load].removes, RemoveKey(k), NoneHidden'
  PROVE  /\ DictInv'
         /\ contents' = [contents EXCEPT ![k] = NoVal]
         /\ \/ reply' = [op |-> "remove", key |-> k, ok |-> FALSE] /\ contents[k] = NoVal
            \/ reply' = [op |-> "remove", key |-> k, ok |-> TRUE] /\ contents[k] # NoVal
<1>0. IndexInv /\ Routed(models, leaves, load) /\ load \in DOMAIN Loads
  BY DEF DictInv, IndexInv
<1>1. Next
  BY DEF Next
<1>2. IndexInv'
  BY <1>0, <1>1, IndexStep
<1>3. k \in Keys
  BY <1>0, LoadLemma
<1> DEFINE m == model_for[k]
           a == window[k].lo
           b == window[k].hi
           i == Entry(models[m], leaves, k, a, b)
           r == Remove(models[m], leaves, k, a, b)
           x == Spot(models, leaves, m, k, a, b)
<1>4. /\ m \in DOMAIN models /\ a \in Nat /\ b \in Nat /\ a <= b
      /\ a .. b \subseteq DOMAIN models[m].table
  BY <1>0, <1>3, WindowFacts
<1>5. TablesOf(models, load) /\ Consistent(models, leaves, used) /\ IsFunction(models)
  BY <1>0, TablesLemma DEF IndexInv
<1>6. /\ models' = Replaced(models, m, r.lt) /\ leaves' = r.mem /\ load' = load
      /\ reply' = [op |-> "remove", key |-> k, ok |-> r.ok]
  BY DEF RemoveKey, Replaced, Answer
<1>7. m = model_index[load][k] /\ i = Owner(models, leaves, load, k)
  BY DEF model_for, window, Owner
<1>8. contents[k] = Search(models[m], leaves, k, a, b)
  BY <1>3 DEF contents, Lookup
<1>9. r.ok \in BOOLEAN
  BY DEF Remove
<1> HIDE DEF m, a, b
<1>10. /\ Shrunk(models, leaves, Replaced(models, m, r.lt), r.mem)
       /\ r.ok <=> k \in KeysOf(leaves[Num(models, x)])
       /\ k \notin KeysOf(r.mem[Num(models, x)])
       /\ \A j, z : j # k => (Stored(r.mem, j, z) <=> Stored(leaves, j, z))
  BY <1>3, <1>4, <1>5, RemoveShrinks
<1>11. x \in Places(models) /\ x[1] = m /\ x[2] = i /\ Takes(models, leaves, x, k)
  <2>1. /\ x = <<m, i, Place(models[m], leaves, k, i)>>
        /\ x \in Places(models) /\ Takes(models, leaves, x, k)
    BY <1>3, <1>4, <1>5, SpotLemma
  <2> QED
    BY <2>1
<1>12. k \in KeysOf(leaves[Num(models, x)]) <=> contents[k] # NoVal
  BY <1>3, <1>4, <1>5, <1>8, MetKey
<1> HIDE DEF r, x, i
<1>13. Routed(models', leaves', load)
  <2>1. TablesOf(models', load) /\ Consistent(models', leaves', used')
    BY <1>2, <1>6 DEF IndexInv, TablesOf, Models, Training
  <2>2. HidesNone(models', leaves', load)
    BY <1>6 DEF NoneHidden
  <2>3. Shrunk(models, leaves, models', leaves')
    BY <1>6, <1>10
  <2> QED
    BY <1>0, <1>5, <2>1, <2>2, <2>3, ShrunkRouted
<1>14. DictInv'
  BY <1>2, <1>6, <1>13 DEF DictInv
<1>15. contents' = [contents EXCEPT ![k] = contents'[k]]
  BY <1>3, <1>6, <1>10, <1>14, OthersKept
<1>16. \A q \in 0 .. Pool - 1 : k \notin KeysOf(leaves'[q])
  <2> SUFFICES ASSUME NEW q \in 0 .. Pool - 1, k \in KeysOf(leaves'[q])
               PROVE  FALSE
    OBVIOUS
  <2>1. k \in KeysOf(leaves[q])
    BY <1>6, <1>10 DEF Shrunk
  <2>2. PICK y \in Places(models) : y[1] = m /\ y[2] = i /\ Num(models, y) = q
    BY <1>0, <1>7, <2>1 DEF Routed
  <2>3. SameEntry(x, y)
    BY <1>11, <2>2 DEF SameEntry
  <2>4. ~ (k < k)
    BY <1>3 DEF Keys
  <2>5. ~ (y[3] < x[3]) /\ ~ (x[3] < y[3])
    BY <1>11, <2>1, <2>2, <2>3, <2>4 DEF Takes
  <2>6. /\ x = <<x[1], x[2], x[3]>> /\ y = <<y[1], y[2], y[3]>>
        /\ x[3] \in Nat /\ y[3] \in Nat
    BY <1>5, <1>11, <2>2, PlaceFacts
  <2>7. x = y
    BY <1>11, <2>2, <2>5, <2>6
  <2> QED
    BY <1>6, <1>10, <2>2, <2>7
<1>17. contents'[k] = NoVal
  <2>1. /\ TablesOf(models', load) /\ Consistent(models', leaves', used')
        /\ Routed(models', leaves', load)
    BY <1>6, <1>14, TablesAfter
  <2>2. \A w : ~ Stored(leaves', k, w)
    <3> SUFFICES ASSUME NEW w, Stored(leaves', k, w) PROVE FALSE
      OBVIOUS
    <3>1. PICK q \in 0 .. Pool - 1 : [key |-> k, val |-> w] \in Content(leaves'[q])
      BY DEF Stored
    <3>2. leaves'[q] \in Leaves
      BY <2>1 DEF Consistent
    <3>3. k \in KeysOf(leaves'[q])
      BY <3>1, <3>2, ContentLemma
    <3> QED
      BY <1>16, <3>3
  <2>3. Found(models', leaves', load, k) = NoVal
    BY <1>3, <2>1, <2>2, FoundStored
  <2> QED
    BY <1>3, <1>6, <2>3, ContentsFound
<1> QED
  BY <1>6, <1>9, <1>10, <1>12, <1>14, <1>15, <1>17

\* fetch_new_leaf's ASSERT, and a step of nobody: what search finds stays.
LEMMA IdleStep ==
  ASSUME DictInv, load' = load, models' = models, leaves' = leaves, IndexInv'
  PROVE  DictInv' /\ contents' = contents
<1>1. contents' = contents
  BY ContentsFound
<1> QED
  BY <1>1 DEF DictInv

\* A step leaves every key where search goes, and is a step of the dictionary.
LEMMA DictStep ==
  ASSUME N % 2 = 0, DictInv, [Next]_vars, NoneHidden' \/ NoRemoves
  PROVE  DictInv' /\ [Map!Next]_<<contents, reply>>
<1>1. IndexInv /\ load \in DOMAIN Loads
  BY DEF DictInv, IndexInv
<1>2. /\ Loads[load].writes \subseteq Keys /\ Loads[load].removes \subseteq Keys
      /\ Loads[load].values \subseteq Vals
  BY <1>1, LoadLemma
<1>3. IndexInv'
  BY <1>1, IndexStep
<1>4. ASSUME NEW k \in Loads[load].writes, NEW v \in Loads[load].values, PutKey(k, v)
      PROVE  DictInv' /\ Map!Next
  <2>1. /\ DictInv'
        /\ \/ reply' = [op |-> "insert", key |-> k, ok |-> FALSE] /\ contents' = contents
           \/ /\ reply' = [op |-> "insert", key |-> k, ok |-> TRUE]
              /\ contents[k] = NoVal /\ contents' = [contents EXCEPT ![k] = v]
    BY <1>4, PutStep
  <2>2. Map!InsertRefused(k) \/ Map!Insert(k, v)
    BY <2>1 DEF Map!InsertRefused, Map!Insert, Map!Answer
  <2> QED
    BY <1>2, <2>1, <2>2 DEF Map!Next
<1>5. ASSUME NEW k \in Loads[load].writes, NEW v \in Loads[load].values, UpdateKey(k, v)
      PROVE  DictInv' /\ Map!Next
  <2>1. /\ DictInv'
        /\ \/ /\ reply' = [op |-> "update", key |-> k, ok |-> FALSE]
              /\ contents[k] = NoVal /\ contents' = contents
           \/ /\ reply' = [op |-> "update", key |-> k, ok |-> TRUE]
              /\ contents[k] # NoVal /\ contents' = [contents EXCEPT ![k] = v]
    BY <1>5, RewriteStep
  <2>2. Map!UpdateMissing(k) \/ Map!Update(k, v)
    BY <2>1 DEF Map!UpdateMissing, Map!Update, Map!Answer
  <2> QED
    BY <1>2, <2>1, <2>2 DEF Map!Next
<1>6. ASSUME NEW k \in Loads[load].removes, RemoveKey(k)
      PROVE  DictInv' /\ Map!Next
  <2>1. NoneHidden'
    BY <1>1, <1>6 DEF NoRemoves
  <2>2. DictInv' /\ contents' = [contents EXCEPT ![k] = NoVal]
    BY <1>6, <2>1, TakeStep
  <2>3. \/ reply' = [op |-> "remove", key |-> k, ok |-> FALSE] /\ contents[k] = NoVal
        \/ reply' = [op |-> "remove", key |-> k, ok |-> TRUE] /\ contents[k] # NoVal
    BY <1>6, <2>1, TakeStep
  <2>4. contents[k] = NoVal => contents' = contents
    BY <2>2, ContentsFound
  <2>5. Map!RemoveMissing(k) \/ Map!Remove(k)
    BY <2>2, <2>3, <2>4 DEF Map!RemoveMissing, Map!Remove, Map!Answer
  <2> QED
    BY <1>2, <2>2, <2>5 DEF Map!Next
<1>7. ASSUME NEW k \in Loads[load].writes, PutAborts(k)
      PROVE  DictInv' /\ UNCHANGED <<contents, reply>>
  BY <1>3, <1>7, IdleStep DEF PutAborts
<1>8. CASE UNCHANGED vars
  <2>1. DictInv' /\ UNCHANGED <<contents, reply>>
    BY <1>3, <1>8, IdleStep DEF vars
  <2> QED
    BY <2>1
<1> QED
  BY <1>4, <1>5, <1>6, <1>7, <1>8 DEF Next

\* train(): the dictionary that the node starts with
LEMMA DictInit == Init => DictInv /\ Map!Init
<1> SUFFICES ASSUME Init PROVE DictInv /\ Map!Init
  OBVIOUS
<1>1. DictInv
  BY InitLemma, InitRouted DEF DictInv
<1>2. contents \in [Keys -> Vals \cup {NoVal}]
  <2>1. \A k \in Keys : contents[k] \in Vals \cup {NoVal}
    BY <1>1, ContentsStored
  <2> QED
    BY <2>1, ContentsFound
<1>3. reply = [op |-> "none"]
  BY DEF Init
<1> QED
  BY <1>1, <1>2, <1>3 DEF Map!Init

\* A key in a leaf of the place that search goes to is found with its value.
LEMMA DictFinds ==
  ASSUME DictInv
  PROVE  NoKeyStranded
<1>1. Consistent(models, leaves, used)
  BY DEF DictInv, IndexInv
<1> SUFFICES ASSUME NEW n \in 0 .. Pool - 1, NEW k \in KeysOf(leaves[n])
             PROVE  Lookup(k) = leaves[n][Least(At(leaves[n], k))].val
  BY DEF NoKeyStranded
<1> DEFINE l == leaves[n]
           e == l[Least(At(l, k))]
<1>2. l \in Leaves /\ Sorted(l)
  BY <1>1 DEF Consistent
<1> HIDE DEF l
<1>3. k \in Keys /\ k \in KeysOf(l)
  BY <1>2, KeysLemma DEF l
<1>4. e \in Content(l) /\ e.key = k
  <2>1. Least(At(l, k)) \in Slots /\ l[Least(At(l, k))].key = k
    BY <1>2, <1>3, FoundLemma
  <2>2. k # InvalidKey
    BY <1>3 DEF KeysOf
  <2> QED
    BY <1>2, <2>1, <2>2, SlotLemma
<1> HIDE DEF e
<1>5. [key |-> k, val |-> e.val] \in Content(l)
  BY <1>2, <1>4, ContentLemma
<1>6. Stored(leaves, k, e.val)
  BY <1>5 DEF Stored, l
<1>7. contents[k] = e.val
  BY <1>3, <1>6, ContentsStored
<1> QED
  BY <1>3, <1>7 DEF contents, e, l

\* insertHere's "fixme: what if the leaf is empty?": search loses a key in this way
\* only. In every execution in which no entry with an empty leaf of its own hides a
\* key, every key in a leaf is found with its value, whatever was inserted, updated and
\* removed: no split, no new first key of a leaf and no unlinked leaf strands a key.
THEOREM FoundUnlessHidden ==
  ASSUME N % 2 = 0
  PROVE  Spec /\ []NoneHidden => []NoKeyStranded
<1>1. DictInv /\ [Next]_vars /\ NoneHidden' => DictInv'
  BY DictStep
<1> QED
  BY DictInit, <1>1, DictFinds, PTL DEF Spec

\* In the same executions the index implements the dictionary KVMap: an insert answers
\* true only for a key that search did not find, an update and a remove answer true for
\* the keys that it found, and a write changes what search finds for its own key only.
THEOREM MapUnlessHidden ==
  ASSUME N % 2 = 0
  PROVE  Spec /\ []NoneHidden => MapSpec
<1>1. DictInv /\ [Next]_vars /\ NoneHidden' => DictInv' /\ [Map!Next]_<<contents, reply>>
  BY DictStep
<1> QED
  BY DictInit, <1>1, PTL DEF Spec, MapSpec, Map!Spec

\* insert_synonym and update_synonym, together with the walks of search: as long as the
\* clients remove nothing, every key in a leaf is found with its value.
THEOREM EveryKeyIsFound ==
  ASSUME N % 2 = 0, NoRemoves
  PROVE  Spec => []NoKeyStranded
<1>1. DictInv /\ [Next]_vars => DictInv'
  BY DictStep
<1> QED
  BY DictInit, <1>1, DictFinds, PTL DEF Spec

\* rolex_put_callback, the workers and search: as long as the clients remove nothing,
\* the index implements the dictionary KVMap.
THEOREM ImplementsMap ==
  ASSUME N % 2 = 0, NoRemoves
  PROVE  Spec => MapSpec
<1>1. DictInv /\ [Next]_vars => DictInv' /\ [Map!Next]_<<contents, reply>>
  BY DictStep
<1> QED
  BY DictInit, <1>1, PTL DEF Spec, MapSpec, Map!Spec
-----------------------------------------------------------------------------
\* ks is the keys of T in their order.
Enum(ks, n, T) ==
  /\ n \in Nat /\ ks \in [1 .. n -> Nat]
  /\ \A i, j \in 1 .. n : i < j => ks[i] < ks[j]
  /\ \A k : k \in T <=> \E i \in 1 .. n : ks[i] = k

\* s is the values that c gives the keys of T, in the order of the keys.
Lists(c, s, T) ==
  /\ T \subseteq Nat /\ \A k \in T : c[k] \in Vals
  /\ \E n, ks : Enum(ks, n, T) /\ s = [i \in 1 .. n |-> c[ks[i]]]

LEMMA EnumBefore ==
  ASSUME NEW T, NEW ks, NEW n, Enum(ks, n, T), NEW ls, NEW m, Enum(ls, m, T),
         NEW i \in 1 .. n, i \in 1 .. m, \A j \in 1 .. i - 1 : ks[j] = ls[j]
  PROVE  ~ (ks[i] < ls[i])
<1> SUFFICES ASSUME ks[i] < ls[i] PROVE FALSE
  OBVIOUS
<1>1. n \in Nat /\ m \in Nat /\ i \in Nat
  BY DEF Enum
<1>2. ks[i] \in T
  BY DEF Enum
<1>3. PICK j \in 1 .. m : ls[j] = ks[i]
  BY <1>2 DEF Enum
<1>4. /\ \A x \in 1 .. n : ks[x] \in Nat
      /\ \A x \in 1 .. m : ls[x] \in Nat
      /\ \A x, y \in 1 .. n : x < y => ks[x] < ks[y]
      /\ \A x, y \in 1 .. m : x < y => ls[x] < ls[y]
  BY DEF Enum
<1>5. j < i
  <2>1. CASE i < j
    BY <1>1, <1>3, <1>4, <2>1
  <2>2. CASE i = j
    BY <1>1, <1>3, <1>4, <2>2
  <2> QED
    BY <1>1, <1>3, <2>1, <2>2
<1>6. ks[j] = ls[j] /\ j \in 1 .. n
  BY <1>1, <1>3, <1>5
<1> QED
  BY <1>1, <1>3, <1>4, <1>5, <1>6

\* A set has one enumeration.
LEMMA EnumUnique ==
  ASSUME NEW T, NEW ks, NEW n, Enum(ks, n, T), NEW ls, NEW m, Enum(ls, m, T)
  PROVE  n = m /\ ks = ls
<1>1. n \in Nat /\ m \in Nat
  BY DEF Enum
<1>2. /\ ks \in [1 .. n -> Nat] /\ ls \in [1 .. m -> Nat]
      /\ \A x \in 1 .. n : ks[x] \in Nat
      /\ \A x \in 1 .. m : ls[x] \in Nat
      /\ \A x, y \in 1 .. n : x < y => ks[x] < ks[y]
      /\ \A x, y \in 1 .. m : x < y => ls[x] < ls[y]
      /\ \A x \in 1 .. n : \E y \in 1 .. m : ls[y] = ks[x]
      /\ \A y \in 1 .. m : \E x \in 1 .. n : ks[x] = ls[y]
  BY DEF Enum
<1> DEFINE Bad == {i \in Nat : i \in 1 .. n /\ i \in 1 .. m /\ ks[i] # ls[i]}
<1>3. ASSUME Bad # {} PROVE FALSE
  <2>1. Bad \in SUBSET Nat
    OBVIOUS
  <2> HIDE DEF Bad
  <2>2. PICK i \in Bad : \A x \in Bad : i <= x
    BY <1>3, <2>1, LeastNumber
  <2>3. i \in Nat /\ i \in 1 .. n /\ i \in 1 .. m /\ ks[i] # ls[i]
    BY <2>2 DEF Bad
  <2>4. ASSUME NEW j \in 1 .. i - 1 PROVE ks[j] = ls[j]
    <3>1. j \in Nat /\ j \in 1 .. n /\ j \in 1 .. m /\ ~ (i <= j)
      BY <1>1, <2>3
    <3>2. j \notin Bad
      BY <2>2, <3>1
    <3> QED
      BY <3>1, <3>2 DEF Bad
  <2>5. \A j \in 1 .. i - 1 : ls[j] = ks[j]
    BY <2>4
  <2>6. ~ (ks[i] < ls[i])
    BY <2>3, <2>4, EnumBefore
  <2>7. ~ (ls[i] < ks[i])
    BY <2>3, <2>5, EnumBefore
  <2>8. ks[i] \in Nat /\ ls[i] \in Nat
    BY <1>2, <2>3
  <2> QED
    BY <2>3, <2>6, <2>7, <2>8
<1>4. \A i \in 1 .. n : i \in 1 .. m => ks[i] = ls[i]
  BY <1>1, <1>3
<1> HIDE DEF Bad
<1>5. ~ (n < m)
  <2> SUFFICES ASSUME n < m PROVE FALSE
    OBVIOUS
  <2>1. n + 1 \in 1 .. m
    BY <1>1
  <2>2. PICK x \in 1 .. n : ks[x] = ls[n + 1]
    BY <1>2, <2>1
  <2>3. x \in 1 .. m /\ x < n + 1
    BY <1>1, <2>2
  <2> QED
    BY <1>2, <1>4, <2>1, <2>2, <2>3
<1>6. ~ (m < n)
  <2> SUFFICES ASSUME m < n PROVE FALSE
    OBVIOUS
  <2>1. m + 1 \in 1 .. n
    BY <1>1
  <2>2. PICK x \in 1 .. m : ls[x] = ks[m + 1]
    BY <1>2, <2>1
  <2>3. x \in 1 .. n /\ x < m + 1
    BY <1>1, <2>2
  <2> QED
    BY <1>2, <1>4, <2>1, <2>2, <2>3
<1>7. n = m
  BY <1>1, <1>5, <1>6
<1>8. ks = [i \in 1 .. n |-> ks[i]] /\ ls = [i \in 1 .. m |-> ls[i]]
  BY <1>2
<1>9. \A i \in 1 .. n : ks[i] = ls[i]
  BY <1>4, <1>7
<1>10. ls = [i \in 1 .. n |-> ls[i]]
  BY <1>7, <1>8
<1>11. [i \in 1 .. n |-> ks[i]] = [i \in 1 .. n |-> ls[i]]
  BY <1>9
<1> QED
  BY <1>7, <1>8, <1>10, <1>11

LEMMA ListsUnique ==
  ASSUME NEW c, NEW T, NEW s, Lists(c, s, T), NEW t, Lists(c, t, T)
  PROVE  s = t
<1>1. PICK n, ks : Enum(ks, n, T) /\ s = [i \in 1 .. n |-> c[ks[i]]]
  BY DEF Lists
<1>2. PICK m, ls : Enum(ls, m, T) /\ t = [i \in 1 .. m |-> c[ls[i]]]
  BY DEF Lists
<1>3. n = m /\ ks = ls
  BY <1>1, <1>2, EnumUnique
<1> QED
  BY <1>1, <1>2, <1>3

LEMMA ListsNone == ASSUME NEW c PROVE Lists(c, <<>>, {})
<1> DEFINE ks == [i \in 1 .. 0 |-> 0]
<1>1. 1 .. 0 = {}
  OBVIOUS
<1>2. Enum(ks, 0, {})
  BY <1>1 DEF Enum
<1>3. <<>> = [i \in 1 .. 0 |-> c[ks[i]]]
  BY <1>1
<1> QED
  BY <1>2, <1>3 DEF Lists

LEMMA ListsOne ==
  ASSUME NEW c, NEW k \in Nat, c[k] \in Vals
  PROVE  Lists(c, <<c[k]>>, {k})
<1> DEFINE ks == [i \in 1 .. 1 |-> k]
<1>1. \A i : i \in 1 .. 1 <=> i = 1
  OBVIOUS
<1>2. Enum(ks, 1, {k})
  BY <1>1 DEF Enum
<1>3. <<c[k]>> = [i \in 1 .. 1 |-> c[ks[i]]]
  BY <1>1
<1> QED
  BY <1>2, <1>3 DEF Lists

LEMMA ConcatFact ==
  ASSUME NEW S, NEW s \in Seq(S), NEW t \in Seq(S)
  PROVE  /\ s \o t \in Seq(S) /\ Len(s \o t) = Len(s) + Len(t)
         /\ Len(s) \in Nat /\ Len(t) \in Nat
         /\ \A i \in 1 .. Len(s) : (s \o t)[i] = s[i]
         /\ \A i \in 1 .. Len(t) : (s \o t)[Len(s) + i] = t[i]
OBVIOUS

LEMMA ListsJoined ==
  ASSUME NEW c, NEW s, NEW S, Lists(c, s, S), NEW t, NEW T, Lists(c, t, T),
         \A j \in S, k \in T : j < k
  PROVE  Lists(c, s \o t, S \cup T)
<1>1. PICK n, ks : Enum(ks, n, S) /\ s = [i \in 1 .. n |-> c[ks[i]]]
  BY DEF Lists
<1>2. PICK m, ls : Enum(ls, m, T) /\ t = [i \in 1 .. m |-> c[ls[i]]]
  BY DEF Lists
<1>3. n \in Nat /\ m \in Nat
  BY <1>1, <1>2 DEF Enum
<1>4. /\ \A i \in 1 .. n : ks[i] \in S /\ ks[i] \in Nat /\ c[ks[i]] \in Vals
      /\ \A i \in 1 .. m : ls[i] \in T /\ ls[i] \in Nat /\ c[ls[i]] \in Vals
      /\ \A i, j \in 1 .. n : i < j => ks[i] < ks[j]
      /\ \A i, j \in 1 .. m : i < j => ls[i] < ls[j]
      /\ \A k \in S : \E i \in 1 .. n : ks[i] = k
      /\ \A k \in T : \E i \in 1 .. m : ls[i] = k
  BY <1>1, <1>2 DEF Enum, Lists
<1>5. /\ s \in Seq(Vals) /\ Len(s) = n /\ t \in Seq(Vals) /\ Len(t) = m
      /\ \A i \in 1 .. n : s[i] = c[ks[i]]
      /\ \A i \in 1 .. m : t[i] = c[ls[i]]
  BY <1>1, <1>2, <1>3, <1>4
<1> DEFINE us == [i \in 1 .. n + m |-> IF i <= n THEN ks[i] ELSE ls[i - n]]
           r == s \o t
<1>6. /\ r \in Seq(Vals) /\ Len(r) = n + m
      /\ \A i \in 1 .. n : r[i] = c[ks[i]]
      /\ \A i \in 1 .. m : r[n + i] = c[ls[i]]
  <2>1. s \in Seq(Vals) /\ t \in Seq(Vals)
    BY <1>5
  <2>2. /\ s \o t \in Seq(Vals) /\ Len(s \o t) = Len(s) + Len(t)
        /\ \A i \in 1 .. Len(s) : (s \o t)[i] = s[i]
        /\ \A i \in 1 .. Len(t) : (s \o t)[Len(s) + i] = t[i]
    BY <2>1, ConcatFact
  <2> QED
    BY <1>5, <2>2
<1>7. /\ \A i \in 1 .. n : i \in 1 .. n + m /\ us[i] = ks[i]
      /\ \A i \in 1 .. m : n + i \in 1 .. n + m /\ us[n + i] = ls[i]
  <2>1. ASSUME NEW i \in 1 .. n PROVE i \in 1 .. n + m /\ us[i] = ks[i]
    BY <1>3
  <2>2. ASSUME NEW i \in 1 .. m PROVE n + i \in 1 .. n + m /\ us[n + i] = ls[i]
    <3>1. n + i \in 1 .. n + m /\ ~ (n + i <= n) /\ (n + i) - n = i
      BY <1>3
    <3> QED
      BY <3>1
  <2> QED
    BY <2>1, <2>2
<1>8. DOMAIN us = 1 .. n + m /\ n + m \in Nat
  BY <1>3
<1> HIDE DEF us, r
<1>9. ASSUME NEW i \in 1 .. n + m
      PROVE  i \in 1 .. n \/ \E j \in 1 .. m : i = n + j
  <2>1. CASE i <= n
    BY <1>3, <2>1
  <2>2. CASE ~ (i <= n)
    <3> DEFINE j == i - n
    <3>1. j \in 1 .. m /\ i = n + j
      BY <1>3, <2>2
    <3> QED
      BY <3>1
  <2> QED
    BY <2>1, <2>2
<1>10. ASSUME NEW i \in 1 .. n + m
       PROVE  us[i] \in Nat /\ r[i] = c[us[i]] /\ us[i] \in S \cup T
  BY <1>4, <1>6, <1>7, <1>9
<1>11. ASSUME NEW i \in 1 .. n + m, NEW j \in 1 .. n + m, i < j PROVE us[i] < us[j]
  <2>1. CASE i \in 1 .. n /\ j \in 1 .. n
    BY <1>4, <1>7, <1>11, <2>1
  <2>2. CASE i \in 1 .. n /\ j \notin 1 .. n
    BY <1>4, <1>7, <1>9, <2>2
  <2>3. CASE i \notin 1 .. n
    <3>1. j \notin 1 .. n
      BY <1>3, <1>11, <2>3
    <3>2. PICK x \in 1 .. m : i = n + x
      BY <1>9, <2>3
    <3>3. PICK y \in 1 .. m : j = n + y
      BY <1>9, <3>1
    <3>4. x < y
      BY <1>3, <1>11, <3>2, <3>3
    <3> QED
      BY <1>4, <1>7, <3>2, <3>3, <3>4
  <2> QED
    BY <2>1, <2>2, <2>3
<1>12. \A k : k \in S \cup T <=> \E i \in 1 .. n + m : us[i] = k
  BY <1>4, <1>7, <1>10
<1>13. us \in [1 .. n + m -> Nat]
  <2>1. us = [i \in 1 .. n + m |-> us[i]]
    BY <1>8 DEF us
  <2> QED
    BY <1>10, <2>1
<1>14. Enum(us, n + m, S \cup T)
  BY <1>8, <1>11, <1>12, <1>13 DEF Enum
<1>15. r = [i \in 1 .. n + m |-> c[us[i]]]
  <2>1. r = [i \in 1 .. n + m |-> r[i]]
    BY <1>6
  <2> QED
    BY <1>10, <2>1
<1>16. S \cup T \subseteq Nat /\ \A k \in S \cup T : c[k] \in Vals
  BY DEF Lists
<1>17. Lists(c, r, S \cup T)
  BY <1>14, <1>15, <1>16 DEF Lists
<1> QED
  BY <1>17 DEF r

\* f[i] is what g has from i on, put together.
Summed(f, g, Z, a, b) ==
  f = [i \in a .. b |-> IF i = b \/ i \in Z THEN <<>> ELSE g[i] \o f[i + 1]]

LEMMA SumExists ==
  ASSUME NEW a \in Int, NEW b \in Int, a <= b, NEW g, NEW Z
  PROVE  \E f : Summed(f, g, Z, a, b)
<1> DEFINE Bad == {n \in Nat : n <= b - a /\ ~ \E f : Summed(f, g, Z, b - n, b)}
<1>1. ASSUME Bad # {} PROVE FALSE
  <2>1. Bad \in SUBSET Nat
    OBVIOUS
  <2> HIDE DEF Bad
  <2>2. PICK n \in Bad : \A x \in Bad : n <= x
    BY <1>1, <2>1, LeastNumber
  <2>3. n \in Nat /\ n <= b - a /\ ~ \E f : Summed(f, g, Z, b - n, b)
    BY <2>2 DEF Bad
  <2>4. n # 0
    <3> DEFINE f == [i \in b .. b |-> <<>>]
    <3>1. b - 0 = b /\ \A i : i \in b .. b <=> i = b
      OBVIOUS
    <3>2. f = [i \in b .. b |-> IF i = b \/ i \in Z THEN <<>> ELSE g[i] \o f[i + 1]]
      BY <3>1
    <3> HIDE DEF f
    <3>3. Summed(f, g, Z, b, b)
      BY <3>2 DEF Summed
    <3> QED
      BY <2>3, <3>1, <3>3
  <2> DEFINE l == b - n
             h == l + 1
  <2>5. /\ n - 1 \in Nat /\ n - 1 <= b - a /\ ~ (n <= n - 1) /\ b - (n - 1) = h
        /\ l \in Int /\ l < b /\ h \in Int
    BY <2>3, <2>4
  <2>6. n - 1 \notin Bad
    BY <2>2, <2>5
  <2>7. PICK f : Summed(f, g, Z, h, b)
    BY <2>5, <2>6 DEF Bad
  <2> HIDE DEF h
  <2> DEFINE F(e, i) == IF i = b \/ i \in Z THEN <<>> ELSE g[i] \o e[i + 1]
             e == [i \in l .. b |-> IF i = l THEN F(f, l) ELSE f[i]]
  <2>8. \A i \in h .. b : f[i] = F(f, i)
    BY <2>7 DEF Summed
  <2>9. ASSUME NEW i \in l .. b
        PROVE  (IF i = l THEN F(f, l) ELSE f[i]) = F(e, i)
    <3>1. CASE i = b
      <4>1. i # l /\ i \in h .. b
        BY <2>5, <3>1 DEF h
      <4> QED
        BY <2>8, <3>1, <4>1
    <3>2. CASE i # b
      <4>1. i + 1 \in l .. b /\ i + 1 # l
        BY <2>5, <3>2
      <4>2. e[i + 1] = f[i + 1]
        BY <4>1
      <4>3. F(e, i) = F(f, i)
        BY <4>2
      <4>4. CASE i = l
        BY <4>3, <4>4
      <4>5. CASE i # l
        <5>1. i \in h .. b
          BY <2>5, <4>5 DEF h
        <5> QED
          BY <2>8, <4>3, <4>5, <5>1
      <4> QED
        BY <4>4, <4>5
    <3> QED
      BY <3>1, <3>2
  <2> HIDE DEF F
  <2>10. e = [i \in l .. b |-> F(e, i)]
    BY <2>9
  <2> HIDE DEF e
  <2>11. Summed(e, g, Z, l, b)
    BY <2>10 DEF Summed, F
  <2> QED
    BY <2>3, <2>11
<1>2. b - a \in Nat /\ b - (b - a) = a
  OBVIOUS
<1>3. b - a \notin Bad
  BY <1>1
<1> HIDE DEF Bad
<1>4. \E f : Summed(f, g, Z, b - (b - a), b)
  BY <1>2, <1>3 DEF Bad
<1> QED
  BY <1>2, <1>4

\* f puts lists together, of sets that lie one above the other.
Stepped(c, f, g, S, a, b) ==
  /\ f[b] = <<>>
  /\ \A i \in a .. b - 1 : f[i] = g[i] \o f[i + 1] /\ Lists(c, g[i], S[i])
  /\ \A i, j \in a .. b - 1 : i < j => \A x \in S[i], y \in S[j] : x < y

Joint(S, a, b) == {k \in Nat : \E i \in a .. b - 1 : k \in S[i]}

LEMMA ListsSummed ==
  ASSUME NEW a \in Int, NEW b \in Int, a <= b, NEW c, NEW f, NEW g, NEW S,
         Stepped(c, f, g, S, a, b)
  PROVE  Lists(c, f[a], Joint(S, a, b))
<1>0. /\ f[b] = <<>>
      /\ \A i \in a .. b - 1 : f[i] = g[i] \o f[i + 1] /\ Lists(c, g[i], S[i])
      /\ \A i, j \in a .. b - 1 : i < j => \A x \in S[i], y \in S[j] : x < y
  BY DEF Stepped
<1> DEFINE U(x) == {k \in Nat : \E i \in x .. b - 1 : k \in S[i]}
           Bad == {n \in Nat : n <= b - a /\ ~ Lists(c, f[b - n], U(b - n))}
<1>1. ASSUME Bad # {} PROVE FALSE
  <2>1. Bad \in SUBSET Nat
    OBVIOUS
  <2> HIDE DEF Bad
  <2>2. PICK n \in Bad : \A x \in Bad : n <= x
    BY <1>1, <2>1, LeastNumber
  <2>3. n \in Nat /\ n <= b - a /\ ~ Lists(c, f[b - n], U(b - n))
    BY <2>2 DEF Bad
  <2>4. n # 0
    <3>1. b - 0 = b /\ b .. b - 1 = {}
      OBVIOUS
    <3>2. U(b) = {}
      BY <3>1
    <3> HIDE DEF U
    <3> QED
      BY <1>0, <2>3, <3>1, <3>2, ListsNone
  <2> DEFINE l == b - n
             h == l + 1
  <2>5. /\ n - 1 \in Nat /\ n - 1 <= b - a /\ ~ (n <= n - 1) /\ b - (n - 1) = h
        /\ l \in Int /\ l < b /\ h \in Int /\ l \in a .. b - 1 /\ a <= l
    BY <2>3, <2>4
  <2>6. n - 1 \notin Bad
    BY <2>2, <2>5
  <2>7. Lists(c, f[h], U(h))
    <3> HIDE DEF U, h
    <3> QED
      BY <2>5, <2>6 DEF Bad
  <2>8. f[l] = g[l] \o f[h] /\ Lists(c, g[l], S[l])
    BY <1>0, <2>5
  <2> HIDE DEF U
  <2>8a. h = l + 1
    OBVIOUS
  <2> HIDE DEF l, h
  <2>9. ASSUME NEW i \in l .. b - 1 PROVE i \in a .. b - 1 /\ (i = l \/ (i \in h .. b - 1 /\ l < i))
    BY <2>5, <2>8a
  <2>10. ASSUME NEW i \in h .. b - 1 PROVE i \in a .. b - 1 /\ i \in l .. b - 1 /\ l < i
    BY <2>5, <2>8a
  <2>11. l \in l .. b - 1
    BY <2>5
  <2>12. \A x \in S[l], y \in U(h) : x < y
    BY <1>0, <2>5, <2>10 DEF U
  <2>13. S[l] \subseteq Nat
    BY <2>8 DEF Lists
  <2>14. S[l] \cup U(h) = U(l)
    BY <2>9, <2>10, <2>11, <2>13 DEF U
  <2>15. Lists(c, g[l] \o f[h], S[l] \cup U(h))
    BY <2>7, <2>8, <2>12, ListsJoined
  <2> QED
    BY <2>3, <2>8, <2>14, <2>15 DEF l
<1>2. b - a \in Nat /\ b - (b - a) = a
  OBVIOUS
<1>3. b - a \notin Bad
  BY <1>1
<1> HIDE DEF U
<1>4. Lists(c, f[b - (b - a)], U(b - (b - a)))
  BY <1>2, <1>3 DEF Bad
<1>5. Lists(c, f[a], U(a))
  BY <1>2, <1>4
<1> QED
  BY <1>5 DEF U, Joint

\* The loop of range(): what it has from slot i on
LeafFrom(l, k) ==
  CHOOSE from : from = [i \in 0 .. N |->
    IF i = N \/ l[i].key = InvalidKey THEN <<>>
    ELSE (IF l[i].key >= k THEN <<l[i].val>> ELSE <<>>) \o from[i + 1]]

LEMMA LeafFromFacts ==
  ASSUME NEW l, NEW k
  PROVE  /\ range(l, k) = LeafFrom(l, k)[0]
         /\ \A i \in 0 .. N : LeafFrom(l, k)[i] =
              IF i = N \/ l[i].key = InvalidKey THEN <<>>
              ELSE (IF l[i].key >= k THEN <<l[i].val>> ELSE <<>>) \o LeafFrom(l, k)[i + 1]
<1> DEFINE g == [i \in 0 .. N |-> IF l[i].key >= k THEN <<l[i].val>> ELSE <<>>]
           Z == {i \in 0 .. N : l[i].key = InvalidKey}
           B(f) == [i \in 0 .. N |->
                      IF i = N \/ l[i].key = InvalidKey THEN <<>>
                      ELSE (IF l[i].key >= k THEN <<l[i].val>> ELSE <<>>) \o f[i + 1]]
           h == LeafFrom(l, k)
<1>1. 0 \in Int /\ N \in Int /\ 0 <= N
  BY LeafAssumption
<1>2. PICK f : Summed(f, g, Z, 0, N)
  <2> HIDE DEF g, Z
  <2> QED
    BY <1>1, SumExists
<1>3. f = B(f)
  <2>1. \A i \in 0 .. N : /\ g[i] = IF l[i].key >= k THEN <<l[i].val>> ELSE <<>>
                          /\ i \in Z <=> l[i].key = InvalidKey
    OBVIOUS
  <2> HIDE DEF g, Z
  <2> QED
    BY <1>2, <2>1 DEF Summed
<1>4. h = B(h)
  BY <1>3 DEF LeafFrom
<1>5. range(l, k) = h[0]
  BY DEF range, LeafFrom
<1> HIDE DEF h
<1> QED
  BY <1>4, <1>5 DEF h

\* range() of a sorted leaf
LEMMA LeafLists ==
  ASSUME NEW l \in Leaves, Sorted(l), NEW k \in Nat, NEW c,
         \A i \in Slots : l[i].key # InvalidKey => c[l[i].key] = l[i].val
  PROVE  Lists(c, range(l, k), {j \in KeysOf(l) : j >= k})
<1> DEFINE f == LeafFrom(l, k)
           In(i) == l[i].key # InvalidKey /\ l[i].key >= k
           g == [i \in Slots |-> IF In(i) THEN <<c[l[i].key]>> ELSE <<>>]
           S == [i \in Slots |-> IF In(i) THEN {l[i].key} ELSE {}]
<1>1. N \in Nat /\ N > 1 /\ InvalidKey \in Nat /\ Slots = 0 .. N - 1
  BY LeafAssumption DEF Slots
<1>2. \A i \in Slots : /\ l[i].key \in Nat
                       /\ l[i].key # InvalidKey => l[i].val \in Vals
                       /\ l[i] = Empty => l[i].key = InvalidKey
  BY <1>1 DEF Leaves, Entries, Empty, Keys
<1>3. \A i \in 0 .. N : f[i] =
         IF i = N \/ l[i].key = InvalidKey THEN <<>>
         ELSE (IF l[i].key >= k THEN <<l[i].val>> ELSE <<>>) \o f[i + 1]
  BY LeafFromFacts
<1>4. range(l, k) = f[0]
  BY LeafFromFacts
<1> HIDE DEF f
<1>5. ASSUME NEW i \in 0 .. N - 1
      PROVE  f[i] = g[i] \o f[i + 1] /\ Lists(c, g[i], S[i])
  <2>1. i \in Slots /\ i \in 0 .. N /\ i # N /\ i + 1 \in 0 .. N
    BY <1>1
  <2>2. CASE l[i].key = InvalidKey
    <3>1. f[i] = <<>> /\ g[i] = <<>> /\ S[i] = {}
      BY <1>3, <2>1, <2>2
    <3>2. f[i + 1] = <<>>
      <4>1. CASE i + 1 = N
        BY <1>3, <2>1, <4>1
      <4>2. CASE i + 1 # N
        <5>1. i + 1 \in Slots /\ i < i + 1
          BY <1>1, <2>1, <4>2
        <5>2. l[i + 1].key = InvalidKey
          <6>1. l[i + 1] \in Entries \cup {Empty}
            BY <5>1 DEF Leaves
          <6>2. l[i + 1].key <= InvalidKey
            BY <1>1, <6>1 DEF Entries, Empty, Keys
          <6>3. l[i].key < l[i + 1].key \/ l[i + 1] = Empty
            BY <2>1, <5>1 DEF Sorted
          <6> QED
            BY <1>1, <1>2, <2>2, <5>1, <6>2, <6>3
        <5> QED
          BY <1>3, <2>1, <5>2
      <4> QED
        BY <4>1, <4>2
    <3>3. <<>> \o <<>> = <<>>
      OBVIOUS
    <3> HIDE DEF g, S
    <3> QED
      BY <3>1, <3>2, <3>3, ListsNone
  <2>3. CASE l[i].key # InvalidKey
    <3>1. f[i] = (IF l[i].key >= k THEN <<l[i].val>> ELSE <<>>) \o f[i + 1]
      BY <1>3, <2>1, <2>3
    <3>2. g[i] = IF l[i].key >= k THEN <<l[i].val>> ELSE <<>>
      BY <2>1, <2>3
    <3>3. CASE l[i].key >= k
      <4>1. g[i] = <<c[l[i].key]>> /\ S[i] = {l[i].key} /\ c[l[i].key] \in Vals
        BY <1>2, <2>1, <2>3, <3>3
      <4>2. l[i].key \in Nat
        BY <1>2, <2>1
      <4> HIDE DEF g, S
      <4> QED
        BY <3>1, <3>2, <4>1, <4>2, ListsOne
    <3>4. CASE ~ (l[i].key >= k)
      <4>1. g[i] = <<>> /\ S[i] = {}
        BY <2>1, <3>4
      <4> HIDE DEF g, S
      <4> QED
        BY <3>1, <3>2, <4>1, ListsNone
    <3> QED
      BY <3>3, <3>4
  <2> QED
    BY <2>2, <2>3
<1>6. f[N] = <<>>
  <2>1. N \in 0 .. N
    BY <1>1
  <2> QED
    BY <1>3, <2>1
<1>7. ASSUME NEW i \in 0 .. N - 1, NEW j \in 0 .. N - 1, i < j, NEW x \in S[i], NEW y \in S[j]
      PROVE  x < y
  <2>1. i \in Slots /\ j \in Slots
    BY <1>1
  <2>2. x = l[i].key /\ y = l[j].key /\ l[j].key # InvalidKey
    BY <2>1
  <2>3. l[i].key < l[j].key \/ l[j] = Empty
    BY <1>7, <2>1 DEF Sorted
  <2> QED
    BY <1>2, <2>1, <2>2, <2>3
<1> DEFINE T == Joint(S, 0, N)
<1>8. T = {j \in KeysOf(l) : j >= k}
  <2>1. ASSUME NEW j PROVE j \in T <=> j \in KeysOf(l) /\ j >= k
    <3>1. j \in T <=> j \in Nat /\ \E i \in Slots : In(i) /\ j = l[i].key
      BY <1>1 DEF Joint
    <3>2. j \in KeysOf(l) <=> \E i \in Slots : l[i].key = j /\ l[i].key # InvalidKey
      BY DEF KeysOf
    <3> HIDE DEF T
    <3> QED
      BY <1>2, <3>1, <3>2
  <2> QED
    BY <2>1
<1> HIDE DEF g, S, T
<1>9. 0 \in Int /\ N \in Int /\ 0 <= N
  BY <1>1
<1>10. Lists(c, f[0], T)
  <2>1. \A i \in 0 .. N - 1 : f[i] = g[i] \o f[i + 1] /\ Lists(c, g[i], S[i])
    BY <1>5
  <2>2. \A i, j \in 0 .. N - 1 : i < j => \A x \in S[i], y \in S[j] : x < y
    BY <1>7
  <2>3. Stepped(c, f, g, S, 0, N)
    BY <1>6, <2>1, <2>2 DEF Stepped
  <2> QED
    BY <1>9, <2>3, ListsSummed DEF T
<1> QED
  BY <1>4, <1>8, <1>10
-----------------------------------------------------------------------------
\* The window of a key ends no further left than that of a lower key.
LEMMA WindowEndOrder ==
  ASSUME NEW m, Trained(m), NEW k \in Keys, NEW l \in Keys, k <= l
  PROVE  hi(m, k) <= hi(m, l)
<1> DEFINE d == m.icd
           size == m.capacity
           x == pos(m, k)
           y == pos(m, l)
           e == (Epsilon + 2) * d
           a == Above(m, k)
           b == Above(m, l)
<1>1. /\ d \in Nat \ {0} /\ size \in Nat \ {0} /\ x \in Int /\ e \in Int
      /\ size * d \in Int /\ (size - 1) * d = size * d - d
      /\ a = IF x + e >= size * d THEN (size - 1) * d ELSE x + e
      /\ hi(m, k) = LeafOf(a, d)
  BY BoundsLemma
<1>2. /\ y \in Int
      /\ b = IF y + e >= size * d THEN (size - 1) * d ELSE y + e
      /\ hi(m, l) = LeafOf(b, d)
  BY BoundsLemma
<1>3. x <= y
  BY PositionOrder
<1> HIDE DEF d, size, x, y, e, a, b
<1>4. a \in Int /\ b \in Int
  BY <1>1, <1>2, <1>3
<1>5. CASE a <= b
  BY <1>1, <1>2, <1>4, <1>5, LeafOfOrder
<1>6. CASE ~ (a <= b)
  <2>1. b = (size - 1) * d /\ a < (size - 1) * d + d /\ size - 1 \in Nat
    BY <1>1, <1>2, <1>3, <1>6
  <2>2. LeafOf(a, d) <= (size - 1) \div N
    BY <1>1, <1>4, <2>1, LeafOfPlace
  <2>3. (size - 1) \div N <= LeafOf(b, d)
    <3>1. (size - 1) * d <= b
      BY <1>4, <2>1
    <3> QED
      BY <1>1, <1>4, <2>1, <3>1, LeafOfPlace
  <2>4. (size - 1) \div N \in Int /\ LeafOf(a, d) \in Int /\ LeafOf(b, d) \in Int
    <3>1. N \in Nat \ {0}
      BY LeafAssumption
    <3> QED
      BY <1>1, <1>4, <2>1, <3>1, LeafOfPlace, Quotient
  <2> QED
    BY <1>1, <1>2, <2>2, <2>3, <2>4
<1> QED
  BY <1>5, <1>6

\* In one model a key is sent no further left than a lower key.
LEMMA EntryOrder ==
  ASSUME NEW m, Trained(m), NEW lt, NEW mem,
         \A i \in 0 .. TrainedLeaves(m) - 1 : mem[lt.table[i].leaf_num][0].key \in Nat,
         NEW j \in Keys, NEW k \in Keys, j <= k
  PROVE  Entry(lt, mem, j, lo(m, j), hi(m, j)) <= Entry(lt, mem, k, lo(m, k), hi(m, k))
<1> DEFINE a == lo(m, j)
           b == hi(m, j)
           c == lo(m, k)
           d == hi(m, k)
           e == Entry(lt, mem, j, a, b)
           f == Entry(lt, mem, k, c, d)
<1>1. /\ a \in Nat /\ b \in Nat /\ c \in Nat /\ d \in Nat
      /\ a <= b /\ c <= d /\ a <= c /\ b <= d
      /\ d <= TrainedLeaves(m) - 1 /\ TrainedLeaves(m) \in Nat
  BY WindowLemma, WindowOrder, WindowEndOrder
<1>2. /\ e \in a .. b
      /\ e = a \/ insertHere(mem[lt.table[e].leaf_num], j)
  <2> HIDE DEF a, b
  <2> QED
    BY <1>1, EntryLemma
<1>3. /\ f \in c .. d
      /\ \A i \in f + 1 .. d : ~ insertHere(mem[lt.table[i].leaf_num], k)
  <2> HIDE DEF c, d
  <2> QED
    BY <1>1, EntryLemma
<1> HIDE DEF a, b, c, d, e, f
<1>4. ASSUME f < e PROVE FALSE
  <2>1. e # a /\ e \in f + 1 .. d /\ e \in 0 .. TrainedLeaves(m) - 1
    BY <1>1, <1>2, <1>3, <1>4
  <2>2. insertHere(mem[lt.table[e].leaf_num], j)
    BY <1>2, <2>1
  <2>3. mem[lt.table[e].leaf_num][0].key \in Nat
    BY <2>1
  <2>4. j \in Nat /\ k \in Nat
    BY LeafAssumption DEF Keys
  <2>5. insertHere(mem[lt.table[e].leaf_num], k)
    BY <2>2, <2>3, <2>4 DEF insertHere
  <2> QED
    BY <1>3, <2>1, <2>5
<1>5. e <= f
  BY <1>1, <1>2, <1>3, <1>4
<1> QED
  BY <1>5 DEF a, b, c, d, e, f

\* The models share the keys out in their order.
LEMMA ModelOrder ==
  ASSUME NEW n \in DOMAIN Loads, NEW j \in Keys, NEW k \in Keys,
         model_index[n][j] < model_index[n][k]
  PROVE  j < k
<1> DEFINE training == Loads[n].training
           size == Len(training)
           model_keys == [i \in DOMAIN training |-> last_key(training[i])]
           a == model_for_key(model_keys, j)
           b == model_for_key(model_keys, k)
<1>1. /\ size \in Nat /\ size > 0 /\ DOMAIN training = 1 .. size
      /\ \A i \in 1 .. size : last_key(training[i]) \in Nat
      /\ \A i \in 1 .. size - 1 : last_key(training[i]) <= last_key(training[i + 1])
  BY LoadLemma
<1>2. model_index[n][j] = a + 1 /\ model_index[n][k] = b + 1
  BY DEF model_index
<1> HIDE DEF training, size, a, b
<1>4. model_keys \in Seq(Nat) /\ Len(model_keys) = size
  <2>1. model_keys \in [1 .. size -> Nat] /\ size \in Nat
    BY <1>1
  <2> HIDE DEF model_keys
  <2> QED
    BY <2>1
<1>5. \A i \in 1 .. size : model_keys[i] = last_key(training[i])
  BY <1>1
<1> HIDE DEF model_keys
<1>6. \A i, l \in 1 .. size : i <= l => model_keys[i] <= model_keys[l]
  <2>1. \A i \in 1 .. size : model_keys[i] \in Int
    BY <1>1, <1>5
  <2>2. ASSUME NEW i \in 1 .. size - 1 PROVE model_keys[i] <= model_keys[i + 1]
    <3>1. i \in 1 .. size /\ i + 1 \in 1 .. size
      BY <1>1
    <3> QED
      BY <1>1, <1>5, <3>1
  <2> QED
    BY <1>1, <2>1, <2>2, StepOn
<1>7. j \in Nat /\ k \in Nat
  BY LeafAssumption DEF Keys
<1>8. /\ a \in 0 .. size - 1
      /\ \A i \in 1 .. size - 1 : model_keys[i] < j <=> i <= a
  BY <1>1, <1>4, <1>6, <1>7, ModelForKey DEF a
<1>9. /\ b \in 0 .. size - 1
      /\ \A i \in 1 .. size - 1 : model_keys[i] < k <=> i <= b
  BY <1>1, <1>4, <1>6, <1>7, ModelForKey DEF b
<1>10. a < b
  BY <1>2, <1>8, <1>9
<1>11. b \in 1 .. size - 1 /\ b \in 1 .. size /\ ~ (b <= a) /\ b <= b
  BY <1>1, <1>8, <1>9, <1>10
<1>12. model_keys[b] < k /\ ~ (model_keys[b] < j) /\ model_keys[b] \in Nat
  BY <1>1, <1>5, <1>8, <1>9, <1>11
<1> QED
  BY <1>7, <1>12

\* Key j is in place p of entry i of submodel m.
KeyAt(ms, mem, m, i, p, j) ==
  /\ m \in DOMAIN ms /\ i \in DOMAIN ms[m].table
  /\ p \in 0 .. Len(Chain(ms[m], i))
  /\ j \in KeysOf(LeafAt(ms, mem, m, i, p))

\* The keys of an entry are those that are sent to it.
LEMMA SentHere ==
  ASSUME NEW ms, NEW mem, NEW u, Consistent(ms, mem, u), NEW n, Routed(ms, mem, n),
         NEW m, NEW i, NEW p, NEW j, KeyAt(ms, mem, m, i, p, j)
  PROVE  j \in Keys /\ model_index[n][j] = m /\ Owner(ms, mem, n, j) = i
<1> DEFINE x == <<m, i, p>>
<1>1. x \in Places(ms)
  BY PlacesLemma DEF KeyAt
<1>2. /\ Num(ms, x) \in 0 .. Pool - 1 /\ mem[Num(ms, x)] \in Leaves
      /\ j \in KeysOf(mem[Num(ms, x)])
  BY <1>1, PlaceFacts DEF KeyAt, LeafAt
<1>3. j \in Keys
  BY <1>2, KeysLemma
<1>4. PICK z \in Places(ms) : /\ z[1] = model_index[n][j] /\ z[2] = Owner(ms, mem, n, j)
                              /\ Num(ms, z) = Num(ms, x)
  BY <1>2 DEF Routed
<1>5. z = x
  BY <1>1, <1>4 DEF Consistent, PlacedOnce
<1>6. z[1] = m /\ z[2] = i
  BY <1>5
<1> QED
  BY <1>3, <1>4, <1>6

\* Keys of a lower place are lower: the places are ordered by submodel, entry and leaf.
LEMMA PlacesOrder ==
  ASSUME NEW ms, NEW mem, NEW u, Consistent(ms, mem, u),
         NEW n, TablesOf(ms, n), Routed(ms, mem, n),
         NEW m, NEW i, NEW p, NEW j, KeyAt(ms, mem, m, i, p, j),
         NEW l, NEW e, NEW q, NEW k, KeyAt(ms, mem, l, e, q, k),
         m < l \/ (m = l /\ i < e) \/ (m = l /\ i = e /\ p < q)
  PROVE  j < k
<1>1. /\ j \in Keys /\ model_index[n][j] = m /\ Owner(ms, mem, n, j) = i
      /\ k \in Keys /\ model_index[n][k] = l /\ Owner(ms, mem, n, k) = e
  BY SentHere
<1>2. n \in DOMAIN Loads
  BY DEF TablesOf
<1>3. CASE m < l
  BY <1>1, <1>2, <1>3, ModelOrder
<1>4. CASE m = l /\ i < e
  <2>1. /\ Trained(Loads[n].training[m]) /\ m \in DOMAIN ms
        /\ windows[n][j] = [lo |-> lo(Loads[n].training[m], j), hi |-> hi(Loads[n].training[m], j)]
        /\ windows[n][k] = [lo |-> lo(Loads[n].training[m], k), hi |-> hi(Loads[n].training[m], k)]
    BY <1>1, <1>2, <1>4, ModelLemma, LoadLemma DEF TablesOf
  <2> DEFINE t == Loads[n].training[m]
  <2>2. /\ i = Entry(ms[m], mem, j, lo(t, j), hi(t, j))
        /\ e = Entry(ms[m], mem, k, lo(t, k), hi(t, k))
    BY <1>1, <1>4, <2>1 DEF Owner
  <2>3. ASSUME NEW x \in 0 .. TrainedLeaves(t) - 1
        PROVE  mem[ms[m].table[x].leaf_num][0].key \in Nat
    <3>1. x \in DOMAIN ms[m].table
      BY <2>1 DEF TablesOf
    <3>2. LeafAt(ms, mem, m, x, 0) \in Leaves /\ LeafAt(ms, mem, m, x, 0) = mem[ms[m].table[x].leaf_num]
      <4>1. Len(Chain(ms[m], x)) \in Nat
        BY <2>1, <3>1, LeavesAt
      <4>2. 0 \in 0 .. Len(Chain(ms[m], x))
        BY <4>1
      <4>3. LeafAt(ms, mem, m, x, 0) = mem[ms[m].table[x].leaf_num]
        BY <2>1, <3>1, LeavesAt
      <4>4. \A y \in 0 .. Len(Chain(ms[m], x)) : LeafAt(ms, mem, m, x, y) \in Leaves
        BY <2>1, <3>1, LeavesAt
      <4> QED
        BY <4>2, <4>3, <4>4
    <3>3. LeafAt(ms, mem, m, x, 0)[0].key \in 0 .. InvalidKey
      BY <3>2, SlotLemma
    <3> QED
      BY <3>2, <3>3, LeafAssumption
  <2> HIDE DEF t
  <2>4. j \in Nat /\ k \in Nat
    BY <1>1, LeafAssumption DEF Keys
  <2>5. ASSUME k <= j PROVE FALSE
    <3>1. e <= i
      BY <1>1, <2>1, <2>2, <2>3, <2>5, EntryOrder DEF t
    <3>2. i \in Int /\ e \in Int
      <4>1. i \in 0 .. TrainedLeaves(t) - 1 /\ e \in 0 .. TrainedLeaves(t) - 1
        BY <1>4, <2>1 DEF KeyAt, TablesOf, t
      <4>2. TrainedLeaves(t) \in Nat
        BY <2>1, LeavesOfModel DEF t
      <4> QED
        BY <4>1, <4>2
    <3> QED
      BY <1>4, <3>1, <3>2
  <2> QED
    BY <2>4, <2>5
<1>5. CASE m = l /\ i = e /\ p < q
  <2>1. /\ p \in 0 .. Len(Chain(ms[m], i)) /\ q \in 0 .. Len(Chain(ms[m], i))
        /\ m \in DOMAIN ms /\ i \in DOMAIN ms[m].table
        /\ j \in KeysOf(LeafAt(ms, mem, m, i, p)) /\ k \in KeysOf(LeafAt(ms, mem, m, i, q))
    BY <1>5 DEF KeyAt
  <2> QED
    BY <1>5, <2>1, LeavesAt
<1> QED
  BY <1>3, <1>4, <1>5
-----------------------------------------------------------------------------
\* c gives every key its value.
Told(c, mem) == \A k, v : Stored(mem, k, v) => c[k] = v

\* The loop of range_synonym: what it has from place q of the chain on
ChainFrom(lt, mem, k, i, p) ==
  CHOOSE from : from = [q \in p .. Len(Chain(lt, i)) + 1 |->
    IF q > Len(Chain(lt, i)) THEN <<>>
    ELSE range(mem[LeafNum(lt, i, q)], k) \o from[q + 1]]

LEMMA ChainFromFacts ==
  ASSUME NEW lt, NEW mem, NEW k, NEW i, NEW p \in Nat,
         Len(Chain(lt, i)) \in Nat, p <= Len(Chain(lt, i)) + 1
  PROVE  /\ RangeFrom(lt, mem, k, i, p) = ChainFrom(lt, mem, k, i, p)[p]
         /\ \A q \in p .. Len(Chain(lt, i)) + 1 : ChainFrom(lt, mem, k, i, p)[q] =
              IF q > Len(Chain(lt, i)) THEN <<>>
              ELSE range(mem[LeafNum(lt, i, q)], k) \o ChainFrom(lt, mem, k, i, p)[q + 1]
<1> DEFINE size == Len(Chain(lt, i))
           b == size + 1
           g == [q \in p .. b |-> range(mem[LeafNum(lt, i, q)], k)]
           B(f) == [q \in p .. b |->
                      IF q > size THEN <<>>
                      ELSE range(mem[LeafNum(lt, i, q)], k) \o f[q + 1]]
           h == ChainFrom(lt, mem, k, i, p)
<1>1. p \in Int /\ b \in Int /\ p <= b /\ size \in Int
  OBVIOUS
<1>2. PICK f : Summed(f, g, {}, p, b)
  <2> HIDE DEF g, b
  <2> QED
    BY <1>1, SumExists
<1>3. f = B(f)
  <2>1. \A q \in p .. b : /\ g[q] = range(mem[LeafNum(lt, i, q)], k)
                          /\ q > size <=> q = b
    BY <1>1
  <2> HIDE DEF g, b, size
  <2> QED
    BY <1>2, <2>1 DEF Summed
<1>4. h = B(h)
  BY <1>3 DEF ChainFrom
<1>5. RangeFrom(lt, mem, k, i, p) = h[p]
  BY DEF RangeFrom, ChainFrom
<1> HIDE DEF h
<1> QED
  BY <1>4, <1>5 DEF h

\* The keys from k on in the leaves at places p and further of entry i
ChainKeys(ms, mem, m, i, p, k) ==
  {j \in Nat : j >= k /\ \E q \in p .. Len(Chain(ms[m], i)) : j \in KeysOf(LeafAt(ms, mem, m, i, q))}

\* range_synonym: the leaves of the chain one after the other
LEMMA ChainLists ==
  ASSUME NEW ms, NEW mem, NEW u, Consistent(ms, mem, u), NEW c, Told(c, mem),
         NEW m \in DOMAIN ms, NEW i \in DOMAIN ms[m].table,
         NEW p \in Nat, p <= Len(Chain(ms[m], i)), NEW k \in Nat
  PROVE  Lists(c, RangeFrom(ms[m], mem, k, i, p), ChainKeys(ms, mem, m, i, p, k))
<1> DEFINE size == Len(Chain(ms[m], i))
           b == size + 1
           L(q) == LeafAt(ms, mem, m, i, q)
           f == ChainFrom(ms[m], mem, k, i, p)
           g == [q \in p .. size |-> range(L(q), k)]
           S == [q \in p .. size |-> {j \in KeysOf(L(q)) : j >= k}]
<1>1. /\ size \in Nat /\ b \in Int /\ p \in Int /\ p <= b /\ p <= size + 1
      /\ b - 1 = size /\ \A q : q \in p .. b - 1 <=> q \in p .. size
  BY LeavesAt
<1>2. /\ RangeFrom(ms[m], mem, k, i, p) = f[p]
      /\ \A q \in p .. b : f[q] =
           IF q > size THEN <<>> ELSE range(mem[LeafNum(ms[m], i, q)], k) \o f[q + 1]
  BY <1>1, ChainFromFacts
<1>3. \A q \in p .. size : /\ q \in 0 .. size /\ q \in p .. b /\ ~ (q > size)
  BY <1>1
<1>4. \A q : L(q) = mem[LeafNum(ms[m], i, q)]
  BY DEF LeafAt, Num
<1> HIDE DEF f
<1>5. ASSUME NEW q \in p .. size
      PROVE  f[q] = g[q] \o f[q + 1] /\ Lists(c, g[q], S[q])
  <2>1. q \in 0 .. size /\ q \in p .. b /\ ~ (q > size)
    BY <1>3
  <2>2. g[q] = range(L(q), k) /\ S[q] = {j \in KeysOf(L(q)) : j >= k}
    OBVIOUS
  <2>3. f[q] = g[q] \o f[q + 1]
    BY <1>2, <1>4, <2>1, <2>2
  <2>4. L(q) \in Leaves /\ Sorted(L(q)) /\ <<m, i, q>> \in Places(ms)
    BY <2>1, LeavesAt
  <2>5. Num(ms, <<m, i, q>>) \in 0 .. Pool - 1
    BY <2>4, PlaceFacts
  <2>6. ASSUME NEW s \in Slots, L(q)[s].key # InvalidKey
        PROVE  c[L(q)[s].key] = L(q)[s].val
    <3>1. L(q)[s] \in Content(L(q)) /\ L(q)[s] = [key |-> L(q)[s].key, val |-> L(q)[s].val]
      BY <2>4, <2>6, SlotLemma, ContentLemma
    <3>2. Stored(mem, L(q)[s].key, L(q)[s].val)
      BY <2>5, <3>1 DEF Stored, LeafAt
    <3> QED
      BY <3>2 DEF Told
  <2>7. Lists(c, range(L(q), k), {j \in KeysOf(L(q)) : j >= k})
    <3> HIDE DEF L
    <3> QED
      BY <2>4, <2>6, LeafLists
  <2> QED
    BY <2>2, <2>3, <2>7
<1>6. f[b] = <<>>
  BY <1>1, <1>2
<1>7. ASSUME NEW q \in p .. size, NEW r \in p .. size, q < r, NEW x \in S[q], NEW y \in S[r]
      PROVE  x < y
  <2>1. q \in 0 .. size /\ r \in 0 .. size /\ x \in KeysOf(L(q)) /\ y \in KeysOf(L(r))
    BY <1>3
  <2> QED
    BY <1>7, <2>1, LeavesAt
<1>8. Joint(S, p, b) = ChainKeys(ms, mem, m, i, p, k)
  <2>1. ASSUME NEW j PROVE j \in Joint(S, p, b) <=> j \in ChainKeys(ms, mem, m, i, p, k)
    <3>1. j \in Joint(S, p, b) <=> j \in Nat /\ \E q \in p .. b - 1 : j \in S[q]
      BY DEF Joint
    <3>2. \A q \in p .. size : j \in S[q] <=> j \in KeysOf(L(q)) /\ j >= k
      OBVIOUS
    <3>3. j \in ChainKeys(ms, mem, m, i, p, k)
            <=> j \in Nat /\ j >= k /\ \E q \in p .. size : j \in KeysOf(L(q))
      BY DEF ChainKeys
    <3> HIDE DEF S, L, b
    <3> QED
      BY <1>1, <3>1, <3>2, <3>3
  <2> QED
    BY <2>1
<1> HIDE DEF g, S, b, size
<1>9. Stepped(c, f, g, S, p, b)
  BY <1>1, <1>5, <1>6, <1>7 DEF Stepped
<1>10. Lists(c, f[p], Joint(S, p, b))
  BY <1>1, <1>9, ListsSummed
<1> QED
  BY <1>2, <1>8, <1>10

\* The loop of range() over the entries: what it has from entry i on, when it began at
\* place `start` of entry `first`
TableFrom(lt, mem, k, first, start) ==
  CHOOSE scan : scan = [i \in DOMAIN lt.table \cup {Greatest(DOMAIN lt.table) + 1} |->
    IF i \notin DOMAIN lt.table THEN <<>>
    ELSE RangeFrom(lt, mem, k, i, IF i = first THEN start ELSE 0) \o scan[i + 1]]

TableLoop(scan, lt, mem, k, t, first, start) ==
  \A i \in 0 .. t : scan[i] =
    IF i = t THEN <<>>
    ELSE RangeFrom(lt, mem, k, i, IF i = first THEN start ELSE 0) \o scan[i + 1]

LEMMA TableFromFacts ==
  ASSUME NEW lt, NEW mem, NEW k, NEW t \in Nat, t > 0, DOMAIN lt.table = 0 .. t - 1,
         NEW first, NEW start
  PROVE  TableLoop(TableFrom(lt, mem, k, first, start), lt, mem, k, t, first, start)
<1> DEFINE T == DOMAIN lt.table
           R(i) == RangeFrom(lt, mem, k, i, IF i = first THEN start ELSE 0)
           g == [i \in 0 .. t |-> R(i)]
           B(f) == [i \in T \cup {Greatest(T) + 1} |->
                      IF i \notin T THEN <<>> ELSE R(i) \o f[i + 1]]
           h == TableFrom(lt, mem, k, first, start)
<1>1. T \cup {Greatest(T) + 1} = 0 .. t /\ \A i \in 0 .. t : i \notin T <=> i = t
  <2>1. T \in SUBSET Int /\ T # {} /\ t - 1 \in Int /\ \A y \in T : y <= t - 1
    OBVIOUS
  <2>2. Greatest(T) \in T /\ \A y \in T : y <= Greatest(T)
    <3> HIDE DEF T
    <3> QED
      BY <2>1, GreatestLemma
  <2>3. Greatest(T) = t - 1
    <3>1. t - 1 \in T
      OBVIOUS
    <3>2. Greatest(T) \in 0 .. t - 1 /\ t - 1 <= Greatest(T)
      BY <2>2, <3>1
    <3> QED
      BY <3>2
  <2>4. Greatest(T) + 1 = t
    BY <2>3
  <2>5. \A i : i \in T \cup {t} <=> i \in 0 .. t
    OBVIOUS
  <2> QED
    BY <2>4, <2>5
<1>2. PICK f : Summed(f, g, {}, 0, t)
  <2>1. 0 \in Int /\ t \in Int /\ 0 <= t
    OBVIOUS
  <2> HIDE DEF g
  <2> QED
    BY <2>1, SumExists
<1> HIDE DEF T, R
<1>3. f = B(f)
  <2>1. f = [i \in 0 .. t |-> IF i = t \/ i \in {} THEN <<>> ELSE g[i] \o f[i + 1]]
    BY <1>2 DEF Summed
  <2>2. f = [i \in 0 .. t |-> IF i \notin T THEN <<>> ELSE R(i) \o f[i + 1]]
    <3>1. \A i \in 0 .. t : g[i] = R(i)
      OBVIOUS
    <3> HIDE DEF g
    <3> QED
      BY <1>1, <2>1, <3>1
  <2> HIDE DEF g
  <2> QED
    BY <1>1, <2>2
<1>4. h = B(h)
  BY <1>3 DEF TableFrom, T, R
<1> HIDE DEF h
<1>5. h = [i \in 0 .. t |-> IF i \notin T THEN <<>> ELSE R(i) \o h[i + 1]]
  BY <1>1, <1>4
<1>6. \A i \in 0 .. t : h[i] = IF i = t THEN <<>> ELSE R(i) \o h[i + 1]
  BY <1>1, <1>5
<1> QED
  BY <1>6 DEF h, R, TableLoop

\* The walk of range() begins where the key is sent: at entry i and its place of the
\* chain, or at the leaf of the entry when that takes no key this low.
LEMMA RangeStart ==
  ASSUME NEW lt, NEW mem, NEW k, NEW a \in Nat, NEW b \in Nat, a <= b
  PROVE  LET i == Entry(lt, mem, k, a, b)
             p == Place(lt, mem, k, i)
         IN  \E start \in {0, p} :
               Range(lt, mem, k, a, b) = TableFrom(lt, mem, k, i, start)[i]
<1> DEFINE In(i) == insertHere(mem[lt.table[i].leaf_num], k)
           here == {i \in a .. b : In(i)}
           first == IF here = {} THEN a ELSE Greatest(here)
           start == IF here = {} THEN 0 ELSE Place(lt, mem, k, first)
           i == Entry(lt, mem, k, a, b)
<1>1. /\ i \in a .. b /\ (i = a \/ In(i))
      /\ \A j \in i + 1 .. b : ~ In(j)
  BY EntryLemma
<1>2. Range(lt, mem, k, a, b) = TableFrom(lt, mem, k, first, start)[first]
  BY DEF Range, TableFrom
<1> HIDE DEF i, In
<1>3. first = i
  <2>1. CASE here = {}
    <3>1. i = a
      BY <1>1, <2>1
    <3> QED
      BY <2>1, <3>1
  <2>2. CASE here # {}
    <3>1. here \in SUBSET Int /\ b \in Int /\ \A y \in here : y <= b
      OBVIOUS
    <3> DEFINE x == Greatest(here)
    <3>2. x \in here /\ \A y \in here : y <= x
      <4> HIDE DEF here
      <4> QED
        BY <2>2, <3>1, GreatestLemma
    <3>3. x \in a .. b /\ In(x)
      BY <3>2
    <3> HIDE DEF x
    <3>4. ~ (i < x)
      BY <1>1, <3>3
    <3>5. ~ (x < i)
      <4> SUFFICES ASSUME x < i PROVE FALSE
        OBVIOUS
      <4>1. i # a
        BY <1>1, <3>3
      <4>2. i \in here
        BY <1>1, <4>1
      <4> QED
        BY <1>1, <3>2, <3>3, <4>2
    <3>6. x = i
      BY <1>1, <3>3, <3>4, <3>5
    <3> QED
      BY <2>2, <3>6 DEF x
  <2> QED
    BY <2>1, <2>2
<1>4. start \in {0, Place(lt, mem, k, i)}
  BY <1>3
<1> HIDE DEF start, first
<1>5. \E s \in {0, Place(lt, mem, k, i)} :
        Range(lt, mem, k, a, b) = TableFrom(lt, mem, k, i, s)[i]
  BY <1>2, <1>3, <1>4
<1> QED
  BY <1>5 DEF i

\* The keys from k on of submodel m
TableKeys(ms, mem, m, k) ==
  {j \in Nat : j >= k /\ \E i \in DOMAIN ms[m].table : \E q \in 0 .. Len(Chain(ms[m], i)) :
                           j \in KeysOf(LeafAt(ms, mem, m, i, q))}

\* The walk begins left of no key from k on.
LEMMA NothingBefore ==
  ASSUME NEW ms, NEW mem, NEW u, Consistent(ms, mem, u),
         NEW n, TablesOf(ms, n), Routed(ms, mem, n),
         NEW m \in DOMAIN ms, NEW k \in Keys, NEW e, NEW q, NEW j, KeyAt(ms, mem, m, e, q, j), k <= j
  PROVE  LET t == Loads[n].training[m]
             i == Entry(ms[m], mem, k, lo(t, k), hi(t, k))
         IN  i <= e /\ (e = i => Place(ms[m], mem, k, i) <= q)
<1> DEFINE t == Loads[n].training[m]
           i == Entry(ms[m], mem, k, lo(t, k), hi(t, k))
           p == Place(ms[m], mem, k, i)
<1>1. j \in Keys /\ model_index[n][j] = m /\ Owner(ms, mem, n, j) = e
  BY SentHere
<1>2. n \in DOMAIN Loads /\ m \in 1 .. Len(Loads[n].training)
  BY DEF TablesOf
<1>3. /\ Trained(t) /\ windows[n][j] = [lo |-> lo(t, j), hi |-> hi(t, j)]
      /\ DOMAIN ms[m].table = 0 .. TrainedLeaves(t) - 1
  BY <1>1, <1>2, ModelLemma, LoadLemma DEF TablesOf
<1>4. e = Entry(ms[m], mem, j, lo(t, j), hi(t, j))
  BY <1>1, <1>3 DEF Owner
<1>5. ASSUME NEW x \in 0 .. TrainedLeaves(t) - 1
      PROVE  mem[ms[m].table[x].leaf_num][0].key \in Nat
  <2>1. x \in DOMAIN ms[m].table
    BY <1>3
  <2>2. Len(Chain(ms[m], x)) \in Nat /\ LeafAt(ms, mem, m, x, 0) = mem[ms[m].table[x].leaf_num]
    BY <2>1, LeavesAt
  <2>3. \A y \in 0 .. Len(Chain(ms[m], x)) : LeafAt(ms, mem, m, x, y) \in Leaves
    BY <2>1, LeavesAt
  <2>4. 0 \in 0 .. Len(Chain(ms[m], x))
    BY <2>2
  <2>5. LeafAt(ms, mem, m, x, 0)[0].key \in 0 .. InvalidKey
    BY <2>3, <2>4, SlotLemma
  <2> QED
    BY <2>2, <2>5, LeafAssumption
<1> HIDE DEF t
<1>6. i <= e
  BY <1>1, <1>3, <1>4, <1>5, EntryOrder
<1>7. ASSUME e = i PROVE p <= q
  <2>1. i \in DOMAIN ms[m].table
    BY <1>7 DEF KeyAt
  <2> HIDE DEF i
  <2>2. /\ p \in 0 .. Len(Chain(ms[m], i)) /\ <<m, i, p>> \in Places(ms)
        /\ Takes(ms, mem, <<m, i, p>>, k)
    BY <2>1, PlaceLemma
  <2>3. /\ <<m, i, q>> \in Places(ms) /\ q \in 0 .. Len(Chain(ms[m], i))
        /\ j \in KeysOf(mem[Num(ms, <<m, i, q>>)])
    BY <1>7, PlacesLemma DEF KeyAt, LeafAt
  <2>4. SameEntry(<<m, i, p>>, <<m, i, q>>)
    BY DEF SameEntry
  <2>5. q < p => j < k
    BY <2>2, <2>3, <2>4 DEF Takes
  <2>6. Len(Chain(ms[m], i)) \in Nat
    BY <2>1, LeavesAt
  <2>7. k \in Nat /\ j \in Nat
    BY <1>1, LeafAssumption DEF Keys
  <2> HIDE DEF p
  <2> QED
    BY <2>2, <2>3, <2>5, <2>6, <2>7
<1> QED
  BY <1>6, <1>7 DEF i, t

\* range: every key from k on of the submodel, in the order of the keys
LEMMA RangeLists ==
  ASSUME NEW ms, NEW mem, NEW u, Consistent(ms, mem, u),
         NEW n, TablesOf(ms, n), Routed(ms, mem, n), NEW c, Told(c, mem),
         NEW m \in DOMAIN ms, NEW k \in Keys
  PROVE  LET t == Loads[n].training[m]
         IN  Lists(c, Range(ms[m], mem, k, lo(t, k), hi(t, k)), TableKeys(ms, mem, m, k))
<1> DEFINE t == Loads[n].training[m]
           lt == ms[m]
           x == Entry(lt, mem, k, lo(t, k), hi(t, k))
           z == Place(lt, mem, k, x)
           b == TrainedLeaves(t)
           size(i) == Len(Chain(lt, i))
<1>1. n \in DOMAIN Loads /\ m \in 1 .. Len(Loads[n].training)
  BY DEF TablesOf
<1>2. /\ Trained(t) /\ DOMAIN lt.table = 0 .. b - 1 /\ b \in Nat /\ b > 0
      /\ lo(t, k) \in Nat /\ hi(t, k) \in Nat /\ lo(t, k) <= hi(t, k) /\ hi(t, k) <= b - 1
  BY <1>1, LoadLemma, WindowLemma DEF TablesOf
<1>3. k \in Nat
  BY LeafAssumption DEF Keys
<1>4. x \in lo(t, k) .. hi(t, k)
  BY <1>2, EntryLemma
<1>5. PICK start \in {0, z} : Range(lt, mem, k, lo(t, k), hi(t, k)) = TableFrom(lt, mem, k, x, start)[x]
  BY <1>2, RangeStart
<1>6. \A e, q, j : KeyAt(ms, mem, m, e, q, j) /\ k <= j => x <= e /\ (e = x => z <= q)
  BY NothingBefore
<1>7. x \in 0 .. b - 1 /\ x \in Nat /\ x <= b
  BY <1>2, <1>4
<1> HIDE DEF x
<1>8. z \in 0 .. size(x) /\ size(x) \in Nat
  BY <1>2, <1>7, PlaceLemma, LeavesAt
<1> HIDE DEF z, t, b
<1> DEFINE f == TableFrom(lt, mem, k, x, start)
           from(i) == IF i = x THEN start ELSE 0
           g == [i \in 0 .. b - 1 |-> RangeFrom(lt, mem, k, i, from(i))]
           S == [i \in 0 .. b - 1 |-> ChainKeys(ms, mem, m, i, from(i), k)]
<1>9. ASSUME NEW i \in x .. b - 1
      PROVE  /\ i \in 0 .. b - 1 /\ i \in 0 .. b /\ i # b /\ i \in DOMAIN lt.table
             /\ size(i) \in Nat /\ from(i) \in Nat /\ from(i) <= size(i)
  <2>1. i \in 0 .. b - 1 /\ i \in 0 .. b /\ i # b
    BY <1>2, <1>7
  <2>2. i \in DOMAIN lt.table /\ size(i) \in Nat
    BY <1>2, <2>1, LeavesAt
  <2>3. start \in Nat /\ start <= size(x)
    BY <1>5, <1>8
  <2> QED
    BY <2>1, <2>2, <2>3
<1>9a. \A i \in 0 .. b : f[i] =
        IF i = b THEN <<>> ELSE RangeFrom(lt, mem, k, i, from(i)) \o f[i + 1]
  <2>1. b \in Nat /\ b > 0 /\ DOMAIN lt.table = 0 .. b - 1
    BY <1>2
  <2>2. TableLoop(TableFrom(lt, mem, k, x, start), lt, mem, k, b, x, start)
    <3> HIDE DEF lt, f, g, S, from, size
    <3> QED
      BY <2>1, TableFromFacts
  <2> QED
    BY <2>2 DEF TableLoop
<1>10. ASSUME NEW i \in x .. b - 1
       PROVE  f[i] = g[i] \o f[i + 1] /\ Lists(c, g[i], S[i])
  <2>1. f[i] = RangeFrom(lt, mem, k, i, from(i)) \o f[i + 1]
    BY <1>9, <1>9a
  <2>2. g[i] = RangeFrom(lt, mem, k, i, from(i)) /\ S[i] = ChainKeys(ms, mem, m, i, from(i), k)
    BY <1>9
  <2> HIDE DEF f, g, S, from
  <2>3. Lists(c, RangeFrom(lt, mem, k, i, from(i)), ChainKeys(ms, mem, m, i, from(i), k))
    BY <1>3, <1>9, ChainLists
  <2> QED
    BY <2>1, <2>2, <2>3
<1>11. f[b] = <<>>
  <2>1. b \in 0 .. b
    BY <1>2
  <2> QED
    BY <2>1, <1>9a
<1>12. ASSUME NEW i \in x .. b - 1, NEW e \in x .. b - 1, i < e, NEW y \in S[i], NEW w \in S[e]
       PROVE  y < w
  <2>1. y \in ChainKeys(ms, mem, m, i, from(i), k) /\ w \in ChainKeys(ms, mem, m, e, from(e), k)
    BY <1>9
  <2> HIDE DEF from
  <2>2. PICK p \in from(i) .. size(i) : y \in KeysOf(LeafAt(ms, mem, m, i, p))
    BY <2>1 DEF ChainKeys
  <2>3. PICK q \in from(e) .. size(e) : w \in KeysOf(LeafAt(ms, mem, m, e, q))
    BY <2>1 DEF ChainKeys
  <2>4. p \in 0 .. size(i) /\ q \in 0 .. size(e)
    <3>1. from(i) \in Nat /\ size(i) \in Nat /\ from(e) \in Nat /\ size(e) \in Nat
      BY <1>9
    <3> HIDE DEF size
    <3> QED
      BY <2>2, <2>3, <3>1
  <2>5. KeyAt(ms, mem, m, i, p, y) /\ KeyAt(ms, mem, m, e, q, w)
    BY <1>9, <2>2, <2>3, <2>4 DEF KeyAt
  <2> QED
    BY <1>12, <2>5, PlacesOrder
<1>13. Joint(S, x, b) = TableKeys(ms, mem, m, k)
  <2>1. ASSUME NEW j \in Joint(S, x, b) PROVE j \in TableKeys(ms, mem, m, k)
    <3>1. PICK i \in x .. b - 1 : j \in S[i]
      BY DEF Joint
    <3>2. j \in ChainKeys(ms, mem, m, i, from(i), k)
      BY <1>9, <3>1
    <3>3. PICK q \in from(i) .. size(i) : j \in KeysOf(LeafAt(ms, mem, m, i, q))
      BY <3>2 DEF ChainKeys
    <3>4. q \in 0 .. size(i) /\ i \in DOMAIN lt.table
      <4>1. from(i) \in Nat /\ size(i) \in Nat /\ i \in DOMAIN lt.table
        BY <1>9
      <4> HIDE DEF from, size
      <4> QED
        BY <3>3, <4>1
    <3>5. j \in Nat /\ j >= k
      BY <3>2 DEF ChainKeys
    <3> QED
      BY <3>3, <3>4, <3>5 DEF TableKeys
  <2>2. ASSUME NEW j \in TableKeys(ms, mem, m, k) PROVE j \in Joint(S, x, b)
    <3>1. PICK i \in DOMAIN lt.table : \E q \in 0 .. size(i) : j \in KeysOf(LeafAt(ms, mem, m, i, q))
      BY DEF TableKeys
    <3>2. PICK q \in 0 .. size(i) : j \in KeysOf(LeafAt(ms, mem, m, i, q))
      BY <3>1
    <3>3. j \in Nat /\ k <= j
      BY <1>3 DEF TableKeys
    <3>4. KeyAt(ms, mem, m, i, q, j)
      BY <3>1, <3>2 DEF KeyAt
    <3>5. x <= i /\ (i = x => z <= q)
      BY <1>6, <3>3, <3>4
    <3>6. i \in x .. b - 1
      BY <1>2, <1>7, <3>1, <3>5
    <3>7. q \in from(i) .. size(i)
      <4>1. size(i) \in Nat
        BY <3>1, LeavesAt
      <4>2. z \in Nat /\ (start = 0 \/ start = z)
        BY <1>5, <1>8
      <4> HIDE DEF size
      <4> QED
        BY <3>2, <3>5, <4>1, <4>2
    <3>8. j \in ChainKeys(ms, mem, m, i, from(i), k)
      <4> HIDE DEF from
      <4> QED
        BY <1>3, <3>2, <3>3, <3>7 DEF ChainKeys
    <3>9. j \in S[i]
      BY <1>9, <3>6, <3>8
    <3> HIDE DEF S
    <3> QED
      BY <3>3, <3>6, <3>9 DEF Joint
  <2>3. TableKeys(ms, mem, m, k) \subseteq Nat
    BY DEF TableKeys
  <2> HIDE DEF S
  <2> QED
    BY <2>1, <2>2
<1> HIDE DEF g, S, f
<1>14. Stepped(c, f, g, S, x, b)
  BY <1>10, <1>11, <1>12 DEF Stepped
<1>15. Lists(c, f[x], Joint(S, x, b))
  <2>1. x \in Int /\ b \in Int /\ x <= b
    BY <1>2, <1>7
  <2> QED
    BY <1>14, <2>1, ListsSummed
<1>16. Lists(c, Range(lt, mem, k, lo(t, k), hi(t, k)), TableKeys(ms, mem, m, k))
  BY <1>5, <1>13, <1>15 DEF f
<1> QED
  BY <1>16 DEF t
-----------------------------------------------------------------------------
\* The loop of Rolex::range over the models: what it has from model m on
ModelsFrom(k) ==
  CHOOSE from : from = [m \in model_for[k] .. Len(Training) + 1 |->
    IF m > Len(Training) THEN <<>>
    ELSE Range(models[m], leaves, k, lo(Training[m], k), hi(Training[m], k)) \o from[m + 1]]

LEMMA ModelsFromFacts ==
  ASSUME NEW k, model_for[k] \in Nat, Len(Training) \in Nat, model_for[k] <= Len(Training) + 1
  PROVE  /\ Scan(k) = ModelsFrom(k)[model_for[k]]
         /\ \A m \in model_for[k] .. Len(Training) + 1 : ModelsFrom(k)[m] =
              IF m > Len(Training) THEN <<>>
              ELSE Range(models[m], leaves, k, lo(Training[m], k), hi(Training[m], k))
                   \o ModelsFrom(k)[m + 1]
<1> DEFINE size == Len(Training)
           a == model_for[k]
           b == size + 1
           R(m) == Range(models[m], leaves, k, lo(Training[m], k), hi(Training[m], k))
           g == [m \in a .. b |-> R(m)]
           B(f) == [m \in a .. b |-> IF m > size THEN <<>> ELSE R(m) \o f[m + 1]]
           h == ModelsFrom(k)
<1>1. a \in Int /\ b \in Int /\ a <= b /\ size \in Int
  OBVIOUS
<1> HIDE DEF a, size, R
<1>2. PICK f : Summed(f, g, {}, a, b)
  <2> HIDE DEF g, b
  <2> QED
    BY <1>1, SumExists
<1>3. f = B(f)
  <2>1. \A m \in a .. b : g[m] = R(m) /\ (m > size <=> m = b)
    BY <1>1
  <2> HIDE DEF g, b
  <2> QED
    BY <1>2, <2>1 DEF Summed
<1>4. h = B(h)
  BY <1>3 DEF ModelsFrom, a, size, R
<1>5. Scan(k) = h[a]
  BY DEF Scan, ModelsFrom, a
<1> HIDE DEF h
<1> QED
  BY <1>4, <1>5 DEF h, a, size, R

\* The keys from k on that are in a leaf
StoredFrom(k) == {j \in Nat : j >= k /\ \E v : Stored(leaves, j, v)}

\* Rolex::range: every key from k on that is in a leaf, in the order of the keys
LEMMA ScanLists ==
  ASSUME DictInv, NEW c, Told(c, leaves), NEW k \in Keys
  PROVE  Lists(c, Scan(k), StoredFrom(k))
<1> DEFINE size == Len(Training)
           a == model_for[k]
           b == size + 1
           R(m) == Range(models[m], leaves, k, lo(Training[m], k), hi(Training[m], k))
           f == ModelsFrom(k)
           g == [m \in a .. size |-> R(m)]
           S == [m \in a .. size |-> TableKeys(models, leaves, m, k)]
<1>1. /\ TablesOf(models, load) /\ Consistent(models, leaves, used)
      /\ Routed(models, leaves, load) /\ IndexInv
  BY TablesLemma DEF DictInv
<1>2. /\ load \in DOMAIN Loads /\ size \in Nat /\ DOMAIN models = 1 .. size
      /\ a = model_index[load][k]
  BY <1>1, LoadLemma DEF TablesOf, Training, model_for
<1>3. a \in 1 .. size
  BY <1>2, ModelLemma DEF Training
<1>4. /\ Scan(k) = f[a]
      /\ \A m \in a .. b : f[m] = IF m > size THEN <<>> ELSE R(m) \o f[m + 1]
  BY <1>2, <1>3, ModelsFromFacts
<1>5. k \in Nat
  BY LeafAssumption DEF Keys
<1> HIDE DEF a, f, size
<1>6. ASSUME NEW m \in a .. size
      PROVE  m \in DOMAIN models /\ m \in a .. b /\ ~ (m > size)
  BY <1>2, <1>3
<1>7. ASSUME NEW m \in a .. size
      PROVE  f[m] = g[m] \o f[m + 1] /\ Lists(c, g[m], S[m])
  <2>1. g[m] = R(m) /\ S[m] = TableKeys(models, leaves, m, k)
    OBVIOUS
  <2>2. f[m] = R(m) \o f[m + 1]
    BY <1>4, <1>6
  <2> HIDE DEF g, S
  <2>3. Lists(c, R(m), TableKeys(models, leaves, m, k))
    BY <1>1, <1>6, RangeLists DEF Training
  <2> QED
    BY <2>1, <2>2, <2>3
<1>8. f[b] = <<>>
  <2>1. b \in a .. b /\ b > size
    BY <1>2, <1>3
  <2> QED
    BY <1>4, <2>1
<1>9. ASSUME NEW m \in a .. size, NEW l \in a .. size, m < l, NEW x \in S[m], NEW y \in S[l]
      PROVE  x < y
  <2>1. x \in TableKeys(models, leaves, m, k) /\ y \in TableKeys(models, leaves, l, k)
    OBVIOUS
  <2>2. PICK i, p : KeyAt(models, leaves, m, i, p, x)
    BY <1>6, <2>1 DEF TableKeys, KeyAt
  <2>3. PICK e, q : KeyAt(models, leaves, l, e, q, y)
    BY <1>6, <2>1 DEF TableKeys, KeyAt
  <2> QED
    BY <1>1, <1>9, <2>2, <2>3, PlacesOrder
<1>10. Joint(S, a, b) = StoredFrom(k)
  <2>1. ASSUME NEW j \in Joint(S, a, b) PROVE j \in StoredFrom(k)
    <3>0. b - 1 = size
      BY <1>2
    <3>1. PICK m \in a .. size : j \in S[m]
      BY <3>0 DEF Joint
    <3>2. j \in TableKeys(models, leaves, m, k)
      BY <3>1
    <3>3. PICK i, p : KeyAt(models, leaves, m, i, p, j)
      BY <1>6, <3>2 DEF TableKeys, KeyAt
    <3>4. <<m, i, p>> \in Places(models)
      BY <3>3, PlacesLemma DEF KeyAt
    <3>5. /\ Num(models, <<m, i, p>>) \in 0 .. Pool - 1
          /\ LeafAt(models, leaves, m, i, p) = leaves[Num(models, <<m, i, p>>)]
          /\ LeafAt(models, leaves, m, i, p) \in Leaves
      BY <1>1, <3>4, PlaceFacts DEF LeafAt
    <3>6. \E v \in Vals : [key |-> j, val |-> v] \in Content(LeafAt(models, leaves, m, i, p))
      BY <3>3, <3>5, ContentLemma DEF KeyAt
    <3>7. \E v : Stored(leaves, j, v)
      BY <3>5, <3>6 DEF Stored
    <3> QED
      BY <3>2, <3>7 DEF TableKeys, StoredFrom
  <2>2. ASSUME NEW j \in StoredFrom(k) PROVE j \in Joint(S, a, b)
    <3>1. PICK v : Stored(leaves, j, v)
      BY DEF StoredFrom
    <3>2. PICK r \in 0 .. Pool - 1 : [key |-> j, val |-> v] \in Content(leaves[r])
      BY <3>1 DEF Stored
    <3>3. leaves[r] \in Leaves
      BY <1>1 DEF Consistent
    <3>4. j \in KeysOf(leaves[r]) /\ j \in Keys
      BY <3>2, <3>3, ContentLemma
    <3>5. PICK z \in Places(models) : z[1] = model_index[load][j] /\ Num(models, z) = r
      BY <1>1, <3>4 DEF Routed
    <3>6. /\ z = <<z[1], z[2], z[3]>> /\ z[1] \in DOMAIN models
          /\ z[2] \in DOMAIN models[z[1]].table /\ z[3] \in 0 .. Len(Chain(models[z[1]], z[2]))
      BY <1>1, PlaceFacts
    <3>7. j \in KeysOf(LeafAt(models, leaves, z[1], z[2], z[3]))
      BY <3>4, <3>5, <3>6 DEF LeafAt
    <3>8. j \in Nat /\ j >= k
      BY DEF StoredFrom
    <3>9. j \in TableKeys(models, leaves, z[1], k)
      BY <3>6, <3>7, <3>8 DEF TableKeys
    <3>10. ~ (z[1] < a)
      <4>1. z[1] < a => j < k
        BY <1>2, <3>4, <3>5, ModelOrder
      <4> QED
        BY <1>5, <3>8, <4>1
    <3> DEFINE w == z[1]
    <3>11. w \in a .. size /\ w \in a .. b - 1
      <4>1. w \in 1 .. size /\ ~ (w < a)
        BY <1>2, <3>6, <3>10
      <4> HIDE DEF w
      <4> QED
        BY <1>2, <1>3, <4>1
    <3>12. j \in S[w]
      BY <3>9, <3>11
    <3> HIDE DEF S, w
    <3> QED
      BY <3>8, <3>11, <3>12 DEF Joint
  <2>3. StoredFrom(k) \subseteq Nat
    BY DEF StoredFrom
  <2> HIDE DEF S
  <2> QED
    BY <2>1, <2>2
<1> HIDE DEF g, S
<1>11. a \in Int /\ b \in Int /\ a <= b /\ b - 1 = size
  BY <1>2, <1>3
<1> HIDE DEF b
<1>12. Stepped(c, f, g, S, a, b)
  BY <1>7, <1>8, <1>9, <1>11 DEF Stepped
<1>13. Lists(c, f[a], Joint(S, a, b))
  BY <1>11, <1>12, ListsSummed
<1> QED
  BY <1>4, <1>10, <1>13
-----------------------------------------------------------------------------
\* What the dictionary c has from key k on
ValuesFrom(c) ==
  CHOOSE values : values = [k \in 0 .. InvalidKey |->
    IF k = InvalidKey THEN <<>>
    ELSE (IF c[k] = NoVal THEN <<>> ELSE <<c[k]>>) \o values[k + 1]]

LEMMA ValuesFromFacts ==
  ASSUME NEW c
  PROVE  ValuesFrom(c) = [k \in 0 .. InvalidKey |->
           IF k = InvalidKey THEN <<>>
           ELSE (IF c[k] = NoVal THEN <<>> ELSE <<c[k]>>) \o ValuesFrom(c)[k + 1]]
<1> DEFINE g == [k \in 0 .. InvalidKey |-> IF c[k] = NoVal THEN <<>> ELSE <<c[k]>>]
           B(f) == [k \in 0 .. InvalidKey |->
                      IF k = InvalidKey THEN <<>>
                      ELSE (IF c[k] = NoVal THEN <<>> ELSE <<c[k]>>) \o f[k + 1]]
           h == ValuesFrom(c)
<1>1. 0 \in Int /\ InvalidKey \in Int /\ 0 <= InvalidKey
  BY LeafAssumption
<1>2. PICK f : Summed(f, g, {}, 0, InvalidKey)
  <2> HIDE DEF g
  <2> QED
    BY <1>1, SumExists
<1>3. f = B(f)
  <2>1. \A k \in 0 .. InvalidKey : g[k] = IF c[k] = NoVal THEN <<>> ELSE <<c[k]>>
    OBVIOUS
  <2> HIDE DEF g
  <2> QED
    BY <1>2, <2>1 DEF Summed
<1>4. h = B(h)
  BY <1>3 DEF ValuesFrom
<1> HIDE DEF h
<1> QED
  BY <1>4 DEF h

\* The keys from k on that c has
HasFrom(c, k) == {j \in Nat : j \in k .. InvalidKey - 1 /\ c[j] # NoVal}

LEMMA ValuesList ==
  ASSUME NEW c, \A j \in Keys : c[j] \in Vals \cup {NoVal}, NEW k \in Keys
  PROVE  Lists(c, ValuesFrom(c)[k], HasFrom(c, k))
<1> DEFINE f == ValuesFrom(c)
           b == InvalidKey
           g == [j \in Keys |-> IF c[j] = NoVal THEN <<>> ELSE <<c[j]>>]
           S == [j \in Keys |-> IF c[j] = NoVal THEN {} ELSE {j}]
<1>1. k \in Nat /\ b \in Nat /\ k <= b /\ Keys = 0 .. b - 1
  BY LeafAssumption DEF Keys
<1>2. f = [j \in 0 .. b |->
        IF j = b THEN <<>> ELSE (IF c[j] = NoVal THEN <<>> ELSE <<c[j]>>) \o f[j + 1]]
  BY ValuesFromFacts
<1> HIDE DEF f, b
<1>3. \A j \in 0 .. b : f[j] =
        IF j = b THEN <<>> ELSE (IF c[j] = NoVal THEN <<>> ELSE <<c[j]>>) \o f[j + 1]
  BY <1>2
<1>4. ASSUME NEW j \in k .. b - 1
      PROVE  /\ j \in Keys /\ j \in Nat
             /\ f[j] = g[j] \o f[j + 1] /\ Lists(c, g[j], S[j])
  <2>1. j \in Keys /\ j \in Nat /\ j \in 0 .. b /\ j # b
    BY <1>1
  <2>2. g[j] = IF c[j] = NoVal THEN <<>> ELSE <<c[j]>>
    BY <2>1
  <2>3. S[j] = IF c[j] = NoVal THEN {} ELSE {j}
    BY <2>1
  <2> HIDE DEF g, S
  <2>4. f[j] = g[j] \o f[j + 1]
    BY <1>3, <2>1, <2>2
  <2>5. Lists(c, g[j], S[j])
    <3>1. CASE c[j] = NoVal
      BY <2>2, <2>3, <3>1, ListsNone
    <3>2. CASE c[j] # NoVal
      <4>1. c[j] \in Vals
        BY <2>1, <3>2
      <4> QED
        BY <2>1, <2>2, <2>3, <3>2, <4>1, ListsOne
    <3> QED
      BY <3>1, <3>2
  <2> QED
    BY <2>1, <2>4, <2>5
<1>5. f[b] = <<>>
  <2>1. b \in 0 .. b
    BY <1>1
  <2> QED
    BY <1>3, <2>1
<1>6. ASSUME NEW i \in k .. b - 1, NEW j \in k .. b - 1, i < j, NEW x \in S[i], NEW y \in S[j]
      PROVE  x < y
  <2>1. i \in Keys /\ j \in Keys
    BY <1>4
  <2>2. x = i /\ y = j
    BY <2>1
  <2> QED
    BY <1>6, <2>2
<1>7. Joint(S, k, b) = HasFrom(c, k)
  <2>1. ASSUME NEW j PROVE j \in Joint(S, k, b) <=> j \in HasFrom(c, k)
    <3>1. j \in Joint(S, k, b) <=> j \in Nat /\ \E i \in k .. b - 1 : j \in S[i]
      BY DEF Joint
    <3>2. \A i \in k .. b - 1 : j \in S[i] <=> j = i /\ c[i] # NoVal
      BY <1>4
    <3>3. j \in HasFrom(c, k) <=> j \in Nat /\ j \in k .. b - 1 /\ c[j] # NoVal
      BY DEF HasFrom, b
    <3> HIDE DEF S
    <3> QED
      BY <3>1, <3>2, <3>3
  <2> QED
    BY <2>1
<1> HIDE DEF g, S
<1>8. Stepped(c, f, g, S, k, b)
  BY <1>4, <1>5, <1>6 DEF Stepped
<1>9. Lists(c, f[k], Joint(S, k, b))
  <2>1. k \in Int /\ b \in Int
    BY <1>1
  <2> QED
    BY <1>1, <1>8, <2>1, ListsSummed
<1> QED
  BY <1>7, <1>9 DEF f

\* Where every key is found, the range scan answers all that search finds.
LEMMA DictScans ==
  ASSUME DictInv
  PROVE  RangeComplete
<1> DEFINE c == contents
<1>1. /\ TablesOf(models, load) /\ Consistent(models, leaves, used)
      /\ Routed(models, leaves, load)
  BY TablesLemma DEF DictInv
<1>2. ASSUME NEW j, NEW v, Stored(leaves, j, v)
      PROVE  j \in Keys /\ v \in Vals /\ v # NoVal
  <2>1. PICK q \in 0 .. Pool - 1 : [key |-> j, val |-> v] \in Content(leaves[q])
    BY <1>2 DEF Stored
  <2>2. leaves[q] \in Leaves
    BY <1>1 DEF Consistent
  <2> DEFINE e == [key |-> j, val |-> v]
  <2>3. e.key \in Keys /\ e.val \in Vals /\ e.val # NoVal
    BY <2>1, <2>2, ContentLemma
  <2> QED
    BY <2>3
<1>3. Told(c, leaves)
  BY <1>2, ContentsStored DEF Told
<1>4. \A j \in Keys : c[j] \in Vals \cup {NoVal}
  BY ContentsStored
<1>5. ASSUME NEW j \in Keys, c[j] # NoVal PROVE \E v : Stored(leaves, j, v)
  <2>1. c[j] = Found(models, leaves, load, j)
    BY ContentsFound
  <2> QED
    BY <1>1, <1>5, <2>1, FoundStored
<1> HIDE DEF c
<1>6. ASSUME NEW k \in Keys PROVE Scan(k) = ValuesFrom(c)[k]
  <2>1. StoredFrom(k) = HasFrom(c, k)
    <3>1. ASSUME NEW j PROVE j \in StoredFrom(k) <=> j \in HasFrom(c, k)
      <4>1. InvalidKey \in Nat /\ k \in Nat /\ \A x : x \in Keys <=> x \in 0 .. InvalidKey - 1
        BY LeafAssumption DEF Keys
      <4>2. j \in StoredFrom(k) <=> j \in Nat /\ j >= k /\ \E v : Stored(leaves, j, v)
        BY DEF StoredFrom
      <4>3. j \in HasFrom(c, k) <=> j \in Nat /\ j \in k .. InvalidKey - 1 /\ c[j] # NoVal
        BY DEF HasFrom
      <4>4. (\E v : Stored(leaves, j, v)) <=> j \in Keys /\ c[j] # NoVal
        BY <1>2, <1>3, <1>5 DEF Told
      <4>5. j \in Nat => (j \in k .. InvalidKey - 1 <=> j >= k /\ j \in Keys)
        BY <4>1
      <4> QED
        BY <4>2, <4>3, <4>4, <4>5
    <3> QED
      BY <3>1
  <2>2. Lists(c, Scan(k), StoredFrom(k))
    BY <1>3, ScanLists
  <2>3. Lists(c, ValuesFrom(c)[k], HasFrom(c, k))
    BY <1>4, ValuesList
  <2> QED
    BY <2>1, <2>2, <2>3, ListsUnique
<1> QED
  BY <1>6 DEF RangeComplete, ValuesFrom, c

\* As long as no remove empties the leaf of an entry and so hides its keys from the
\* walk, Rolex::range(k) answers the values of all keys from k on that search finds,
\* each once and in the order of the keys, whatever was inserted, updated and removed
\* before, over all the models and their synonym leaves.
THEOREM ScansUnlessHidden ==
  ASSUME N % 2 = 0
  PROVE  Spec /\ []NoneHidden => []RangeComplete
<1>1. Init => DictInv
  BY DictInit
<1>2. DictInv /\ [Next]_vars /\ NoneHidden' => DictInv'
  BY DictStep
<1>3. DictInv => RangeComplete
  BY DictScans
<1> QED
  BY <1>1, <1>2, <1>3, PTL DEF Spec

\* Without removes nothing is ever hidden: Rolex::range misses no key, repeats none
\* and keeps their order in every state that inserts and updates lead to.
THEOREM ScansAreComplete ==
  ASSUME N % 2 = 0, NoRemoves
  PROVE  Spec => []RangeComplete
<1>1. Init => DictInv
  BY DictInit
<1>2. DictInv /\ [Next]_vars => DictInv'
  BY DictStep
<1>3. DictInv => RangeComplete
  BY DictScans
<1> QED
  BY <1>1, <1>2, <1>3, PTL DEF Spec
=============================================================================
