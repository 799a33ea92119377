------------------------- MODULE LearnedCacheProofs -------------------------
(***************************************************************************)
(* Theorems about a memory node from its start on and the compute nodes    *)
(* that cache its models, for keys, models, leaves and nodes of any        *)
(* number.                                                                 *)
(***************************************************************************)
EXTENDS LearnedCache, SubModelProofs, PLRProofs

IsSeq(s) == \E S : s \in Seq(S)

LEMMA SeqFacts ==
  ASSUME NEW s, IsSeq(s)
  PROVE  /\ Len(s) \in Nat /\ DOMAIN s = 1 .. Len(s)
         /\ s = [i \in 1 .. Len(s) |-> s[i]]
<1>1. PICK S : s \in Seq(S)
  BY DEF IsSeq
<1> QED
  BY <1>1

\* Append and EXCEPT on a sequence
LEMMA AppendFacts ==
  ASSUME NEW s, IsSeq(s), NEW e
  PROVE  /\ IsSeq(Append(s, e))
         /\ Len(Append(s, e)) = Len(s) + 1
         /\ DOMAIN Append(s, e) = 1 .. Len(s) + 1
         /\ \A i \in 1 .. Len(s) : Append(s, e)[i] = s[i]
         /\ Append(s, e)[Len(s) + 1] = e
<1>1. PICK S : s \in Seq(S)
  BY DEF IsSeq
<1> DEFINE T == S \cup {e}
<1>2. s \in Seq(T) /\ e \in T
  <2>1. \A i \in 1 .. Len(s) : s[i] \in T
    BY <1>1
  <2> QED
    BY <1>1, <2>1, SeqLemma
<1> HIDE DEF T
<1>3. Append(s, e) \in Seq(T)
  BY <1>2
<1> QED
  BY <1>2, <1>3 DEF IsSeq

LEMMA ExceptFacts ==
  ASSUME NEW s, IsSeq(s), NEW j \in 1 .. Len(s), NEW e
  PROVE  LET t == [s EXCEPT ![j] = e]
         IN  /\ IsSeq(t) /\ Len(t) = Len(s) /\ DOMAIN t = DOMAIN s
             /\ t[j] = e /\ \A i \in 1 .. Len(s) : i # j => t[i] = s[i]
<1>1. PICK S : s \in Seq(S)
  BY DEF IsSeq
<1> DEFINE T == S \cup {e}
           t == [s EXCEPT ![j] = e]
<1>2. s \in Seq(T) /\ e \in T
  <2>1. \A i \in 1 .. Len(s) : s[i] \in T
    BY <1>1
  <2> QED
    BY <1>1, <2>1, SeqLemma
<1> HIDE DEF T
<1>3. t \in Seq(T) /\ Len(t) = Len(s)
  BY <1>2
<1>4. t[j] = e /\ (\A i \in 1 .. Len(s) : i # j => t[i] = s[i]) /\ DOMAIN t = DOMAIN s
  BY <1>1
<1> QED
  BY <1>3, <1>4 DEF IsSeq

\* Sequences put behind each other
LEMMA ConcatFacts ==
  ASSUME NEW S, NEW s \in Seq(S), NEW t \in Seq(S)
  PROVE  /\ s \o t \in Seq(S) /\ Len(s \o t) = Len(s) + Len(t)
         /\ Len(s) \in Nat /\ Len(t) \in Nat
         /\ \A i \in 1 .. Len(s) : (s \o t)[i] = s[i]
         /\ \A i \in 1 .. Len(t) : (s \o t)[Len(s) + i] = t[i]
OBVIOUS

LEMMA SubSeqFacts ==
  ASSUME NEW S, NEW s \in Seq(S), NEW m \in Nat \ {0}, NEW n \in Nat,
         m <= n + 1, n <= Len(s)
  PROVE  /\ SubSeq(s, m, n) \in Seq(S) /\ Len(SubSeq(s, m, n)) = n - m + 1
         /\ \A i \in 1 .. n - m + 1 : SubSeq(s, m, n)[i] = s[m + i - 1]
OBVIOUS
-----------------------------------------------------------------------------
\* Keys that increase from each to the next increase.
LEMMA Ascending ==
  ASSUME NEW s \in Seq(Nat), \A i \in 1 .. Len(s) : i > 1 => s[i - 1] < s[i]
  PROVE  \A i, j \in 1 .. Len(s) : i < j => s[i] < s[j]
<1>1. Len(s) \in Nat /\ \A i \in 1 .. Len(s) : s[i] \in Nat
  OBVIOUS
<1> DEFINE n == Len(s)
           f == [i \in 1 .. n |-> s[i]]
           S == {j \in Nat : j \in 1 .. n /\ \E i \in 1 .. n : i < j /\ ~ (f[i] < f[j])}
<1>2. n \in Nat /\ \A i \in 1 .. n : f[i] \in Nat /\ f[i] = s[i]
  BY <1>1
<1>3. \A i \in 1 .. n : i > 1 => f[i - 1] < f[i]
  BY <1>1, <1>2
<1> HIDE DEF n, f
<1>4. S = {}
  <2> SUFFICES ASSUME S # {} PROVE FALSE
    OBVIOUS
  <2>1. S \in SUBSET Nat
    OBVIOUS
  <2>2. PICK j \in S : \A k \in S : j <= k
    BY <2>1, LeastNumber
  <2>3. j \in Nat /\ j \in 1 .. n /\ \E i \in 1 .. n : i < j /\ ~ (f[i] < f[j])
    BY <2>2
  <2>4. PICK i \in 1 .. n : i < j /\ ~ (f[i] < f[j])
    BY <2>3
  <2>5. j - 1 \in Nat /\ j - 1 \in 1 .. n /\ j > 1 /\ ~ (j <= j - 1) /\ (i = j - 1 \/ i < j - 1)
    BY <1>2, <2>3, <2>4
  <2>6. j - 1 \notin S
    BY <2>2, <2>5
  <2>7. i = j - 1 \/ f[i] < f[j - 1]
    BY <2>5, <2>6
  <2>8. f[j - 1] < f[j] /\ f[i] \in Nat /\ f[j] \in Nat /\ f[j - 1] \in Nat
    BY <1>2, <1>3, <2>3, <2>5
  <2>9. \A x, y, z \in Nat : x < y /\ y < z => x < z
    OBVIOUS
  <2>10. i = j - 1 => f[i] = f[j - 1]
    OBVIOUS
  <2>11. f[i] < f[j]
    BY <2>7, <2>8, <2>9, <2>10
  <2> QED
    BY <2>4, <2>11
<1>5. \A i, j \in 1 .. n : i < j => f[i] < f[j]
  BY <1>2, <1>4
<1> QED
  BY <1>2, <1>5 DEF n

\* What a memory node is started with
LEMMA LoadFacts ==
  ASSUME load \in DOMAIN Loads
  PROVE  /\ keys \in Seq(Keys) /\ keys \in Seq(Nat) /\ Len(keys) \in Nat /\ Len(keys) > 0
         /\ \A i, j \in 1 .. Len(keys) : i < j => keys[i] < keys[j]
         /\ leaf_num \in Nat /\ Loads[load].leaf_region_size \in Nat
         /\ Loads[load].puts \subseteq Keys
         /\ Epsilon \in Nat \ {0} /\ Epsilon - 1 \in Nat
         /\ TrainedVal \in Vals /\ PutVal \in Vals
<1>1. /\ keys \in Seq(Keys) /\ Len(keys) > 0
      /\ \A i \in DOMAIN keys : i > 1 => keys[i - 1] < keys[i]
      /\ leaf_num \in Nat /\ Loads[load].leaf_region_size \in Nat
      /\ Loads[load].puts \subseteq Keys
      /\ TrainedVal \in Vals /\ PutVal \in Vals /\ Epsilon > 0
  BY TrainingAssumption DEF keys, leaf_num
<1>2. \A i \in 1 .. Len(keys) : keys[i] \in Nat
  <2>1. Keys \subseteq Nat
    BY DEF Keys
  <2> QED
    BY <1>1, <2>1, ElementLemma
<1>3. keys \in Seq(Nat)
  BY <1>1, <1>2, SeqLemma
<1>4. DOMAIN keys = 1 .. Len(keys) /\ Len(keys) \in Nat
  BY <1>1
<1>5. \A i, j \in 1 .. Len(keys) : i < j => keys[i] < keys[j]
  BY <1>1, <1>3, <1>4, Ascending
<1> QED
  BY <1>1, <1>3, <1>4, <1>5, EpsilonAssumption

\* The keys from the start of a segment on
Rest(from) == SubSeq(keys, from + 1, Len(keys))

LEMMA RestFacts ==
  ASSUME load \in DOMAIN Loads, NEW from \in 0 .. Len(keys)
  PROVE  /\ Increasing(Rest(from)) /\ Len(Rest(from)) = Len(keys) - from
         /\ \A i \in 1 .. Len(keys) - from : Rest(from)[i] = keys[from + i]
<1>1. keys \in Seq(Nat) /\ Len(keys) \in Nat
      /\ \A i, j \in 1 .. Len(keys) : i < j => keys[i] < keys[j]
  BY LoadFacts
<1> DEFINE r == Rest(from)
           f == from + 1
<1>2. /\ f \in Nat \ {0} /\ f <= Len(keys) + 1
      /\ Len(keys) - f + 1 = Len(keys) - from
      /\ \A i \in 1 .. Len(keys) - from : f + i - 1 = from + i
  BY <1>1
<1>3. /\ SubSeq(keys, f, Len(keys)) \in Seq(Nat)
      /\ Len(SubSeq(keys, f, Len(keys))) = Len(keys) - f + 1
      /\ \A i \in 1 .. Len(keys) - f + 1 : SubSeq(keys, f, Len(keys))[i] = keys[f + i - 1]
  <2> HIDE DEF f
  <2> QED
    BY <1>1, <1>2, SubSeqFacts
<1>4. /\ r \in Seq(Nat) /\ Len(r) = Len(keys) - from
      /\ \A i \in 1 .. Len(keys) - from : r[i] = keys[from + i]
  BY <1>2, <1>3, Zenon DEF Rest
<1> HIDE DEF r
<1>5. \A i, j \in 1 .. Len(r) : i < j => r[i] < r[j]
  <2> TAKE i, j \in 1 .. Len(r)
  <2> HAVE i < j
  <2>1. /\ from + i \in 1 .. Len(keys) /\ from + j \in 1 .. Len(keys)
        /\ from + i < from + j
    BY <1>1, <1>4
  <2> QED
    BY <1>1, <1>4, <2>1
<1> QED
  BY <1>4, <1>5 DEF Increasing, r
-----------------------------------------------------------------------------
Counted ==
  /\ load \in DOMAIN Loads
  /\ first \in 0 .. Len(keys) /\ taken \in first .. Len(keys)
  /\ used \in Nat

\* The segment in the making is a segment of the keys from `first` on.
SegmentInv ==
  first < Len(keys) => SegmentOf(Rest(first), Epsilon - 1, taken - first, opt)

\* The line of a segment predicts its keys as a submodel needs it.
LEMMA FreshTrained ==
  ASSUME Counted, SegmentInv, first < taken
  PROVE  /\ Trained(Fresh) /\ Fresh.capacity = taken - first
         /\ \A i \in 1 .. taken - first : Fresh.keys[i] = keys[first + i]
<1> DEFINE E == Epsilon - 1
           size == taken - first
           line == get_slope_intercept(opt)
           xs == Rest(first)
           f == first + 1
           ks == SubSeq(keys, f, taken)
<1>1. /\ keys \in Seq(Keys) /\ keys \in Seq(Nat) /\ Len(keys) \in Nat
      /\ \A i, j \in 1 .. Len(keys) : i < j => keys[i] < keys[j]
      /\ E \in Nat /\ Epsilon \in Nat /\ Epsilon = E + 1
  BY LoadFacts DEF Counted
<1>2. /\ first \in Nat /\ taken \in Nat /\ first < Len(keys) /\ taken <= Len(keys)
      /\ first \in 0 .. Len(keys) /\ size \in Nat \ {0} /\ size <= Len(keys) - first
      /\ f \in Nat \ {0} /\ f <= taken + 1 /\ taken - f + 1 = size
      /\ \A i \in 1 .. size : f + i - 1 = first + i /\ first + i \in 1 .. Len(keys)
  BY <1>1 DEF Counted
<1>3. /\ Increasing(xs) /\ \A i \in 1 .. Len(keys) - first : xs[i] = keys[first + i]
  BY <1>2, RestFacts DEF Counted
<1>4. SegmentOf(xs, E, size, opt)
  BY <1>2 DEF SegmentInv
<1> HIDE DEF size, xs, E, f
<1>5. WithinBound(xs, E, size, line)
  BY <1>1, <1>2, <1>3, <1>4, LineLemma
<1>6. /\ ks \in Seq(Keys) /\ Len(ks) = size
      /\ \A i \in 1 .. size : ks[i] = keys[first + i]
  <2>1. /\ SubSeq(keys, f, taken) \in Seq(Keys) /\ Len(SubSeq(keys, f, taken)) = taken - f + 1
        /\ \A i \in 1 .. taken - f + 1 : SubSeq(keys, f, taken)[i] = keys[f + i - 1]
    BY <1>1, <1>2, SubSeqFacts
  <2> QED
    BY <1>2, <2>1
<1>7. /\ Fresh.num = line.num /\ Fresh.den = line.den /\ Fresh.icn = line.icn
      /\ Fresh.icd = line.icd /\ Fresh.capacity = size /\ Fresh.keys = ks
  BY DEF Fresh, size, f
<1> HIDE DEF ks, line
<1>8. /\ line.num \in Nat /\ line.icn \in Int
      /\ line.den \in Nat \ {0} /\ line.icd \in Nat \ {0}
  BY <1>5 DEF WithinBound
<1>9. \A i \in 1 .. size :
        pos(Fresh, Fresh.keys[i]) - (i - 1) * Fresh.icd
          \in 1 - Epsilon * Fresh.icd .. (Epsilon - 1) * Fresh.icd
  <2> TAKE i \in 1 .. size
  <2> DEFINE k == i - 1
             a == line.num * xs[k + 1]
             d == line.icd
             q == (a \div line.den) * d
  <2>1. k \in 0 .. size - 1 /\ k \in Nat /\ k + 1 = i /\ xs[k + 1] = ks[i] /\ xs[k + 1] \in Nat
    <3>1. keys[first + i] \in Nat
      BY <1>1, <1>2
    <3>2. k \in 0 .. size - 1 /\ k \in Nat /\ k + 1 = i
      BY <1>2
    <3>3. i \in 1 .. Len(keys) - first
      BY <1>1, <1>2
    <3> QED
      BY <1>3, <1>6, <3>1, <3>2, <3>3
  <2>2. q + (line.icn - k * d) \in 1 - (E + 1) * d .. E * d
    BY <1>5, <2>1 DEF WithinBound
  <2>3. pos(Fresh, Fresh.keys[i]) = q + line.icn
    <3>1. a \in Nat
      BY <1>8, <2>1
    <3>2. Trunc(a, line.den) = a \div line.den
      BY <3>1 DEF Trunc
    <3>3. Fresh.num * Fresh.keys[i] = a
      BY <1>7, <2>1
    <3> QED
      BY <1>7, <3>2, <3>3 DEF pos
  <2>4. q \in Int /\ k * d \in Int
    <3>1. a \div line.den \in Int
      <4>1. a \in Nat
        BY <1>8, <2>1
      <4> QED
        BY <1>8, <4>1, Quotient
    <3> QED
      BY <1>8, <2>1, <3>1
  <2> HIDE DEF q, k
  <2>5. q + (line.icn - k * d) = (q + line.icn) - k * d
    BY <1>8, <2>4
  <2> QED
    BY <1>1, <1>7, <2>2, <2>3, <2>5 DEF k
<1>10. \A i \in 1 .. size : i > 1 => ks[i - 1] < ks[i]
  <2> TAKE i \in 1 .. size
  <2> HAVE i > 1
  <2> DEFINE k == i - 1
  <2>1. k \in 1 .. size /\ first + k < first + i
    BY <1>2
  <2>2. ks[k] = keys[first + k] /\ ks[i] = keys[first + i]
    BY <1>6, <2>1
  <2>3. first + k \in 1 .. Len(keys) /\ first + i \in 1 .. Len(keys)
    BY <1>2, <2>1
  <2> HIDE DEF k
  <2>4. keys[first + k] < keys[first + i]
    BY <1>1, <2>1, <2>3
  <2> QED
    BY <2>2, <2>4 DEF k
<1>11. Trained(Fresh)
  <2>1. {Fresh.den, Fresh.icd, Fresh.capacity} \subseteq Nat \ {0}
    BY <1>2, <1>7, <1>8
  <2>2. Fresh.num \in Nat /\ Fresh.icn \in Int
    BY <1>7, <1>8
  <2>3. Fresh.keys \in Seq(Keys) /\ Fresh.capacity = Len(Fresh.keys)
    BY <1>6, <1>7
  <2>4. \A i \in 1 .. Fresh.capacity : i > 1 => Fresh.keys[i - 1] < Fresh.keys[i]
    BY <1>7, <1>10
  <2> QED
    BY <1>7, <1>9, <2>1, <2>2, <2>3, <2>4 DEF Trained
<1> QED
  BY <1>6, <1>7, <1>11 DEF size
-----------------------------------------------------------------------------
Base(m, e) == m.lt.table[e].leaf_num
Syn(m, s) == m.lt.syn[s].leaf_num

\* A submodel of the index, whose leaves have their numbers from T
IsModel(m, T) ==
  /\ m = [num |-> m.num, den |-> m.den, icn |-> m.icn, icd |-> m.icd,
          capacity |-> m.capacity, keys |-> m.keys, lt |-> m.lt]
  /\ Trained(m) /\ Sound(m.lt)
  /\ DOMAIN m.lt.table = 0 .. TrainedLeaves(m) - 1
  /\ \A e \in DOMAIN m.lt.table : Base(m, e) \in T
  /\ \A s \in 1 .. m.lt.next - 1 : Syn(m, s) \in T

\* Every leaf number is in one table only, and there once.
OwnedBy(ms, own) ==
  \A j \in DOMAIN ms :
    /\ \A e \in DOMAIN ms[j].lt.table : own[Base(ms[j], e)] = <<j, 0, e>>
    /\ \A s \in 1 .. ms[j].lt.next - 1 : own[Syn(ms[j], s)] = <<j, 1, s>>

Owned(ms) == \E own : OwnedBy(ms, own)

Ordered(ms) ==
  \A i, j \in DOMAIN ms : i < j => last_key(ms[i]) < ms[j].keys[1]

\* The key that training put first into the leaf of entry e
FirstKey(m, e) == m.keys[e * N + 1]

\* Leaf v, as the leaf of entry e, takes this key, and none that is looked for left
\* of the entry only.
Headed(m, e, v) ==
  /\ v[0].key <= FirstKey(m, e)
  /\ v[0].key = FirstKey(m, e) \/ lo(m, v[0].key) >= e

\* A key is in a leaf of entry e, at place q or behind it.
InEntry(m, mem, e, q, k) ==
  \E p \in q .. Len(Chain(m.lt, e)) : k \in KeysOf(mem[LeafNum(m.lt, e, p)])

\* The leaves of a submodel take the keys they were trained with, and have them.
Stocked(m, mem) ==
  /\ \A e \in DOMAIN m.lt.table : Headed(m, e, mem[Base(m, e)])
  /\ \A i \in 1 .. m.capacity : InEntry(m, mem, (i - 1) \div N, 0, m.keys[i])

Fetched(u) == {n \in 0 .. leaf_num - 1 : n < u}

Loaded(mem) ==
  mem \in [0 .. leaf_num - 1 -> Leaves] /\ \A n \in 0 .. leaf_num - 1 : Sorted(mem[n])

ModelsOK(ms, mem, u) ==
  /\ IsSeq(ms) /\ Ordered(ms) /\ Owned(ms)
  /\ \A j \in DOMAIN ms : IsModel(ms[j], Fetched(u)) /\ Stocked(ms[j], mem)

\* The leaves and keys of a submodel
LEMMA ModelFacts ==
  ASSUME NEW m, NEW T, IsModel(m, T)
  PROVE  /\ TrainedLeaves(m) \in Nat /\ TrainedLeaves(m) > 0 /\ m.capacity \in Nat \ {0}
         /\ 0 \in DOMAIN m.lt.table /\ DOMAIN m.lt.table \subseteq Nat
         /\ \A i \in 1 .. m.capacity :
              /\ (i - 1) \div N \in DOMAIN m.lt.table /\ (i - 1) \div N \in Nat
              /\ m.keys[i] \in Keys /\ m.keys[i] \in Nat
         /\ \A i, j \in 1 .. m.capacity : i < j => m.keys[i] < m.keys[j]
         /\ last_key(m) = m.keys[m.capacity] /\ last_key(m) \in Keys /\ last_key(m) \in Nat
         /\ m.keys[1] <= last_key(m)
<1>1. Trained(m) /\ DOMAIN m.lt.table = 0 .. TrainedLeaves(m) - 1
  BY DEF IsModel
<1>2. /\ m.capacity \in Nat \ {0} /\ m.keys \in Seq(Keys) /\ m.capacity = Len(m.keys)
  BY <1>1 DEF Trained
<1>3. Keys \subseteq Nat
  BY DEF Keys
<1>4. \A i \in 1 .. m.capacity : m.keys[i] \in Keys /\ m.keys[i] \in Nat
  BY <1>2, <1>3, ElementLemma
<1>5. \A i, j \in 1 .. m.capacity : i < j => m.keys[i] < m.keys[j]
  BY <1>1, KeysIncrease
<1>6. \A i \in 1 .. m.capacity :
        (i - 1) \div N \in DOMAIN m.lt.table /\ (i - 1) \div N \in Nat
  <2> TAKE i \in 1 .. m.capacity
  <2>1. (i - 1) \div N \in lo(m, m.keys[i]) .. hi(m, m.keys[i])
    BY <1>1, TrainedWindow
  <2>2. /\ lo(m, m.keys[i]) \in Nat /\ hi(m, m.keys[i]) \in Nat
        /\ hi(m, m.keys[i]) <= TrainedLeaves(m) - 1 /\ TrainedLeaves(m) \in Nat
    BY <1>1, <1>4, WindowLemma
  <2> DEFINE e == (i - 1) \div N
             a == lo(m, m.keys[i])
             b == hi(m, m.keys[i])
             t == TrainedLeaves(m)
  <2> HIDE DEF e, a, b, t
  <2>3. e \in a .. b /\ a \in Nat /\ b \in Nat /\ b <= t - 1 /\ t \in Nat
    BY <2>1, <2>2 DEF e, a, b, t
  <2>4. e \in 0 .. t - 1 /\ e \in Nat
    BY <2>3
  <2> QED
    BY <1>1, <2>4 DEF e, t
<1>7. TrainedLeaves(m) \in Nat /\ TrainedLeaves(m) > 0
  <2>1. m.keys[1] \in Keys
    BY <1>2, <1>4
  <2> QED
    BY <1>1, <2>1, WindowLemma
<1>8. 1 \in 1 .. m.capacity /\ m.capacity \in 1 .. m.capacity /\ (m.capacity = 1 \/ 1 < m.capacity)
  <2> DEFINE c == m.capacity
  <2>1. c \in Nat \ {0}
    BY <1>2
  <2> HIDE DEF c
  <2>2. 1 \in 1 .. c /\ c \in 1 .. c /\ (c = 1 \/ 1 < c)
    BY <2>1
  <2> QED
    BY <2>2 DEF c
<1>9. m.keys[1] <= m.keys[m.capacity]
  BY <1>4, <1>5, <1>8
<1>10. 0 \in DOMAIN m.lt.table /\ DOMAIN m.lt.table \subseteq Nat
  <2> DEFINE t == TrainedLeaves(m)
  <2> HIDE DEF t
  <2>1. t \in Nat /\ t > 0
    BY <1>7 DEF t
  <2>2. 0 \in 0 .. t - 1 /\ 0 .. t - 1 \subseteq Nat
    BY <2>1
  <2> QED
    BY <1>1, <2>2 DEF t
<1> QED
  BY <1>2, <1>4, <1>5, <1>6, <1>7, <1>8, <1>9, <1>10 DEF last_key

\* The submodel that append_model makes: its leaves are the next ones.
LEMMA FreshModel ==
  ASSUME Counted, SegmentInv, first < taken, used + TrainedLeaves(Fresh) <= leaf_num
  PROVE  LET m == Fresh
             u == used + TrainedLeaves(m)
         IN  /\ IsModel(m, Fetched(u)) /\ m.lt.next = 1
             /\ u \in Nat /\ TrainedLeaves(m) \in Nat
             /\ DOMAIN m.lt.table = 0 .. TrainedLeaves(m) - 1
             /\ \A e \in DOMAIN m.lt.table : Base(m, e) = used + e /\ Len(Chain(m.lt, e)) = 0
             /\ m.lt = NewTable([l \in 1 .. TrainedLeaves(m) |-> used + l - 1])
             /\ last_key(m) = keys[taken] /\ m.keys[1] = keys[first + 1]
<1> DEFINE m == Fresh
           n == TrainedLeaves(m)
           s == [l \in 1 .. n |-> used + l - 1]
           u == used + n
<1>1. /\ Trained(m) /\ m.capacity = taken - first
      /\ \A i \in 1 .. taken - first : m.keys[i] = keys[first + i]
  BY FreshTrained
<1>2. /\ leaf_num \in Nat /\ used \in Nat /\ first \in Nat /\ taken \in Nat
      /\ taken - first \in Nat \ {0}
  <2>1. Len(keys) \in Nat /\ leaf_num \in Nat
    BY LoadFacts DEF Counted
  <2> QED
    BY <2>1 DEF Counted
<1>3. n \in Nat /\ n > 0
  <2>1. 1 \in 1 .. m.capacity
    BY <1>1, <1>2
  <2>2. m.keys[1] \in Keys
    <3>1. m.keys \in Seq(Keys) /\ m.capacity = Len(m.keys)
      BY <1>1 DEF Trained
    <3> QED
      BY <2>1, <3>1, ElementLemma
  <2> QED
    BY <1>1, <2>2, WindowLemma
<1>4. m.lt = NewTable(s)
  BY <1>1 DEF Fresh, TrainedLeaves
<1>5. m = [num |-> m.num, den |-> m.den, icn |-> m.icn, icd |-> m.icd,
           capacity |-> m.capacity, keys |-> m.keys, lt |-> m.lt]
  BY DEF Fresh
<1> HIDE DEF m, n
<1>6. /\ s \in Seq(Nat) /\ Len(s) = n /\ \A l \in 1 .. n : s[l] = used + l - 1
  <2>1. \A l \in 1 .. n : used + l - 1 \in Nat
    BY <1>2, <1>3
  <2> QED
    BY <1>3, <2>1
<1> HIDE DEF s
<1>7. /\ Sound(NewTable(s)) /\ NewTable(s).next = 1
      /\ DOMAIN NewTable(s).table = 0 .. n - 1
      /\ \A e \in DOMAIN NewTable(s).table :
           NewTable(s).table[e].leaf_num = s[e + 1] /\ Len(Chain(NewTable(s), e)) = 0
  BY <1>6, NewTableLemma
<1>8. \A e \in 0 .. n - 1 : e + 1 \in 1 .. n /\ s[e + 1] = used + e
                            /\ used + e \in Fetched(u)
  <2> TAKE e \in 0 .. n - 1
  <2>1. e \in Nat /\ e + 1 \in 1 .. n /\ used + (e + 1) - 1 = used + e
    BY <1>2, <1>3
  <2>2. s[e + 1] = used + (e + 1) - 1
    BY <1>6, <2>1
  <2>3. used + e < u /\ used + e \in 0 .. leaf_num - 1
    <3>1. used + n <= leaf_num
      BY DEF m, n
    <3> QED
      BY <1>2, <1>3, <3>1
  <2> QED
    BY <2>1, <2>2, <2>3 DEF Fetched
<1>9. \A e \in DOMAIN m.lt.table : Base(m, e) = used + e /\ Len(Chain(m.lt, e)) = 0
                                   /\ Base(m, e) \in Fetched(u)
  BY <1>4, <1>7, <1>8 DEF Base
<1>10. 1 .. m.lt.next - 1 = {}
  BY <1>4, <1>7
<1>11. IsModel(m, Fetched(u))
  <2>1. \A i \in 1 .. m.lt.next - 1 : Syn(m, i) \in Fetched(u)
    BY <1>10
  <2> QED
    BY <1>1, <1>4, <1>5, <1>7, <1>9, <2>1 DEF IsModel, n
<1>12. last_key(m) = keys[taken] /\ m.keys[1] = keys[first + 1]
  <2> DEFINE z == taken - first
  <2>1. z \in 1 .. taken - first /\ 1 \in 1 .. taken - first /\ first + z = taken
    BY <1>2
  <2>2. m.capacity = z
    BY <1>1
  <2> HIDE DEF z
  <2> QED
    BY <1>1, <2>1, <2>2 DEF last_key
<1>13. u \in Nat
  BY <1>2, <1>3
<1> QED
  BY <1>3, <1>4, <1>7, <1>9, <1>11, <1>12, <1>13 DEF m, n, s
-----------------------------------------------------------------------------
\* The first keys of the leaves divide the keys of a submodel as the leaves do.
LEMMA FirstKeyFacts ==
  ASSUME NEW m, NEW T, IsModel(m, T), NEW e \in DOMAIN m.lt.table
  PROVE  /\ e \in Nat /\ e * N \in Nat /\ e * N + 1 \in 1 .. m.capacity
         /\ FirstKey(m, e) \in Keys /\ FirstKey(m, e) \in Nat
         /\ \A i \in 1 .. m.capacity : (i - 1) \div N = e => FirstKey(m, e) <= m.keys[i]
         /\ \A i \in 1 .. m.capacity : (i - 1) \div N < e => m.keys[i] < FirstKey(m, e)
<1> DEFINE c == m.capacity
           n == TrainedLeaves(m)
           b == e * N
<1>1. /\ c \in Nat \ {0} /\ n \in Nat /\ e \in Nat /\ e <= n - 1
      /\ DOMAIN m.lt.table = 0 .. n - 1
      /\ \A i \in 1 .. c : m.keys[i] \in Keys /\ m.keys[i] \in Nat
      /\ \A i, j \in 1 .. c : i < j => m.keys[i] < m.keys[j]
  <2>1. /\ c \in Nat \ {0} /\ n \in Nat
        /\ \A i \in 1 .. c : m.keys[i] \in Keys /\ m.keys[i] \in Nat
        /\ \A i, j \in 1 .. c : i < j => m.keys[i] < m.keys[j]
    BY ModelFacts
  <2>2. DOMAIN m.lt.table = 0 .. n - 1
    BY DEF IsModel
  <2> HIDE DEF n
  <2>3. e \in Nat /\ e <= n - 1
    BY <2>1, <2>2
  <2> QED
    BY <2>1, <2>2, <2>3
<1>2. N \in Nat \ {0}
  BY LeafAssumption
<1>3. n = (c + N - 1) \div N
  BY DEF TrainedLeaves
<1> HIDE DEF c, n
<1>4. n \in Nat /\ n > 0 /\ c <= N * n /\ N * n < c + N
  BY <1>1, <1>3, LeavesLemma
<1>5. b \in Nat /\ b = N * e
  BY <1>1, <1>2
<1>6. N * e + N <= N * n
  BY <1>1, <1>2, ProductOrder
<1> HIDE DEF b
<1>7. b + 1 \in 1 .. c
  <2>1. N * n \in Nat
    BY <1>2, <1>4
  <2> QED
    BY <1>1, <1>2, <1>4, <1>5, <1>6, <2>1
<1>8. FirstKey(m, e) = m.keys[b + 1]
  BY DEF FirstKey, b
<1>9. ASSUME NEW i \in 1 .. c, (i - 1) \div N = e
      PROVE  m.keys[b + 1] <= m.keys[i]
  <2> DEFINE q == i - 1
  <2>1. q \in Nat /\ i \in Nat /\ q + 1 = i
    BY <1>1
  <2>2. N * (q \div N) <= q
    BY <1>2, <2>1, Quotient
  <2>3. q \div N = e
    BY <1>9
  <2> HIDE DEF q
  <2>4. b <= q
    BY <1>5, <2>2, <2>3
  <2>5. b + 1 = i \/ b + 1 < i
    BY <1>5, <2>1, <2>4
  <2>6. m.keys[b + 1] \in Nat /\ m.keys[i] \in Nat
    BY <1>1, <1>7
  <2>7. CASE b + 1 = i
    BY <2>6, <2>7
  <2>8. CASE b + 1 < i
    <3>1. m.keys[b + 1] < m.keys[i]
      BY <1>1, <1>7, <2>8
    <3> QED
      BY <2>6, <3>1
  <2> QED
    BY <2>5, <2>7, <2>8
<1>10. ASSUME NEW i \in 1 .. c, (i - 1) \div N < e
       PROVE  m.keys[i] < m.keys[b + 1]
  <2> DEFINE q == i - 1
             d == q \div N
  <2>1. q \in Nat /\ i \in Nat /\ q + 1 = i
    BY <1>1
  <2>2. d \in Nat /\ q < N * d + N
    BY <1>2, <2>1, Quotient
  <2>3. d < e
    BY <1>10
  <2> HIDE DEF q, d
  <2>4. N * d + N <= N * e
    BY <1>1, <1>2, <2>2, <2>3, ProductOrder
  <2>5. N * d \in Nat
    BY <1>2, <2>2
  <2>6. i < b + 1
    BY <1>2, <1>5, <2>1, <2>2, <2>4, <2>5
  <2> QED
    BY <1>1, <1>7, <2>6
<1> QED
  BY <1>1, <1>5, <1>7, <1>8, <1>9, <1>10 DEF c, b

\* A leaf as training fills it
LEMMA TrainedFill ==
  ASSUME NEW m, NEW T, IsModel(m, T), NEW v \in Vals
  PROVE  /\ \A e \in DOMAIN m.lt.table :
              /\ TrainedLeaf(m, e, v) \in Leaves /\ Sorted(TrainedLeaf(m, e, v))
              /\ TrainedLeaf(m, e, v)[0].key = FirstKey(m, e)
         /\ \A i \in 1 .. m.capacity :
              m.keys[i] \in KeysOf(TrainedLeaf(m, (i - 1) \div N, v))
<1> DEFINE c == m.capacity
<1>1. N \in Nat \ {0} /\ 0 \in Slots /\ Slots = 0 .. N - 1
  BY LeafAssumption DEF Slots
<1>2. /\ c \in Nat \ {0} /\ \A i \in 1 .. c : m.keys[i] \in Keys
      /\ \A i \in 1 .. c : (i - 1) \div N \in DOMAIN m.lt.table
  BY ModelFacts
<1> HIDE DEF c
<1>3. ASSUME NEW e \in DOMAIN m.lt.table
      PROVE  /\ TrainedLeaf(m, e, v) \in Leaves /\ Sorted(TrainedLeaf(m, e, v))
             /\ TrainedLeaf(m, e, v)[0].key = FirstKey(m, e)
  <2> DEFINE b == e * N
  <2>1. e \in Nat /\ b \in Nat /\ b + 1 \in 1 .. c
    BY FirstKeyFacts DEF c
  <2>2. TrainedLeaf(m, e, v)[0] = IF b + 0 < c THEN [key |-> m.keys[b + 0 + 1], val |-> v]
                                  ELSE Empty
    BY <1>1 DEF TrainedLeaf, c
  <2>3. FirstKey(m, e) = m.keys[b + 1]
    BY DEF FirstKey
  <2> HIDE DEF b
  <2>4. b + 0 < c /\ b + 0 + 1 = b + 1
    BY <1>2, <2>1
  <2>5. TrainedLeaf(m, e, v)[0] = [key |-> m.keys[b + 1], val |-> v]
    BY <2>2, <2>4
  <2> QED
    BY <2>1, <2>3, <2>5, TrainedLeafLemma DEF IsModel
<1>4. ASSUME NEW i \in 1 .. c
      PROVE  m.keys[i] \in KeysOf(TrainedLeaf(m, (i - 1) \div N, v))
  <2> DEFINE q == i - 1
             d == q \div N
             s == q - N * d
             t == TrainedLeaf(m, d, v)
  <2>1. q \in Nat /\ i \in Nat /\ q + 1 = i /\ q < c
    BY <1>2
  <2>2. d \in Nat /\ N * d <= q /\ q < N * d + N
    BY <1>1, <2>1, Quotient
  <2> HIDE DEF q, d
  <2>3. N * d \in Nat /\ d * N = N * d
    BY <1>1, <2>2
  <2>4. s \in Slots /\ d * N + s = q
    BY <1>1, <2>1, <2>2, <2>3
  <2> HIDE DEF s
  <2>5. t[s] = IF d * N + s < c THEN [key |-> m.keys[d * N + s + 1], val |-> v] ELSE Empty
    BY <2>4 DEF TrainedLeaf, c
  <2>6. t[s] = [key |-> m.keys[i], val |-> v]
    BY <2>1, <2>4, <2>5
  <2>7. m.keys[i] # InvalidKey
    BY <1>2, LeafAssumption DEF Keys
  <2>8. m.keys[i] \in KeysOf(t)
    BY <2>4, <2>6, <2>7 DEF KeysOf
  <2> QED
    BY <2>8 DEF d, q
<1> QED
  BY <1>3, <1>4 DEF c

\* A submodel in the leaves that training fills is stocked.
LEMMA TrainedStock ==
  ASSUME NEW m, NEW T, IsModel(m, T), NEW v \in Vals, NEW mem,
         \A e \in DOMAIN m.lt.table : mem[Base(m, e)] = TrainedLeaf(m, e, v)
  PROVE  Stocked(m, mem)
<1>1. ASSUME NEW e \in DOMAIN m.lt.table PROVE Headed(m, e, mem[Base(m, e)])
  <2>1. TrainedLeaf(m, e, v)[0].key = FirstKey(m, e) /\ FirstKey(m, e) \in Nat
    BY TrainedFill, FirstKeyFacts
  <2> QED
    BY <2>1 DEF Headed
<1>2. ASSUME NEW i \in 1 .. m.capacity PROVE InEntry(m, mem, (i - 1) \div N, 0, m.keys[i])
  <2> DEFINE e == (i - 1) \div N
  <2>1. e \in DOMAIN m.lt.table /\ m.keys[i] \in KeysOf(TrainedLeaf(m, e, v))
    BY ModelFacts, TrainedFill
  <2> HIDE DEF e
  <2>2. LeafNum(m.lt, e, 0) = Base(m, e) /\ 0 \in 0 .. Len(Chain(m.lt, e))
    <3>1. Len(Chain(m.lt, e)) \in Nat
      BY <2>1, ChainLemma DEF IsModel
    <3> QED
      BY <3>1 DEF LeafNum, Base
  <2>3. InEntry(m, mem, e, 0, m.keys[i])
    BY <2>1, <2>2 DEF InEntry
  <2> QED
    BY <2>3 DEF e
<1> QED
  BY <1>1, <1>2 DEF Stocked
-----------------------------------------------------------------------------
\* The leaves of an entry have numbers of the model.
LEMMA NumberLemma ==
  ASSUME NEW m, NEW T, IsModel(m, T), NEW e \in DOMAIN m.lt.table
  PROVE  /\ Len(Chain(m.lt, e)) \in Nat
         /\ LeafNum(m.lt, e, 0) = Base(m, e) /\ Base(m, e) \in T
         /\ \A p \in 0 .. Len(Chain(m.lt, e)) : LeafNum(m.lt, e, p) \in T
         /\ \A p \in 1 .. Len(Chain(m.lt, e)) :
              /\ Chain(m.lt, e)[p] \in 1 .. m.lt.next - 1
              /\ LeafNum(m.lt, e, p) = Syn(m, Chain(m.lt, e)[p])
<1>1. Sound(m.lt) /\ Base(m, e) \in T /\ \A s \in 1 .. m.lt.next - 1 : Syn(m, s) \in T
  BY DEF IsModel
<1>2. Len(Chain(m.lt, e)) \in Nat
  BY <1>1, ChainLemma
<1>3. LeafNum(m.lt, e, 0) = Base(m, e)
  BY DEF LeafNum, Base
<1>4. ASSUME NEW p \in 0 .. Len(Chain(m.lt, e)) PROVE LeafNum(m.lt, e, p) \in T
  <2>1. \/ p = 0 /\ LeafNum(m.lt, e, p) = m.lt.table[e].leaf_num
        \/ /\ p \in 1 .. Len(Chain(m.lt, e)) /\ Chain(m.lt, e)[p] \in 1 .. m.lt.next - 1
           /\ LeafNum(m.lt, e, p) = m.lt.syn[Chain(m.lt, e)[p]].leaf_num
    BY <1>1, LeafNumLemma
  <2> QED
    BY <1>1, <2>1 DEF Base, Syn
<1>5. ASSUME NEW p \in 1 .. Len(Chain(m.lt, e))
      PROVE  /\ Chain(m.lt, e)[p] \in 1 .. m.lt.next - 1
             /\ LeafNum(m.lt, e, p) = Syn(m, Chain(m.lt, e)[p])
  <2>1. Chain(m.lt, e)[p] \in 1 .. m.lt.next - 1
    BY <1>1, ChainLemma
  <2>2. p # 0
    BY <1>2
  <2> QED
    BY <2>1, <2>2 DEF LeafNum, Syn
<1> QED
  BY <1>1, <1>2, <1>3, <1>4, <1>5

\* A submodel stays stocked as long as its leaves stay as they are.
LEMMA StockedKept ==
  ASSUME NEW m, NEW T, IsModel(m, T), NEW mem, Stocked(m, mem), NEW new,
         \A n \in T : new[n] = mem[n]
  PROVE  Stocked(m, new)
<1>1. ASSUME NEW e \in DOMAIN m.lt.table PROVE Headed(m, e, new[Base(m, e)])
  <2>1. new[Base(m, e)] = mem[Base(m, e)]
    BY NumberLemma
  <2> QED
    BY <2>1 DEF Stocked
<1>2. ASSUME NEW i \in 1 .. m.capacity PROVE InEntry(m, new, (i - 1) \div N, 0, m.keys[i])
  <2> DEFINE e == (i - 1) \div N
  <2>1. e \in DOMAIN m.lt.table
    BY ModelFacts
  <2>2. InEntry(m, mem, e, 0, m.keys[i])
    BY DEF Stocked
  <2> HIDE DEF e
  <2>3. PICK p \in 0 .. Len(Chain(m.lt, e)) : m.keys[i] \in KeysOf(mem[LeafNum(m.lt, e, p)])
    BY <2>2 DEF InEntry
  <2>4. new[LeafNum(m.lt, e, p)] = mem[LeafNum(m.lt, e, p)]
    BY <2>1, <2>3, NumberLemma
  <2>5. InEntry(m, new, e, 0, m.keys[i])
    BY <2>3, <2>4 DEF InEntry
  <2> QED
    BY <2>5 DEF e
<1> QED
  BY <1>1, <1>2 DEF Stocked

LEMMA NumbersGrow ==
  ASSUME NEW m, NEW T, IsModel(m, T), NEW U, T \subseteq U
  PROVE  IsModel(m, U)
BY DEF IsModel

\* All the keys of the models are among the keys taken before.
Covered(ms, n) ==
  /\ ms = <<>> <=> n = 0
  /\ \A j \in DOMAIN ms : last_key(ms[j]) <= keys[n]

\* What append_model does to the submodels and their leaves
LEMMA AppendedModels ==
  ASSUME Counted, SegmentInv, first < taken, used + TrainedLeaves(Fresh) <= leaf_num,
         ModelsOK(models, leaves, used), Loaded(leaves), Covered(models, first)
  PROVE  LET m == Fresh
             u == used + TrainedLeaves(m)
             ms == Append(models, m)
             mem == [n \in DOMAIN leaves |->
                       IF n \in used .. used + TrainedLeaves(m) - 1
                         THEN TrainedLeaf(m, n - used, TrainedVal) ELSE leaves[n]]
         IN  /\ ModelsOK(ms, mem, u) /\ Loaded(mem) /\ u \in Nat
             /\ Covered(ms, taken)
<1> DEFINE m == Fresh
           t == TrainedLeaves(m)
           u == used + t
           ms == Append(models, m)
           z == Len(models) + 1
           mem == [n \in DOMAIN leaves |->
                     IF n \in used .. used + t - 1
                       THEN TrainedLeaf(m, n - used, TrainedVal) ELSE leaves[n]]
<1>1. /\ IsModel(m, Fetched(u)) /\ m.lt.next = 1 /\ u \in Nat /\ t \in Nat
      /\ DOMAIN m.lt.table = 0 .. t - 1
      /\ \A e \in DOMAIN m.lt.table : Base(m, e) = used + e /\ Len(Chain(m.lt, e)) = 0
      /\ last_key(m) = keys[taken] /\ m.keys[1] = keys[first + 1]
  BY FreshModel
<1>2. /\ leaf_num \in Nat /\ used \in Nat /\ first \in Nat /\ taken \in Nat /\ Len(keys) \in Nat
      /\ TrainedVal \in Vals /\ used + t <= leaf_num
      /\ \A i \in 1 .. Len(keys) : keys[i] \in Nat
      /\ \A i, j \in 1 .. Len(keys) : i < j => keys[i] < keys[j]
      /\ first + 1 \in 1 .. Len(keys) /\ taken \in 1 .. Len(keys)
      /\ first # 0 => first \in 1 .. Len(keys)
  <2>1. /\ Len(keys) \in Nat /\ leaf_num \in Nat /\ keys \in Seq(Nat) /\ TrainedVal \in Vals
        /\ \A i, j \in 1 .. Len(keys) : i < j => keys[i] < keys[j]
    BY LoadFacts DEF Counted
  <2>2. /\ used \in Nat /\ first \in Nat /\ taken \in Nat /\ first + 1 \in 1 .. Len(keys)
        /\ taken \in 1 .. Len(keys) /\ (first # 0 => first \in 1 .. Len(keys))
    BY <2>1 DEF Counted
  <2> QED
    BY <2>1, <2>2, ElementLemma
<1>3. /\ IsSeq(models) /\ Ordered(models) /\ Owned(models)
      /\ \A j \in DOMAIN models : IsModel(models[j], Fetched(used)) /\ Stocked(models[j], leaves)
  BY DEF ModelsOK
<1>4. /\ IsSeq(ms) /\ Len(models) \in Nat /\ DOMAIN models = 1 .. Len(models)
      /\ DOMAIN ms = 1 .. z /\ Len(ms) = z
      /\ (\A i \in 1 .. Len(models) : ms[i] = models[i]) /\ ms[z] = m
  BY <1>3, AppendFacts, SeqFacts
<1>5. /\ leaves \in [0 .. leaf_num - 1 -> Leaves]
      /\ \A n \in 0 .. leaf_num - 1 : Sorted(leaves[n])
  BY DEF Loaded
<1>6. \A n \in 0 .. leaf_num - 1 :
        mem[n] = IF n \in used .. used + t - 1 THEN TrainedLeaf(m, n - used, TrainedVal)
                 ELSE leaves[n]
  BY <1>5
<1>7. mem = [n \in 0 .. leaf_num - 1 |-> mem[n]]
  BY <1>5
<1> HIDE DEF m, mem, ms, t
<1>8. \A j \in DOMAIN ms : j \in Nat /\ (j = z \/ (j \in DOMAIN models /\ j < z /\ ms[j] = models[j]))
  BY <1>4
<1>9. \A n \in Fetched(used) : n \in Fetched(u) /\ mem[n] = leaves[n] /\ n < used /\ n \in Nat
  <2>1. \A n \in Fetched(used) : n \in 0 .. leaf_num - 1 /\ n < used /\ n \in Nat
    BY <1>2 DEF Fetched
  <2>2. \A n \in Fetched(used) : n \notin used .. used + t - 1 /\ n < u
    BY <1>1, <1>2, <2>1
  <2> QED
    BY <1>6, <2>1, <2>2 DEF Fetched
<1>10. \A e \in DOMAIN m.lt.table : mem[Base(m, e)] = TrainedLeaf(m, e, TrainedVal)
  <2> TAKE e \in DOMAIN m.lt.table
  <2>1. e \in 0 .. t - 1 /\ Base(m, e) = used + e
    BY <1>1
  <2>2. used + e \in used .. used + t - 1 /\ (used + e) - used = e /\ used + e \in 0 .. leaf_num - 1
    BY <1>1, <1>2, <2>1
  <2> QED
    BY <1>6, <2>1, <2>2
<1>11. Loaded(mem)
  <2>1. \A n \in 0 .. leaf_num - 1 : mem[n] \in Leaves /\ Sorted(mem[n])
    <3> TAKE n \in 0 .. leaf_num - 1
    <3>1. CASE n \in used .. used + t - 1
      <4>1. n - used \in DOMAIN m.lt.table
        BY <1>1, <1>2, <3>1
      <4> QED
        BY <1>1, <1>2, <1>6, <3>1, <4>1, TrainedFill
    <3>2. CASE n \notin used .. used + t - 1
      BY <1>5, <1>6, <3>2
    <3> QED
      BY <3>1, <3>2
  <2> QED
    BY <1>7, <2>1 DEF Loaded
<1>12. \A j \in DOMAIN ms : IsModel(ms[j], Fetched(u)) /\ Stocked(ms[j], mem)
  <2> TAKE j \in DOMAIN ms
  <2>1. CASE j = z
    BY <1>1, <1>2, <1>4, <1>10, <2>1, TrainedStock
  <2>2. CASE j \in DOMAIN models /\ ms[j] = models[j]
    <3>1. IsModel(models[j], Fetched(used)) /\ Stocked(models[j], leaves)
      BY <1>3, <2>2
    <3>2. Stocked(models[j], mem)
      BY <1>9, <3>1, StockedKept
    <3>3. IsModel(models[j], Fetched(u))
      BY <1>9, <3>1, NumbersGrow
    <3> QED
      BY <2>2, <3>2, <3>3
  <2> QED
    BY <1>8, <2>1, <2>2
<1>13. Ordered(ms)
  <2> SUFFICES ASSUME NEW i \in DOMAIN ms, NEW j \in DOMAIN ms, i < j
               PROVE  last_key(ms[i]) < ms[j].keys[1]
    BY DEF Ordered
  <2>1. i \in DOMAIN models /\ ms[i] = models[i]
    BY <1>4, <1>8
  <2>2. CASE j = z
    <3>1. last_key(models[i]) <= keys[first] /\ first # 0
      <4>1. models # <<>>
        BY <2>1
      <4> QED
        BY <2>1, <4>1 DEF Covered
    <3>2. keys[first] < keys[first + 1] /\ keys[first] \in Nat /\ keys[first + 1] \in Nat
      BY <1>2, <3>1
    <3>3. last_key(models[i]) \in Nat
      BY <1>3, <2>1, ModelFacts
    <3> QED
      BY <1>1, <1>4, <2>1, <2>2, <3>1, <3>2, <3>3
  <2>3. CASE j \in DOMAIN models /\ ms[j] = models[j]
    BY <1>3, <2>1, <2>3 DEF Ordered
  <2> QED
    BY <1>8, <2>2, <2>3
<1>14. Owned(ms)
  <2>1. PICK own : OwnedBy(models, own)
    BY <1>3 DEF Owned
  <2> DEFINE new == [n \in Nat |-> IF n < used THEN own[n] ELSE <<z, 0, n - used>>]
  <2>2. ASSUME NEW j \in DOMAIN ms
        PROVE  /\ \A e \in DOMAIN ms[j].lt.table : new[Base(ms[j], e)] = <<j, 0, e>>
               /\ \A s \in 1 .. ms[j].lt.next - 1 : new[Syn(ms[j], s)] = <<j, 1, s>>
    <3>1. CASE j = z
      <4>1. ms[j] = m
        BY <1>4, <3>1
      <4>2. \A e \in DOMAIN m.lt.table : new[Base(m, e)] = <<z, 0, e>>
        <5> TAKE e \in DOMAIN m.lt.table
        <5>1. Base(m, e) = used + e /\ e \in Nat
          BY <1>1
        <5>2. used + e \in Nat /\ ~ (used + e < used) /\ (used + e) - used = e
          BY <1>2, <5>1
        <5>3. new[used + e] = <<z, 0, e>>
          BY <5>2
        <5> QED
          BY <5>1, <5>3
      <4>3. 1 .. m.lt.next - 1 = {}
        BY <1>1
      <4> QED
        BY <3>1, <4>1, <4>2, <4>3
    <3>2. CASE j \in DOMAIN models /\ ms[j] = models[j]
      <4>1. IsModel(models[j], Fetched(used))
        BY <1>3, <3>2
      <4>2. \A n \in Fetched(used) : new[n] = own[n]
        BY <1>9
      <4> HIDE DEF new
      <4> QED
        BY <2>1, <3>2, <4>1, <4>2 DEF IsModel, OwnedBy
    <3> QED
      BY <1>8, <3>1, <3>2
  <2> HIDE DEF new
  <2> QED
    BY <2>2 DEF Owned, OwnedBy
<1>15. Covered(ms, taken)
  <2>1. ms # <<>> /\ taken # 0
    BY <1>2, <1>4
  <2>2. ASSUME NEW j \in DOMAIN ms PROVE last_key(ms[j]) <= keys[taken]
    <3>1. CASE j = z
      BY <1>1, <1>2, <1>4, <3>1
    <3>2. CASE j \in DOMAIN models /\ ms[j] = models[j]
      <4>1. last_key(models[j]) <= keys[first] /\ first # 0
        <5>1. models # <<>>
          BY <3>2
        <5> QED
          BY <3>2, <5>1 DEF Covered
      <4>2. keys[first] < keys[taken] /\ keys[first] \in Nat /\ keys[taken] \in Nat
        BY <1>2, <4>1
      <4>3. last_key(models[j]) \in Nat
        BY <1>3, <3>2, ModelFacts
      <4> QED
        BY <3>2, <4>1, <4>2, <4>3
    <3> QED
      BY <1>8, <3>1, <3>2
  <2> QED
    BY <2>1, <2>2 DEF Covered
<1>16. ModelsOK(ms, mem, u)
  BY <1>4, <1>12, <1>13, <1>14 DEF ModelsOK
<1> QED
  BY <1>1, <1>11, <1>15, <1>16 DEF m, t, ms, mem
-----------------------------------------------------------------------------
Numbered(ms, T) == Owned(ms) /\ \A j \in DOMAIN ms : IsModel(ms[j], T)

\* A leaf is in one place of the index only.
LEMMA PlaceOnce ==
  ASSUME NEW ms, NEW T, Numbered(ms, T),
         NEW i \in DOMAIN ms, NEW e \in DOMAIN ms[i].lt.table,
         NEW p \in 0 .. Len(Chain(ms[i].lt, e)),
         NEW j \in DOMAIN ms, NEW d \in DOMAIN ms[j].lt.table,
         NEW q \in 0 .. Len(Chain(ms[j].lt, d)),
         LeafNum(ms[i].lt, e, p) = LeafNum(ms[j].lt, d, q)
  PROVE  i = j /\ e = d /\ p = q
<1>0. Owned(ms) /\ \A x \in DOMAIN ms : IsModel(ms[x], T)
  BY DEF Numbered
<1>1. PICK own : OwnedBy(ms, own)
  BY <1>0 DEF Owned
<1>2. ASSUME NEW x \in DOMAIN ms, NEW f \in DOMAIN ms[x].lt.table,
             NEW r \in 0 .. Len(Chain(ms[x].lt, f))
      PROVE  \/ r = 0 /\ own[LeafNum(ms[x].lt, f, r)] = <<x, 0, f>>
             \/ /\ r \in 1 .. Len(Chain(ms[x].lt, f))
                /\ own[LeafNum(ms[x].lt, f, r)] = <<x, 1, Chain(ms[x].lt, f)[r]>>
  <2>1. /\ Len(Chain(ms[x].lt, f)) \in Nat /\ LeafNum(ms[x].lt, f, 0) = Base(ms[x], f)
        /\ \A y \in 1 .. Len(Chain(ms[x].lt, f)) :
              /\ Chain(ms[x].lt, f)[y] \in 1 .. ms[x].lt.next - 1
              /\ LeafNum(ms[x].lt, f, y) = Syn(ms[x], Chain(ms[x].lt, f)[y])
    BY <1>0, NumberLemma
  <2>2. r = 0 \/ r \in 1 .. Len(Chain(ms[x].lt, f))
    BY <2>1
  <2>3. CASE r = 0
    BY <1>1, <2>1, <2>3 DEF OwnedBy
  <2>4. CASE r \in 1 .. Len(Chain(ms[x].lt, f))
    BY <1>1, <2>1, <2>4 DEF OwnedBy
  <2> QED
    BY <2>2, <2>3, <2>4
<1> DEFINE n == LeafNum(ms[i].lt, e, p)
           s == Chain(ms[i].lt, e)[p]
           t == Chain(ms[j].lt, d)[q]
<1>3. \/ p = 0 /\ own[n] = <<i, 0, e>>
      \/ p \in 1 .. Len(Chain(ms[i].lt, e)) /\ own[n] = <<i, 1, s>>
  BY <1>2
<1>4. \/ q = 0 /\ own[n] = <<j, 0, d>>
      \/ q \in 1 .. Len(Chain(ms[j].lt, d)) /\ own[n] = <<j, 1, t>>
  BY <1>2
<1>5. \/ p = 0 /\ q = 0 /\ i = j /\ e = d
      \/ /\ p \in 1 .. Len(Chain(ms[i].lt, e)) /\ q \in 1 .. Len(Chain(ms[j].lt, d))
         /\ i = j /\ s = t
  <2> HIDE DEF n, s, t
  <2> QED
    BY <1>3, <1>4
<1>6. Sound(ms[i].lt)
  BY <1>0 DEF IsModel
<1>7. CASE /\ p \in 1 .. Len(Chain(ms[i].lt, e)) /\ q \in 1 .. Len(Chain(ms[j].lt, d))
           /\ i = j /\ s = t
  <2>1. e = d
    BY <1>6, <1>7 DEF Sound, Apart
  <2> QED
    BY <1>6, <1>7, <2>1, ChainLemma
<1> QED
  BY <1>5, <1>7

\* Place: it is a place of the chain.
LEMMA PlaceRange ==
  ASSUME NEW lt, Sound(lt), NEW i \in DOMAIN lt.table, NEW mem, NEW k
  PROVE  Place(lt, mem, k, i) \in 0 .. Len(Chain(lt, i))
<1> DEFINE c == Chain(lt, i)
           here == {p \in DOMAIN c : insertHere(mem[lt.syn[c[p]].leaf_num], k)}
<1>1. c \in Seq(1 .. lt.next - 1) /\ Len(c) \in Nat
  BY ChainLemma
<1>2. here \in SUBSET (1 .. Len(c))
  BY <1>1
<1>3. Place(lt, mem, k, i) = IF here = {} THEN 0 ELSE Greatest(here)
  BY DEF Place
<1> HIDE DEF c, here
<1>4. CASE here = {}
  BY <1>1, <1>3, <1>4 DEF c
<1>5. CASE here # {}
  <2>1. here \in SUBSET Int /\ Len(c) \in Int /\ \A y \in here : y <= Len(c)
    BY <1>1, <1>2
  <2>2. Greatest(here) \in here
    BY <1>5, <2>1, GreatestLemma
  <2>3. Greatest(here) \in 0 .. Len(c)
    <3> DEFINE g == Greatest(here)
               n == Len(c)
    <3> HIDE DEF g, n
    <3>1. n \in Nat /\ g \in 1 .. n
      BY <1>1, <1>2, <2>2 DEF g, n
    <3>2. g \in 0 .. n
      BY <3>1
    <3> QED
      BY <3>2 DEF g, n
  <2> QED
    BY <1>3, <1>5, <2>3 DEF c
<1> QED
  BY <1>4, <1>5

\* What insert_synonym may do with leaf l at the place it found for key k: the key goes
\* into it, or the keys and the new one are shared out between it and a new leaf.
Written(l, w, k, v) ==
  /\ w \in Leaves /\ Sorted(w) /\ k \notin KeysOf(l)
  /\ Content(w) = Content(l) \cup {[key |-> k, val |-> v]}

Split(l, low, high, k, v) ==
  /\ low \in Leaves /\ Sorted(low) /\ KeysOf(low) # {}
  /\ high \in Leaves /\ Sorted(high)
  /\ \A j \in KeysOf(low), h \in KeysOf(high) : j < h
  /\ Content(low) \cup Content(high) = Content(l) \cup {[key |-> k, val |-> v]}

InsertEffect(lt, mem, u, k, v, a, b) ==
  LET r == Insert(lt, mem, u, k, v, a, b)
      e == Entry(lt, mem, k, a, b)
      p == Place(lt, mem, k, e)
      cur == LeafNum(lt, e, p)
  IN  /\ e \in a .. b /\ e \in DOMAIN lt.table /\ p \in 0 .. Len(Chain(lt, e))
      /\ e = a \/ insertHere(mem[lt.table[e].leaf_num], k)
      /\ \/ r.lt = lt /\ r.mem = mem /\ r.used = u
         \/ \E w : /\ Written(mem[cur], w, k, v)
                   /\ r.lt = lt /\ r.mem = [mem EXCEPT ![cur] = w] /\ r.used = u
         \/ \E low, high :
              /\ Split(mem[cur], low, high, k, v) /\ NeedsLeaf(lt, mem, k, a, b)
              /\ r.lt = synonym_emplace_back(lt, e, p, u)
              /\ r.mem = [mem EXCEPT ![cur] = low, ![u] = high] /\ r.used = u + 1

LEMMA InsertOutcome ==
  ASSUME N % 2 = 0, NEW lt, Sound(lt), NEW mem, NEW u \in Nat,
         NEW k \in Keys, NEW v \in Vals,
         NEW a \in Nat, NEW b \in Nat, a <= b, a .. b \subseteq DOMAIN lt.table,
         \A e \in DOMAIN lt.table : \A p \in 0 .. Len(Chain(lt, e)) :
           /\ LeafNum(lt, e, p) \in DOMAIN mem
           /\ mem[LeafNum(lt, e, p)] \in Leaves /\ Sorted(mem[LeafNum(lt, e, p)])
  PROVE  InsertEffect(lt, mem, u, k, v, a, b)
<1> DEFINE r == Insert(lt, mem, u, k, v, a, b)
           e == Entry(lt, mem, k, a, b)
           p == Place(lt, mem, k, e)
           cur == LeafNum(lt, e, p)
           l == mem[cur]
           refused == [lt |-> lt, mem |-> mem, used |-> u, ok |-> FALSE]
<1>1. e \in a .. b /\ (e = a \/ insertHere(mem[lt.table[e].leaf_num], k))
  BY EntryLemma
<1>2. e \in DOMAIN lt.table
  BY <1>1
<1>3. r = IF Full(lt) \/ contain(l, k) THEN refused
          ELSE IF ~ isfull(l)
            THEN [lt |-> lt, used |-> u, ok |-> TRUE,
                  mem |-> [mem EXCEPT ![cur] = insert_not_full(@, k, v)]]
            ELSE [lt |-> synonym_emplace_back(lt, e, p, u),
                  used |-> u + 1, ok |-> TRUE,
                  mem |-> IF insertHere(upper_half(l), k)
                            THEN [mem EXCEPT ![cur] = lower_half(l),
                                    ![u] = insert_not_full(upper_half(l), k, v)]
                            ELSE [mem EXCEPT ![cur] = insert_not_full(lower_half(l), k, v),
                                    ![u] = upper_half(l)]]
  BY DEF Insert
<1>4. NeedsLeaf(lt, mem, k, a, b) <=> ~ Full(lt) /\ ~ contain(l, k) /\ isfull(l)
  BY DEF NeedsLeaf
<1> HIDE DEF e
<1>5. p \in 0 .. Len(Chain(lt, e))
  BY <1>2, PlaceRange
<1> HIDE DEF p
<1>6. cur \in DOMAIN mem /\ l \in Leaves /\ Sorted(l)
  BY <1>2, <1>5
<1>7. contain(l, k) <=> k \in KeysOf(l)
  BY <1>6, FoundLemma
<1> HIDE DEF cur, r
<1>8. CASE Full(lt) \/ contain(l, k)
  <2>1. r.lt = lt /\ r.mem = mem /\ r.used = u
    BY <1>3, <1>8
  <2> QED
    BY <1>1, <1>2, <1>5, <2>1 DEF r, e, p, cur, InsertEffect
<1>9. CASE ~ (Full(lt) \/ contain(l, k)) /\ ~ isfull(l)
  <2> DEFINE w == insert_not_full(l, k, v)
  <2>1. Written(l, w, k, v)
    BY <1>6, <1>7, <1>9, InsertLemma DEF Written
  <2>2. r.lt = lt /\ r.mem = [mem EXCEPT ![cur] = w] /\ r.used = u
    BY <1>3, <1>6, <1>9
  <2> HIDE DEF w
  <2> QED
    BY <1>1, <1>2, <1>5, <2>1, <2>2 DEF r, e, p, cur, InsertEffect
<1>10. CASE ~ (Full(lt) \/ contain(l, k)) /\ isfull(l)
  <2> DEFINE low == IF insertHere(upper_half(l), k) THEN lower_half(l)
                    ELSE insert_not_full(lower_half(l), k, v)
             high == IF insertHere(upper_half(l), k) THEN insert_not_full(upper_half(l), k, v)
                     ELSE upper_half(l)
  <2>1. Split(l, low, high, k, v)
    BY <1>6, <1>7, <1>10, SplitLemma DEF Split
  <2>2. /\ r.lt = synonym_emplace_back(lt, e, p, u)
        /\ r.mem = [mem EXCEPT ![cur] = low, ![u] = high] /\ r.used = u + 1
    BY <1>3, <1>10
  <2> HIDE DEF low, high
  <2> QED
    BY <1>1, <1>2, <1>4, <1>5, <1>10, <2>1, <2>2 DEF r, e, p, cur, InsertEffect
<1> QED
  BY <1>8, <1>9, <1>10
-----------------------------------------------------------------------------
\* The place of a leaf
LEMMA OnlyPlace ==
  ASSUME NEW ms, NEW T, Numbered(ms, T),
         NEW j \in DOMAIN ms, NEW e \in DOMAIN ms[j].lt.table,
         NEW p \in 0 .. Len(Chain(ms[j].lt, e))
  PROVE  \A i \in DOMAIN ms : \A d \in DOMAIN ms[i].lt.table :
           \A q \in 0 .. Len(Chain(ms[i].lt, d)) :
             LeafNum(ms[i].lt, d, q) = LeafNum(ms[j].lt, e, p) => i = j /\ d = e /\ q = p
<1> SUFFICES ASSUME NEW i \in DOMAIN ms, NEW d \in DOMAIN ms[i].lt.table,
                    NEW q \in 0 .. Len(Chain(ms[i].lt, d)),
                    LeafNum(ms[i].lt, d, q) = LeafNum(ms[j].lt, e, p)
             PROVE  i = j /\ d = e /\ q = p
  OBVIOUS
<1> QED
  BY PlaceOnce

\* The leaf at one place of the index is written.
LEMMA LeafReplaced ==
  ASSUME NEW ms, NEW mem, NEW u, ModelsOK(ms, mem, u), Loaded(mem),
         NEW j \in DOMAIN ms, NEW e \in DOMAIN ms[j].lt.table,
         NEW p \in 0 .. Len(Chain(ms[j].lt, e)), NEW w \in Leaves, Sorted(w),
         p = 0 => Headed(ms[j], e, w),
         \A i \in 1 .. ms[j].capacity : (i - 1) \div N = e =>
           InEntry(ms[j], [mem EXCEPT ![LeafNum(ms[j].lt, e, p)] = w], e, 0, ms[j].keys[i])
  PROVE  LET new == [mem EXCEPT ![LeafNum(ms[j].lt, e, p)] = w]
         IN  ModelsOK(ms, new, u) /\ Loaded(new)
<1> DEFINE cur == LeafNum(ms[j].lt, e, p)
           new == [mem EXCEPT ![cur] = w]
           T == Fetched(u)
<1>1. /\ IsSeq(ms) /\ Ordered(ms) /\ Owned(ms)
      /\ \A i \in DOMAIN ms : IsModel(ms[i], T) /\ Stocked(ms[i], mem)
  BY DEF ModelsOK
<1>2. /\ mem \in [0 .. leaf_num - 1 -> Leaves]
      /\ \A n \in 0 .. leaf_num - 1 : Sorted(mem[n])
  BY DEF Loaded
<1>3. cur \in T /\ T \subseteq 0 .. leaf_num - 1
  BY <1>1, NumberLemma DEF Fetched
<1>4. new[cur] = w /\ \A n : n # cur => new[n] = mem[n]
  BY <1>2, <1>3
<1>5. Loaded(new)
  <2>1. new \in [0 .. leaf_num - 1 -> Leaves]
    BY <1>2
  <2>2. \A n \in 0 .. leaf_num - 1 : Sorted(new[n])
    BY <1>2, <1>4
  <2> QED
    BY <2>1, <2>2 DEF Loaded
<1>6. ASSUME NEW i \in DOMAIN ms, NEW d \in DOMAIN ms[i].lt.table,
             NEW q \in 0 .. Len(Chain(ms[i].lt, d))
      PROVE  \/ i = j /\ d = e /\ p = q
             \/ new[LeafNum(ms[i].lt, d, q)] = mem[LeafNum(ms[i].lt, d, q)]
  <2>1. CASE LeafNum(ms[i].lt, d, q) = LeafNum(ms[j].lt, e, p)
    <3>1. \A x \in DOMAIN ms : IsModel(ms[x], T)
      BY <1>1
    <3> HIDE DEF T, new
    <3>3. Numbered(ms, T)
      BY <1>1, <3>1 DEF Numbered
    <3>2. i = j /\ d = e /\ q = p
      BY <2>1, <3>3, OnlyPlace
    <3> QED
      BY <3>2
  <2>2. CASE LeafNum(ms[i].lt, d, q) # LeafNum(ms[j].lt, e, p)
    BY <1>4, <2>2
  <2> QED
    BY <2>1, <2>2
<1> HIDE DEF new
<1>7. ASSUME NEW i \in DOMAIN ms PROVE Stocked(ms[i], new)
  <2>0. IsModel(ms[i], T) /\ Stocked(ms[i], mem)
    BY <1>1
  <2>1. ASSUME NEW d \in DOMAIN ms[i].lt.table PROVE Headed(ms[i], d, new[Base(ms[i], d)])
    <3>1. /\ LeafNum(ms[i].lt, d, 0) = Base(ms[i], d) /\ 0 \in 0 .. Len(Chain(ms[i].lt, d))
      BY <2>0, NumberLemma
    <3>2. CASE i = j /\ d = e /\ p = 0
      BY <1>4, <3>1, <3>2
    <3>3. CASE new[Base(ms[i], d)] = mem[Base(ms[i], d)]
      BY <2>0, <3>3 DEF Stocked
    <3> QED
      BY <1>6, <3>1, <3>2, <3>3
  <2>2. ASSUME NEW x \in 1 .. ms[i].capacity
        PROVE  InEntry(ms[i], new, (x - 1) \div N, 0, ms[i].keys[x])
    <3> DEFINE d == (x - 1) \div N
    <3>1. d \in DOMAIN ms[i].lt.table
      BY <2>0, ModelFacts
    <3>2. InEntry(ms[i], mem, d, 0, ms[i].keys[x])
      BY <2>0 DEF Stocked
    <3>3. CASE i = j /\ d = e
      BY <3>3 DEF new
    <3>4. CASE ~ (i = j /\ d = e)
      <4> HIDE DEF d
      <4>1. PICK q \in 0 .. Len(Chain(ms[i].lt, d)) :
              ms[i].keys[x] \in KeysOf(mem[LeafNum(ms[i].lt, d, q)])
        BY <3>2 DEF InEntry
      <4>2. new[LeafNum(ms[i].lt, d, q)] = mem[LeafNum(ms[i].lt, d, q)]
        BY <1>6, <3>1, <3>4
      <4>3. InEntry(ms[i], new, d, 0, ms[i].keys[x])
        BY <4>1, <4>2 DEF InEntry
      <4> QED
        BY <4>3 DEF d
    <3> QED
      BY <3>3, <3>4
  <2> QED
    BY <2>1, <2>2 DEF Stocked
<1>8. ModelsOK(ms, new, u)
  BY <1>1, <1>7 DEF ModelsOK
<1> QED
  BY <1>5, <1>8 DEF new

\* The first key of a leaf sinks to a key only that is looked for from its entry on.
LEMMA HeadKept ==
  ASSUME NEW m, NEW e, NEW l, NEW w, NEW k, Headed(m, e, l),
         FirstKey(m, e) \in Nat, l[0].key \in Nat, k \in Nat,
         \/ w[0].key = l[0].key
         \/ w[0].key = k /\ k < l[0].key /\ lo(m, k) >= e
  PROVE  Headed(m, e, w)
<1>1. CASE w[0].key = l[0].key
  BY <1>1 DEF Headed
<1>2. CASE w[0].key = k /\ k < l[0].key /\ lo(m, k) >= e
  <2>1. k <= FirstKey(m, e)
    BY <1>2 DEF Headed
  <2> QED
    BY <1>2, <2>1 DEF Headed
<1> QED
  BY <1>1, <1>2

LEMMA WrittenHead ==
  ASSUME NEW l \in Leaves, Sorted(l), NEW w, NEW k \in Keys, NEW v, Written(l, w, k, v)
  PROVE  /\ w[0].key = l[0].key \/ (w[0].key = k /\ k < l[0].key)
         /\ \A j \in KeysOf(l) : j \in KeysOf(w)
<1>1. w \in Leaves /\ Sorted(w) /\ \A j : j \in KeysOf(w) <=> j \in KeysOf(l) \/ j = k
  BY KeysAdded DEF Written
<1>2. KeysOf(w) # {}
  BY <1>1
<1>3. \A j \in KeysOf(l) : w[0].key <= j
  BY <1>1, FirstKeyLemma
<1> QED
  BY <1>1, <1>2, <1>3, FirstKeyAdded

LEMMA SplitHead ==
  ASSUME NEW l \in Leaves, Sorted(l), NEW low, NEW high, NEW k \in Keys, NEW v,
         Split(l, low, high, k, v)
  PROVE  /\ low[0].key = l[0].key \/ (low[0].key = k /\ k < l[0].key)
         /\ \A j \in KeysOf(l) : j \in KeysOf(low) \/ j \in KeysOf(high)
<1>1. /\ low \in Leaves /\ Sorted(low) /\ KeysOf(low) # {} /\ high \in Leaves
      /\ \A j \in KeysOf(low), h \in KeysOf(high) : j < h
  BY DEF Split
<1>2. \A j : j \in KeysOf(low) \cup KeysOf(high) <=> j \in KeysOf(l) \/ j = k
  <2>1. Shared(l, low, high, k, v)
    BY DEF Split, Shared
  <2> QED
    BY <1>1, <2>1, KeysShared
<1>3. ~ isEmpty(low) /\ low[0].key \in KeysOf(low) /\ \A j \in KeysOf(low) : low[0].key <= j
  BY <1>1, FirstKeyLemma
<1>4. KeysOf(low) \subseteq Keys /\ KeysOf(high) \subseteq Keys /\ Keys \subseteq Nat
  BY <1>1, KeysLemma DEF Keys
<1>5. \A j \in KeysOf(l) : low[0].key <= j
  <2> TAKE j \in KeysOf(l)
  <2>1. j \in KeysOf(low) \/ j \in KeysOf(high)
    BY <1>2
  <2>2. CASE j \in KeysOf(low)
    BY <1>3, <2>2
  <2>3. CASE j \in KeysOf(high)
    <3>1. low[0].key < j /\ low[0].key \in Nat /\ j \in Nat
      BY <1>1, <1>3, <1>4, <2>3
    <3> QED
      BY <3>1
  <2> QED
    BY <2>1, <2>2, <2>3
<1>6. \A j \in KeysOf(low) : j \in KeysOf(l) \/ j = k
  BY <1>2
<1> QED
  BY <1>1, <1>2, <1>5, <1>6, FirstKeyAdded
-----------------------------------------------------------------------------
\* A submodel whose table changed: its leaves stay where they were, and new ones come.
LEMMA ReplacedModel ==
  ASSUME NEW m, NEW T, IsModel(m, T), NEW lt
  PROVE  LET n == [m EXCEPT !.lt = lt]
         IN  /\ n = [num |-> m.num, den |-> m.den, icn |-> m.icn, icd |-> m.icd,
                     capacity |-> m.capacity, keys |-> m.keys, lt |-> lt]
             /\ n.num = m.num /\ n.den = m.den /\ n.icn = m.icn /\ n.icd = m.icd
             /\ n.capacity = m.capacity /\ n.keys = m.keys /\ n.lt = lt
             /\ Trained(n) /\ TrainedLeaves(n) = TrainedLeaves(m)
             /\ last_key(n) = last_key(m)
             /\ \A e : FirstKey(n, e) = FirstKey(m, e)
             /\ \A k : pos(n, k) = pos(m, k) /\ lo(n, k) = lo(m, k) /\ hi(n, k) = hi(m, k)
             /\ \A e, v : Headed(n, e, v) <=> Headed(m, e, v)
<1> DEFINE n == [m EXCEPT !.lt = lt]
<1>1. /\ Trained(m)
      /\ m = [num |-> m.num, den |-> m.den, icn |-> m.icn, icd |-> m.icd,
              capacity |-> m.capacity, keys |-> m.keys, lt |-> m.lt]
  BY DEF IsModel
<1>2. n = [num |-> m.num, den |-> m.den, icn |-> m.icn, icd |-> m.icd,
           capacity |-> m.capacity, keys |-> m.keys, lt |-> lt]
  BY <1>1
<1> HIDE DEF n
<1>3. /\ n.num = m.num /\ n.den = m.den /\ n.icn = m.icn /\ n.icd = m.icd
      /\ n.capacity = m.capacity /\ n.keys = m.keys /\ n.lt = lt
  BY <1>2
<1>4. \A k : pos(n, k) = pos(m, k)
  BY <1>3 DEF pos
<1>5. \A k : Above(n, k) = Above(m, k) /\ Below(n, k) = Below(m, k)
  <2> TAKE k
  <2>1. pos(n, k) = pos(m, k)
    BY <1>4
  <2>2. Above(n, k) = Above(m, k)
    BY <1>3, <2>1 DEF Above
  <2> QED
    BY <1>3, <2>1, <2>2 DEF Below
<1>6. \A k : lo(n, k) = lo(m, k) /\ hi(n, k) = hi(m, k)
  BY <1>3, <1>5 DEF lo, hi
<1>7. Trained(n)
  <2>1. \A i : pos(n, n.keys[i]) = pos(m, m.keys[i])
    BY <1>3, <1>4
  <2> QED
    BY <1>1, <1>3, <2>1 DEF Trained
<1>8. TrainedLeaves(n) = TrainedLeaves(m) /\ last_key(n) = last_key(m)
      /\ \A e : FirstKey(n, e) = FirstKey(m, e)
  BY <1>3 DEF TrainedLeaves, last_key, FirstKey
<1>9. \A e, v : Headed(n, e, v) <=> Headed(m, e, v)
  BY <1>6, <1>8 DEF Headed
<1> QED
  BY <1>2, <1>3, <1>4, <1>6, <1>7, <1>8, <1>9 DEF n

\* Only the synonym leaves of the submodels change.
SameBases(ms, ns) ==
  /\ IsSeq(ns) /\ DOMAIN ns = DOMAIN ms
  /\ \A i \in DOMAIN ms :
       /\ ns[i] = [ms[i] EXCEPT !.lt = ns[i].lt]
       /\ DOMAIN ns[i].lt.table = DOMAIN ms[i].lt.table
       /\ \A e \in DOMAIN ms[i].lt.table : Base(ns[i], e) = Base(ms[i], e)

\* No entry loses a key, nor do its synonym leaves.
KeysStay(ms, mem, ns, new) ==
  \A i \in DOMAIN ms : \A e \in DOMAIN ms[i].lt.table : \A q \in {0, 1} : \A k :
    InEntry(ms[i], mem, e, q, k) => InEntry(ns[i], new, e, q, k)

LEMMA SameModels ==
  ASSUME NEW ms, NEW mem, NEW u, ModelsOK(ms, mem, u)
  PROVE  SameBases(ms, ms) /\ \A j \in DOMAIN ms : [ms EXCEPT ![j].lt = ms[j].lt] = ms
<1>1. \A i \in DOMAIN ms : [ms[i] EXCEPT !.lt = ms[i].lt] = ms[i]
  <2> TAKE i \in DOMAIN ms
  <2>1. ms[i] = [num |-> ms[i].num, den |-> ms[i].den, icn |-> ms[i].icn, icd |-> ms[i].icd,
                 capacity |-> ms[i].capacity, keys |-> ms[i].keys, lt |-> ms[i].lt]
    BY DEF ModelsOK, IsModel
  <2> DEFINE m == ms[i]
  <2> HIDE DEF m
  <2>2. m = [num |-> m.num, den |-> m.den, icn |-> m.icn, icd |-> m.icd,
             capacity |-> m.capacity, keys |-> m.keys, lt |-> m.lt]
    BY <2>1 DEF m
  <2>3. [m EXCEPT !.lt = m.lt] = m
    BY <2>2
  <2> QED
    BY <2>3 DEF m
<1>2. IsSeq(ms) /\ ms = [i \in DOMAIN ms |-> ms[i]]
  BY SeqFacts DEF ModelsOK
<1>3. \A j \in DOMAIN ms : [ms EXCEPT ![j].lt = ms[j].lt] = ms
  <2> TAKE j \in DOMAIN ms
  <2>1. [ms[j] EXCEPT !.lt = ms[j].lt] = ms[j]
    BY <1>1
  <2>2. [ms EXCEPT ![j] = ms[j]] = ms
    BY <1>2
  <2> QED
    BY <2>1, <2>2
<1> QED
  BY <1>1, <1>2, <1>3 DEF SameBases

\* insert_not_full in a leaf of the index
LEMMA WrittenModels ==
  ASSUME NEW ms, NEW mem, NEW u, ModelsOK(ms, mem, u), Loaded(mem),
         NEW j \in DOMAIN ms, NEW e \in DOMAIN ms[j].lt.table,
         NEW p \in 0 .. Len(Chain(ms[j].lt, e)), NEW w, NEW k \in Keys, NEW v,
         Written(mem[LeafNum(ms[j].lt, e, p)], w, k, v),
         p # 0 \/ k >= mem[Base(ms[j], e)][0].key \/ lo(ms[j], k) >= e
  PROVE  LET new == [mem EXCEPT ![LeafNum(ms[j].lt, e, p)] = w]
         IN  ModelsOK(ms, new, u) /\ Loaded(new) /\ KeysStay(ms, mem, ms, new)
<1> DEFINE m == ms[j]
           cur == LeafNum(m.lt, e, p)
           l == mem[cur]
           new == [mem EXCEPT ![cur] = w]
           T == Fetched(u)
<1>1. IsModel(m, T) /\ Stocked(m, mem)
  BY DEF ModelsOK
<1>2. cur \in T /\ T \subseteq 0 .. leaf_num - 1 /\ LeafNum(m.lt, e, 0) = Base(m, e)
  BY <1>1, NumberLemma DEF Fetched
<1>3. l \in Leaves /\ Sorted(l) /\ mem \in [0 .. leaf_num - 1 -> Leaves]
  BY <1>2 DEF Loaded
<1>4. /\ w[0].key = l[0].key \/ (w[0].key = k /\ k < l[0].key)
      /\ \A x \in KeysOf(l) : x \in KeysOf(w)
      /\ w \in Leaves /\ Sorted(w)
  <2>1. w \in Leaves /\ Sorted(w)
    BY DEF Written
  <2> HIDE DEF l
  <2>2. Written(l, w, k, v)
    BY DEF l
  <2> QED
    BY <1>3, <2>1, <2>2, WrittenHead
<1>5. new[cur] = w /\ \A n : n # cur => new[n] = mem[n]
  BY <1>2, <1>3
<1>6. \A n, x : x \in KeysOf(mem[n]) => x \in KeysOf(new[n])
  <2> TAKE n, x
  <2>1. CASE n = cur
    BY <1>4, <1>5, <2>1
  <2>2. CASE n # cur
    BY <1>5, <2>2
  <2> QED
    BY <2>1, <2>2
<1> HIDE DEF new
<1>7. KeysStay(ms, mem, ms, new)
  BY <1>6 DEF KeysStay, InEntry
<1>8. p = 0 => Headed(m, e, w)
  <2> SUFFICES ASSUME p = 0 PROVE Headed(m, e, w)
    OBVIOUS
  <2>1. cur = Base(m, e)
    BY <1>2
  <2>2. Headed(m, e, l)
    BY <1>1, <2>1 DEF Stocked
  <2>3. FirstKey(m, e) \in Nat
    BY <1>1, FirstKeyFacts
  <2>4. l[0].key \in 0 .. InvalidKey /\ InvalidKey \in Nat
    BY <1>3, SlotLemma
  <2>5. k \in Nat /\ l[0].key \in Nat
    BY <2>4 DEF Keys
  <2>6. k >= l[0].key \/ lo(m, k) >= e
    BY <2>1
  <2> HIDE DEF l, m
  <2>7. w[0].key = l[0].key \/ (w[0].key = k /\ k < l[0].key /\ lo(m, k) >= e)
    BY <1>4, <2>5, <2>6
  <2> QED
    BY <2>2, <2>3, <2>5, <2>7, HeadKept
<1>9. \A i \in 1 .. m.capacity : (i - 1) \div N = e => InEntry(m, new, e, 0, m.keys[i])
  <2> TAKE i \in 1 .. m.capacity
  <2> HAVE (i - 1) \div N = e
  <2>1. InEntry(m, mem, e, 0, m.keys[i])
    BY <1>1 DEF Stocked
  <2> QED
    BY <1>7, <2>1 DEF KeysStay
<1>10. ModelsOK(ms, new, u) /\ Loaded(new)
  BY <1>4, <1>8, <1>9, LeafReplaced DEF new
<1> QED
  BY <1>7, <1>10 DEF new

\* The leaf numbers of a table that grows
LEMMA EmplaceNumbers ==
  ASSUME NEW lt, Sound(lt), NEW i \in DOMAIN lt.table,
         NEW p \in 0 .. Len(Chain(lt, i)), NEW n \in Nat
  PROVE  LET new == synonym_emplace_back(lt, i, p, n)
         IN  /\ \A d \in DOMAIN lt.table : new.table[d].leaf_num = lt.table[d].leaf_num
             /\ \A s \in 1 .. lt.next - 1 : new.syn[s].leaf_num = lt.syn[s].leaf_num
             /\ new.syn[lt.next].leaf_num = n
<1> DEFINE new == synonym_emplace_back(lt, i, p, n)
           prev == Chain(lt, i)[p]
           after == IF p = 0 THEN lt.table[i].synonym_leaf ELSE lt.syn[prev].synonym_leaf
<1>1. /\ \A d \in DOMAIN lt.table : new.table[d].leaf_num = lt.table[d].leaf_num
      /\ \A s \in 1 .. lt.next - 1 : new.syn[s].leaf_num = lt.syn[s].leaf_num
      /\ new.syn[lt.next] = TE(n, after)
  BY EmplaceFields
<1> HIDE DEF new, after
<1>2. new.syn[lt.next].leaf_num = n
  BY <1>1 DEF TE
<1> QED
  BY <1>1, <1>2 DEF new

\* A full leaf of the index is split: half of it goes to leaf number u, which comes
\* behind it in the chain.
LEMMA SplitModels ==
  ASSUME NEW ms, NEW mem, NEW u \in Nat, ModelsOK(ms, mem, u), Loaded(mem),
         u < leaf_num, leaf_num \in Nat,
         NEW j \in DOMAIN ms, NEW e \in DOMAIN ms[j].lt.table,
         NEW p \in 0 .. Len(Chain(ms[j].lt, e)), NEW low, NEW high, NEW k \in Keys, NEW v,
         Split(mem[LeafNum(ms[j].lt, e, p)], low, high, k, v),
         p # 0 \/ k >= mem[Base(ms[j], e)][0].key \/ lo(ms[j], k) >= e
  PROVE  LET new == [mem EXCEPT ![LeafNum(ms[j].lt, e, p)] = low, ![u] = high]
             ns == [ms EXCEPT ![j].lt = synonym_emplace_back(ms[j].lt, e, p, u)]
         IN  /\ ModelsOK(ns, new, u + 1) /\ Loaded(new)
             /\ KeysStay(ms, mem, ns, new) /\ SameBases(ms, ns)
<1> DEFINE m == ms[j]
           lt == m.lt
           c == Len(Chain(lt, e))
           nlt == synonym_emplace_back(lt, e, p, u)
           n == [m EXCEPT !.lt = nlt]
           ns == [ms EXCEPT ![j].lt = nlt]
           cur == LeafNum(lt, e, p)
           l == mem[cur]
           new == [mem EXCEPT ![cur] = low, ![u] = high]
           T == Fetched(u)
           U == Fetched(u + 1)
<1>1. /\ IsSeq(ms) /\ Ordered(ms) /\ Owned(ms)
      /\ \A i \in DOMAIN ms : IsModel(ms[i], T) /\ Stocked(ms[i], mem)
      /\ DOMAIN ms = 1 .. Len(ms)
  BY SeqFacts DEF ModelsOK
<1>2. Sound(lt) /\ c \in Nat
  BY <1>1, NumberLemma DEF IsModel
<1>3. /\ T \subseteq U /\ u \in U /\ u \notin T /\ U \subseteq 0 .. leaf_num - 1
      /\ \A x \in T : x \in Nat /\ x < u
  BY DEF Fetched
<1>4. cur \in T /\ LeafNum(lt, e, 0) = Base(m, e)
  BY <1>1, NumberLemma
<1>5. l \in Leaves /\ Sorted(l) /\ mem \in [0 .. leaf_num - 1 -> Leaves]
  BY <1>3, <1>4 DEF Loaded
<1>6. /\ low[0].key = l[0].key \/ (low[0].key = k /\ k < l[0].key)
      /\ \A x \in KeysOf(l) : x \in KeysOf(low) \/ x \in KeysOf(high)
      /\ low \in Leaves /\ Sorted(low) /\ high \in Leaves /\ Sorted(high)
  <2>1. low \in Leaves /\ Sorted(low) /\ high \in Leaves /\ Sorted(high)
    BY DEF Split
  <2> HIDE DEF l
  <2>2. Split(l, low, high, k, v)
    BY DEF l
  <2> QED
    BY <1>5, <2>1, <2>2, SplitHead
<1>7. new[cur] = low /\ new[u] = high /\ \A x : x # cur /\ x # u => new[x] = mem[x]
  <2> DEFINE one == [mem EXCEPT ![cur] = low]
  <2>1. cur # u /\ cur \in 0 .. leaf_num - 1 /\ u \in 0 .. leaf_num - 1
    BY <1>3, <1>4
  <2> HIDE DEF cur
  <2>2. one[cur] = low /\ DOMAIN one = 0 .. leaf_num - 1 /\ \A x : x # cur => one[x] = mem[x]
    BY <1>5, <2>1
  <2>3. new = [one EXCEPT ![u] = high]
    BY DEF cur
  <2> HIDE DEF one, new
  <2>4. new[u] = high /\ \A x : x # u => new[x] = one[x]
    BY <2>1, <2>2, <2>3
  <2> QED
    BY <2>1, <2>2, <2>4
<1>8. /\ Sound(nlt) /\ nlt.next = lt.next + 1 /\ DOMAIN nlt.table = DOMAIN lt.table
      /\ \A d \in DOMAIN lt.table : d # e =>
           /\ Len(Chain(nlt, d)) = Len(Chain(lt, d))
           /\ \A q \in 0 .. Len(Chain(lt, d)) : LeafNum(nlt, d, q) = LeafNum(lt, d, q)
      /\ Len(Chain(nlt, e)) = c + 1
      /\ \A q \in 0 .. c + 1 :
           LeafNum(nlt, e, q) = IF q <= p THEN LeafNum(lt, e, q)
                                ELSE IF q = p + 1 THEN u ELSE LeafNum(lt, e, q - 1)
  BY <1>2, EmplaceLeaves
<1>9. /\ \A d \in DOMAIN lt.table : nlt.table[d].leaf_num = lt.table[d].leaf_num
      /\ \A s \in 1 .. lt.next - 1 : nlt.syn[s].leaf_num = lt.syn[s].leaf_num
      /\ nlt.syn[lt.next].leaf_num = u
      /\ lt.next \in Nat \ {0}
  <2>1. lt.next \in Nat \ {0}
    BY <1>2 DEF Sound, Linked
  <2>2. /\ \A d \in DOMAIN lt.table : nlt.table[d].leaf_num = lt.table[d].leaf_num
        /\ \A s \in 1 .. lt.next - 1 : nlt.syn[s].leaf_num = lt.syn[s].leaf_num
        /\ nlt.syn[lt.next].leaf_num = u
    BY <1>2, EmplaceNumbers
  <2> QED
    BY <2>1, <2>2
<1>10. /\ ns[j] = n /\ \A i \in DOMAIN ms : i # j => ns[i] = ms[i]
       /\ IsSeq(ns) /\ DOMAIN ns = DOMAIN ms
  <2>1. ns = [ms EXCEPT ![j] = n]
    OBVIOUS
  <2> HIDE DEF n, ns
  <2>2. /\ ns[j] = n /\ (\A i \in 1 .. Len(ms) : i # j => ns[i] = ms[i])
        /\ IsSeq(ns) /\ DOMAIN ns = DOMAIN ms
    BY <1>1, <2>1, ExceptFacts
  <2> QED
    BY <1>1, <2>2
<1>11. IsModel(m, T)
  BY <1>1
<1>12. /\ n = [num |-> m.num, den |-> m.den, icn |-> m.icn, icd |-> m.icd,
               capacity |-> m.capacity, keys |-> m.keys, lt |-> nlt]
       /\ n.num = m.num /\ n.den = m.den /\ n.icn = m.icn /\ n.icd = m.icd
       /\ n.capacity = m.capacity /\ n.keys = m.keys /\ n.lt = nlt
       /\ Trained(n) /\ TrainedLeaves(n) = TrainedLeaves(m)
       /\ last_key(n) = last_key(m)
       /\ \A d, x : Headed(n, d, x) <=> Headed(m, d, x)
  BY <1>11, ReplacedModel
<1> HIDE DEF n, nlt, ns, new, c, cur
<1>13. \A d \in DOMAIN lt.table : Base(n, d) = Base(m, d)
  BY <1>9, <1>12 DEF Base
<1>14. /\ \A s \in 1 .. n.lt.next - 1 : s = lt.next \/ s \in 1 .. lt.next - 1
       /\ \A s \in 1 .. lt.next - 1 : Syn(n, s) = Syn(m, s)
       /\ Syn(n, lt.next) = u
  <2>1. n.lt = nlt /\ nlt.next = lt.next + 1 /\ lt.next \in Nat \ {0}
    BY <1>8, <1>9, <1>12, Zenon
  <2>2. \A s \in 1 .. n.lt.next - 1 : s = lt.next \/ s \in 1 .. lt.next - 1
    BY <2>1
  <2>3. Syn(n, lt.next) = u /\ \A s \in 1 .. lt.next - 1 : Syn(n, s) = Syn(m, s)
    BY <1>9, <2>1, Zenon DEF Syn
  <2> QED
    BY <2>2, <2>3
<1>15. IsModel(n, U)
  <2>1. DOMAIN n.lt.table = DOMAIN lt.table /\ DOMAIN lt.table = 0 .. TrainedLeaves(m) - 1
    BY <1>8, <1>11, <1>12 DEF IsModel
  <2>2. \A d \in DOMAIN n.lt.table : Base(n, d) \in U
    <3>1. \A d \in DOMAIN lt.table : Base(m, d) \in T
      BY <1>11 DEF IsModel
    <3> QED
      BY <1>3, <1>13, <2>1, <3>1
  <2>3. \A s \in 1 .. n.lt.next - 1 : Syn(n, s) \in U
    <3>1. \A s \in 1 .. lt.next - 1 : Syn(m, s) \in T
      BY <1>11 DEF IsModel
    <3> QED
      BY <1>3, <1>14, <3>1
  <2>4. DOMAIN n.lt.table = 0 .. TrainedLeaves(n) - 1
    BY <1>12, <2>1
  <2>5. n = [num |-> n.num, den |-> n.den, icn |-> n.icn, icd |-> n.icd,
             capacity |-> n.capacity, keys |-> n.keys, lt |-> n.lt]
    BY <1>12
  <2> QED
    BY <1>8, <1>12, <2>2, <2>3, <2>4, <2>5 DEF IsModel
<1>16. Loaded(new)
  <2>1. new \in [0 .. leaf_num - 1 -> Leaves]
    BY <1>5, <1>6 DEF new
  <2>2. \A x \in 0 .. leaf_num - 1 : Sorted(new[x])
    BY <1>6, <1>7 DEF Loaded
  <2> QED
    BY <2>1, <2>2 DEF Loaded
<1>17. ASSUME NEW i \in DOMAIN ms, NEW d \in DOMAIN ms[i].lt.table,
              NEW q \in 0 .. Len(Chain(ms[i].lt, d)), ~ (i = j /\ d = e /\ q = p)
       PROVE  new[LeafNum(ms[i].lt, d, q)] = mem[LeafNum(ms[i].lt, d, q)]
  <2>1. \A x \in DOMAIN ms : IsModel(ms[x], T)
    BY <1>1
  <2>2. Owned(ms)
    BY <1>1
  <2>3. LeafNum(ms[i].lt, d, q) \in T
    BY <2>1, NumberLemma
  <2>4. LeafNum(ms[i].lt, d, q) # LeafNum(ms[j].lt, e, p)
    <3>1. LeafNum(ms[i].lt, d, q) = LeafNum(ms[j].lt, e, p) => i = j /\ d = e /\ q = p
      <4> HIDE DEF T
      <4>1. Numbered(ms, T)
        BY <2>1, <2>2 DEF Numbered
      <4> QED
        BY <4>1, OnlyPlace
    <3> QED
      BY <1>17, <3>1
  <2> QED
    BY <1>3, <1>7, <2>3, <2>4 DEF cur
<1>18. ASSUME NEW d \in DOMAIN lt.table, NEW q \in {0, 1}, NEW x, InEntry(m, mem, d, q, x)
       PROVE  InEntry(n, new, d, q, x)
  <2>1. PICK r \in q .. Len(Chain(lt, d)) : x \in KeysOf(mem[LeafNum(lt, d, r)])
    BY <1>18 DEF InEntry
  <2>2. r \in Nat /\ r >= q /\ r \in 0 .. Len(Chain(lt, d)) /\ Len(Chain(lt, d)) \in Nat
    <3>1. Len(Chain(lt, d)) \in Nat
      BY <1>11, NumberLemma
    <3> QED
      BY <2>1, <3>1
  <2> HIDE DEF m, lt
  <2>3. CASE d # e
    <3>1. /\ Len(Chain(nlt, d)) = Len(Chain(lt, d))
          /\ LeafNum(nlt, d, r) = LeafNum(lt, d, r)
      BY <1>8, <2>2, <2>3
    <3>2. new[LeafNum(lt, d, r)] = mem[LeafNum(lt, d, r)]
      BY <1>17, <2>2, <2>3 DEF m, lt
    <3> QED
      BY <1>12, <2>1, <3>1, <3>2 DEF InEntry
  <2>4. CASE d = e
    <3>0. c = Len(Chain(lt, e)) /\ p \in Nat /\ c \in Nat
      BY <1>2 DEF c, lt, m
    <3>a. \A y \in q .. c + 1 : x \in KeysOf(new[LeafNum(nlt, e, y)]) => InEntry(n, new, d, q, x)
      BY <1>8, <1>12, <2>4 DEF InEntry
    <3>1. CASE r # p
      <4>1. new[LeafNum(lt, e, r)] = mem[LeafNum(lt, e, r)]
        BY <1>17, <2>2, <2>4, <3>1 DEF m, lt
      <4>2. CASE r < p
        <5>1. r \in 0 .. c + 1 /\ r \in q .. c + 1 /\ r <= p
          BY <2>2, <2>4, <3>0, <4>2
        <5>2. LeafNum(nlt, e, r) = LeafNum(lt, e, r)
          BY <1>8, <5>1
        <5> QED
          BY <2>1, <2>4, <3>a, <4>1, <5>1, <5>2
      <4>3. CASE r > p
        <5> DEFINE y == r + 1
        <5>1. y \in 0 .. c + 1 /\ y \in q .. c + 1 /\ ~ (y <= p) /\ y # p + 1 /\ y - 1 = r
          BY <2>2, <2>4, <3>0, <4>3
        <5> HIDE DEF y
        <5>2. LeafNum(nlt, e, y) = LeafNum(lt, e, y - 1)
          BY <1>8, <5>1
        <5> QED
          BY <2>1, <2>4, <3>a, <4>1, <5>1, <5>2
      <4> QED
        BY <2>2, <3>0, <3>1, <4>2, <4>3
    <3>2. CASE r = p
      <4>1. x \in KeysOf(l)
        BY <2>1, <2>4, <3>2 DEF l, cur, lt, m
      <4>2. CASE x \in KeysOf(low)
        <5>1. p \in 0 .. c + 1 /\ p \in q .. c + 1 /\ p <= p
          BY <2>2, <2>4, <3>0, <3>2
        <5>2. LeafNum(nlt, e, p) = LeafNum(lt, e, p)
          BY <1>8, <5>1
        <5>3. LeafNum(lt, e, p) = cur
          BY DEF cur, lt, m
        <5> QED
          BY <1>7, <3>a, <4>2, <5>1, <5>2, <5>3
      <4>3. CASE x \in KeysOf(high)
        <5> DEFINE y == p + 1
        <5>1. y \in 0 .. c + 1 /\ y \in q .. c + 1 /\ ~ (y <= p) /\ y = p + 1
          BY <2>2, <2>4, <3>0, <3>2
        <5> HIDE DEF y
        <5>2. LeafNum(nlt, e, y) = u
          BY <1>8, <5>1
        <5> QED
          BY <1>7, <3>a, <4>3, <5>1, <5>2
      <4> QED
        BY <1>6, <4>1, <4>2, <4>3
    <3> QED
      BY <3>1, <3>2
  <2> QED
    BY <2>3, <2>4
<1>19. KeysStay(ms, mem, ns, new)
  <2> SUFFICES ASSUME NEW i \in DOMAIN ms, NEW d \in DOMAIN ms[i].lt.table,
                      NEW q \in {0, 1}, NEW x, InEntry(ms[i], mem, d, q, x)
               PROVE  InEntry(ns[i], new, d, q, x)
    BY DEF KeysStay
  <2>1. CASE i = j
    BY <1>10, <1>18, <2>1
  <2>2. CASE i # j
    <3>1. ns[i] = ms[i]
      BY <1>10, <2>2
    <3>2. PICK r \in q .. Len(Chain(ms[i].lt, d)) : x \in KeysOf(mem[LeafNum(ms[i].lt, d, r)])
      BY DEF InEntry
    <3>3. r \in 0 .. Len(Chain(ms[i].lt, d))
      <4>1. Len(Chain(ms[i].lt, d)) \in Nat
        BY <1>1, NumberLemma
      <4> QED
        BY <3>2, <4>1
    <3>4. new[LeafNum(ms[i].lt, d, r)] = mem[LeafNum(ms[i].lt, d, r)]
      BY <1>17, <2>2, <3>3
    <3> QED
      BY <3>1, <3>2, <3>4 DEF InEntry
  <2> QED
    BY <2>1, <2>2
<1>20. \A d \in DOMAIN lt.table : Headed(m, d, new[Base(m, d)])
  <2> TAKE d \in DOMAIN lt.table
  <2>1. Headed(m, d, mem[Base(m, d)])
    BY <1>1 DEF Stocked
  <2>2. LeafNum(lt, d, 0) = Base(m, d) /\ 0 \in 0 .. Len(Chain(lt, d))
    BY <1>11, NumberLemma
  <2>3. CASE d = e /\ p = 0
    <3>1. cur = Base(m, e)
      BY <1>4, <2>3 DEF cur
    <3>2. FirstKey(m, e) \in Nat
      BY <1>11, FirstKeyFacts
    <3>3. l[0].key \in 0 .. InvalidKey /\ InvalidKey \in Nat
      BY <1>5, SlotLemma
    <3>4. k \in Nat /\ l[0].key \in Nat
      BY <3>3 DEF Keys
    <3>5. k >= l[0].key \/ lo(m, k) >= e
      BY <2>3, <3>1
    <3>6. Headed(m, e, l)
      BY <2>1, <2>3, <3>1
    <3> HIDE DEF l, m
    <3>7. low[0].key = l[0].key \/ (low[0].key = k /\ k < l[0].key /\ lo(m, k) >= e)
      BY <1>6, <3>4, <3>5
    <3>8. Headed(m, e, low)
      BY <3>2, <3>4, <3>6, <3>7, HeadKept
    <3> QED
      BY <1>7, <2>3, <3>1, <3>8
  <2>4. CASE ~ (d = e /\ p = 0)
    <3>1. new[LeafNum(lt, d, 0)] = mem[LeafNum(lt, d, 0)]
      BY <1>17, <2>2, <2>4
    <3> QED
      BY <2>1, <2>2, <3>1
  <2> QED
    BY <2>3, <2>4
<1>21. \A i \in DOMAIN ms : IsModel(ns[i], U) /\ Stocked(ns[i], new)
  <2> TAKE i \in DOMAIN ms
  <2>1. CASE i = j
    <3>1. Stocked(n, new)
      <4>1. \A d \in DOMAIN n.lt.table : Headed(n, d, new[Base(n, d)])
        BY <1>8, <1>12, <1>13, <1>20
      <4>2. ASSUME NEW x \in 1 .. m.capacity
            PROVE  InEntry(n, new, (x - 1) \div N, 0, m.keys[x])
        <5>1. (x - 1) \div N \in DOMAIN lt.table
          BY <1>11, ModelFacts
        <5>2. InEntry(m, mem, (x - 1) \div N, 0, m.keys[x])
          BY <1>1 DEF Stocked
        <5> QED
          BY <1>18, <5>1, <5>2
      <4> QED
        BY <1>12, <4>1, <4>2 DEF Stocked
    <3> QED
      BY <1>10, <1>15, <2>1, <3>1
  <2>2. CASE i # j
    <3>1. ns[i] = ms[i] /\ IsModel(ms[i], U)
      BY <1>1, <1>3, <1>10, <2>2, NumbersGrow
    <3>2. \A d \in DOMAIN ms[i].lt.table : Headed(ms[i], d, new[Base(ms[i], d)])
      <4> TAKE d \in DOMAIN ms[i].lt.table
      <4>1. LeafNum(ms[i].lt, d, 0) = Base(ms[i], d) /\ 0 \in 0 .. Len(Chain(ms[i].lt, d))
        BY <1>1, NumberLemma
      <4>2. new[Base(ms[i], d)] = mem[Base(ms[i], d)]
        BY <1>17, <2>2, <4>1
      <4> QED
        BY <1>1, <4>2 DEF Stocked
    <3>3. \A x \in 1 .. ms[i].capacity : InEntry(ms[i], new, (x - 1) \div N, 0, ms[i].keys[x])
      <4> TAKE x \in 1 .. ms[i].capacity
      <4>1. (x - 1) \div N \in DOMAIN ms[i].lt.table
        BY <1>1, ModelFacts
      <4>2. InEntry(ms[i], mem, (x - 1) \div N, 0, ms[i].keys[x])
        BY <1>1 DEF Stocked
      <4> QED
        BY <1>19, <3>1, <4>1, <4>2 DEF KeysStay
    <3> QED
      BY <3>1, <3>2, <3>3 DEF Stocked
  <2> QED
    BY <2>1, <2>2
<1>22. Ordered(ns)
  <2>1. \A i \in DOMAIN ms : last_key(ns[i]) = last_key(ms[i]) /\ ns[i].keys = ms[i].keys
    BY <1>10, <1>12
  <2> QED
    BY <1>1, <1>10, <2>1 DEF Ordered
<1>23. Owned(ns)
  <2>1. PICK own : OwnedBy(ms, own)
    BY <1>1 DEF Owned
  <2> DEFINE mine == [x \in Nat |-> IF x = u THEN <<j, 1, lt.next>> ELSE own[x]]
  <2>2. mine[u] = <<j, 1, lt.next>> /\ \A x \in T : mine[x] = own[x]
    BY <1>3
  <2> HIDE DEF mine
  <2>3. ASSUME NEW i \in DOMAIN ms
        PROVE  /\ \A d \in DOMAIN ns[i].lt.table : mine[Base(ns[i], d)] = <<i, 0, d>>
               /\ \A s \in 1 .. ns[i].lt.next - 1 : mine[Syn(ns[i], s)] = <<i, 1, s>>
    <3>1. IsModel(ms[i], T)
      BY <1>1
    <3>2. /\ \A d \in DOMAIN ms[i].lt.table : mine[Base(ms[i], d)] = <<i, 0, d>>
          /\ \A s \in 1 .. ms[i].lt.next - 1 : mine[Syn(ms[i], s)] = <<i, 1, s>>
      BY <2>1, <2>2, <3>1 DEF OwnedBy, IsModel
    <3>3. CASE i = j
      <4>1. \A d \in DOMAIN n.lt.table : mine[Base(n, d)] = <<j, 0, d>>
        BY <1>8, <1>12, <1>13, <3>2, <3>3
      <4>2. \A s \in 1 .. n.lt.next - 1 : mine[Syn(n, s)] = <<j, 1, s>>
        BY <1>14, <2>2, <3>2, <3>3
      <4> QED
        BY <1>10, <3>3, <4>1, <4>2
    <3>4. CASE i # j
      BY <1>10, <3>2, <3>4
    <3> QED
      BY <3>3, <3>4
  <2>4. OwnedBy(ns, mine)
    BY <1>10, <2>3 DEF OwnedBy
  <2> QED
    BY <2>4 DEF Owned
<1>24. SameBases(ms, ns)
  <2>1. \A i \in DOMAIN ms : [ms[i] EXCEPT !.lt = ms[i].lt] = ms[i]
    BY SameModels DEF SameBases
  <2>2. ns[j] = [ms[j] EXCEPT !.lt = ns[j].lt]
    BY <1>10, <1>12 DEF n, m
  <2> QED
    BY <1>8, <1>10, <1>12, <1>13, <2>1, <2>2 DEF SameBases
<1>25. ModelsOK(ns, new, u + 1)
  BY <1>10, <1>21, <1>22, <1>23 DEF ModelsOK
<1> QED
  BY <1>16, <1>19, <1>24, <1>25 DEF new, ns, nlt, cur

\* insert_synonym on the table of a submodel keeps the index as training left it.
LEMMA InsertedModels ==
  ASSUME N % 2 = 0, NEW ms, NEW mem, NEW u \in Nat, ModelsOK(ms, mem, u), Loaded(mem),
         leaf_num \in Nat, NEW j \in DOMAIN ms, NEW k \in Keys, NEW v \in Vals,
         NeedsLeaf(ms[j].lt, mem, k, lo(ms[j], k), hi(ms[j], k)) => u < leaf_num
  PROVE  LET r == Insert(ms[j].lt, mem, u, k, v, lo(ms[j], k), hi(ms[j], k))
             ns == [ms EXCEPT ![j].lt = r.lt]
         IN  /\ ModelsOK(ns, r.mem, r.used) /\ Loaded(r.mem)
             /\ KeysStay(ms, mem, ns, r.mem) /\ SameBases(ms, ns)
             /\ r.used \in Nat /\ u <= r.used
<1> DEFINE m == ms[j]
           lt == m.lt
           a == lo(m, k)
           b == hi(m, k)
           r == Insert(lt, mem, u, k, v, a, b)
           ns == [ms EXCEPT ![j].lt = r.lt]
           e == Entry(lt, mem, k, a, b)
           p == Place(lt, mem, k, e)
           cur == LeafNum(lt, e, p)
<1>1. IsModel(m, Fetched(u)) /\ Sound(lt)
  BY DEF ModelsOK, IsModel
<1>2. a \in Nat /\ b \in Nat /\ a <= b /\ a .. b \subseteq DOMAIN lt.table
  <2>1. Trained(m) /\ DOMAIN lt.table = 0 .. TrainedLeaves(m) - 1
    BY <1>1 DEF IsModel
  <2>2. /\ TrainedLeaves(m) \in Nat /\ a \in Nat /\ b \in Nat /\ a <= b
        /\ b <= TrainedLeaves(m) - 1
    BY <2>1, WindowLemma
  <2> DEFINE t == TrainedLeaves(m)
  <2> HIDE DEF a, b, t
  <2>3. t \in Nat /\ a \in Nat /\ b \in Nat /\ a <= b /\ b <= t - 1
    BY <2>2 DEF t
  <2>4. a .. b \subseteq 0 .. t - 1
    BY <2>3
  <2> QED
    BY <2>1, <2>3, <2>4 DEF t
<1>3. \A d \in DOMAIN lt.table : \A q \in 0 .. Len(Chain(lt, d)) :
        /\ LeafNum(lt, d, q) \in DOMAIN mem
        /\ mem[LeafNum(lt, d, q)] \in Leaves /\ Sorted(mem[LeafNum(lt, d, q)])
  <2> TAKE d \in DOMAIN lt.table
  <2> TAKE q \in 0 .. Len(Chain(lt, d))
  <2>1. LeafNum(lt, d, q) \in Fetched(u)
    BY <1>1, NumberLemma
  <2>2. LeafNum(lt, d, q) \in 0 .. leaf_num - 1
    BY <2>1 DEF Fetched
  <2> HIDE DEF lt
  <2> QED
    BY <2>2 DEF Loaded
<1> HIDE DEF a, b
<1>4. /\ e \in a .. b /\ e \in DOMAIN lt.table /\ p \in 0 .. Len(Chain(lt, e))
      /\ e = a \/ insertHere(mem[lt.table[e].leaf_num], k)
      /\ \/ r.lt = lt /\ r.mem = mem /\ r.used = u
         \/ \E w : /\ Written(mem[cur], w, k, v)
                   /\ r.lt = lt /\ r.mem = [mem EXCEPT ![cur] = w] /\ r.used = u
         \/ \E low, high :
              /\ Split(mem[cur], low, high, k, v) /\ NeedsLeaf(lt, mem, k, a, b)
              /\ r.lt = synonym_emplace_back(lt, e, p, u)
              /\ r.mem = [mem EXCEPT ![cur] = low, ![u] = high] /\ r.used = u + 1
  <2>1. InsertEffect(lt, mem, u, k, v, a, b)
    BY <1>1, <1>2, <1>3, InsertOutcome
  <2> QED
    BY <2>1 DEF InsertEffect
<1> HIDE DEF e, p, r
<1>5. p # 0 \/ k >= mem[Base(m, e)][0].key \/ lo(m, k) >= e
  <2>1. CASE e = a
    <3>1. lo(m, k) = e /\ e \in Nat
      BY <1>2, <2>1 DEF a
    <3> QED
      BY <3>1
  <2>2. CASE insertHere(mem[lt.table[e].leaf_num], k)
    BY <2>2 DEF insertHere, Base
  <2> QED
    BY <1>4, <2>1, <2>2
<1>6. SameBases(ms, ms) /\ [ms EXCEPT ![j].lt = ms[j].lt] = ms /\ u <= u
  BY SameModels
<1>7. CASE r.lt = lt /\ r.mem = mem /\ r.used = u
  <2>1. ns = ms
    BY <1>6, <1>7
  <2>2. KeysStay(ms, mem, ms, mem)
    BY DEF KeysStay
  <2> QED
    BY <1>6, <1>7, <2>1, <2>2 DEF r, a, b
<1>8. CASE \E w : /\ Written(mem[cur], w, k, v)
                  /\ r.lt = lt /\ r.mem = [mem EXCEPT ![cur] = w] /\ r.used = u
  <2>1. PICK w : /\ Written(mem[cur], w, k, v)
                 /\ r.lt = lt /\ r.mem = [mem EXCEPT ![cur] = w] /\ r.used = u
    BY <1>8
  <2>2. ns = ms
    BY <1>6, <2>1
  <2>3. /\ ModelsOK(ms, [mem EXCEPT ![cur] = w], u) /\ Loaded([mem EXCEPT ![cur] = w])
        /\ KeysStay(ms, mem, ms, [mem EXCEPT ![cur] = w])
    BY <1>4, <1>5, <2>1, WrittenModels
  <2> QED
    BY <1>6, <2>1, <2>2, <2>3 DEF r, a, b
<1>9. CASE \E low, high :
              /\ Split(mem[cur], low, high, k, v) /\ NeedsLeaf(lt, mem, k, a, b)
              /\ r.lt = synonym_emplace_back(lt, e, p, u)
              /\ r.mem = [mem EXCEPT ![cur] = low, ![u] = high] /\ r.used = u + 1
  <2>1. PICK low, high :
              /\ Split(mem[cur], low, high, k, v) /\ NeedsLeaf(lt, mem, k, a, b)
              /\ r.lt = synonym_emplace_back(lt, e, p, u)
              /\ r.mem = [mem EXCEPT ![cur] = low, ![u] = high] /\ r.used = u + 1
    BY <1>9
  <2>2. u < leaf_num
    BY <2>1 DEF a, b
  <2> DEFINE new == [mem EXCEPT ![cur] = low, ![u] = high]
             xs == [ms EXCEPT ![j].lt = synonym_emplace_back(lt, e, p, u)]
  <2>3. /\ ModelsOK(xs, new, u + 1) /\ Loaded(new)
        /\ KeysStay(ms, mem, xs, new) /\ SameBases(ms, xs)
    BY <1>4, <1>5, <2>1, <2>2, SplitModels
  <2>4. ns = xs
    BY <2>1
  <2> QED
    BY <2>1, <2>3, <2>4 DEF r, a, b
<1> QED
  BY <1>4, <1>7, <1>8, <1>9
-----------------------------------------------------------------------------
\* A submodel as it is in the region: the table without its synonym leaves
Bare(lt) ==
  [table |-> [i \in DOMAIN lt.table |-> TE(lt.table[i].leaf_num, 0)],
   syn   |-> <<>>, next |-> 1]

Shot(m) ==
  [num |-> m.num, den |-> m.den, icn |-> m.icn, icd |-> m.icd,
   capacity |-> m.capacity, lt |-> Bare(m.lt)]

Blob(m) == serialize(Shot(m))

\* Quotient and remainder of a word
LEMMA WordLemma ==
  ASSUME NEW n \in Nat
  PROVE  /\ Word(TE(n, 0)) \in Nat /\ Unword(Word(TE(n, 0))) = TE(n, 0)
<1> DEFINE d == SynonymMax
           a == d * n
           q == a \div d
<1>1. d \in Nat \ {0}
  BY SynonymAssumption
<1>2. Word(TE(n, 0)) = a
  BY <1>1 DEF Word, TE
<1>3. a \in Nat
  BY <1>1
<1>4. q \in Nat /\ d * q <= a /\ a < d * q + d
  BY <1>1, <1>3, Quotient
<1>5. a % d = a - d * q
  BY <1>1, <1>3
<1> HIDE DEF a, q, d
<1>6. q = n
  <2>1. ~ (q < n)
    <3> SUFFICES ASSUME q < n PROVE FALSE
      OBVIOUS
    <3>1. d * q + d <= d * n
      BY <1>1, <1>4, ProductOrder
    <3> QED
      BY <1>1, <1>3, <1>4, <3>1 DEF a
  <2>2. ~ (n < q)
    <3> SUFFICES ASSUME n < q PROVE FALSE
      OBVIOUS
    <3>1. d * n + d <= d * q
      BY <1>1, <1>4, ProductOrder
    <3>2. d * q \in Int
      BY <1>1, <1>4
    <3> QED
      BY <1>1, <1>3, <1>4, <3>1, <3>2 DEF a
  <2> QED
    BY <1>4, <2>1, <2>2
<1>7. a % d = 0
  BY <1>3, <1>5, <1>6 DEF a
<1> QED
  BY <1>2, <1>3, <1>6, <1>7 DEF Unword, TE, d, q

\* What serialize writes for a submodel, word by word
LEMMA TableWords ==
  ASSUME NEW m, NEW T, IsModel(m, T), T \subseteq Nat
  PROVE  LET w == serialize_table(Bare(m.lt))
             t == TrainedLeaves(m)
         IN  /\ w \in Seq(Int) /\ Len(w) = 1 + t + SynonymMax /\ t \in Nat
             /\ w[1] = t /\ w[t + 2] = Word(TE(1, 0))
             /\ \A i \in 0 .. t - 1 : w[i + 2] = Word(TE(Base(m, i), 0))
<1> DEFINE lt == Bare(m.lt)
           t == TrainedLeaves(m)
           one == <<t>>
           tab == [i \in 1 .. t |-> Word(lt.table[i - 1])]
           syns == [s \in 1 .. SynonymMax |->
                      IF s = 1 THEN Word(TE(lt.next, 0))
                      ELSE IF s <= lt.next THEN Word(lt.syn[s - 1]) ELSE 0]
           ot == one \o tab
           w == ot \o syns
<1>1. t \in Nat /\ t > 0 /\ DOMAIN m.lt.table = 0 .. t - 1
  BY ModelFacts DEF IsModel
<1>2. DOMAIN lt.table = 0 .. t - 1 /\ lt.next = 1
      /\ \A i \in 0 .. t - 1 : lt.table[i] = TE(Base(m, i), 0)
  BY <1>1 DEF Bare, Base
<1>3. SynonymMax \in Nat /\ SynonymMax > 1
  BY SynonymAssumption
<1> HIDE DEF lt, t
<1>4. Greatest(DOMAIN lt.table) + 1 = t
  <2> DEFINE S == 0 .. t - 1
             g == Greatest(S)
  <2>0. t \in Nat /\ t > 0
    BY <1>1
  <2>1. S \in SUBSET Int /\ S # {} /\ t - 1 \in Int /\ t - 1 \in S /\ \A y \in S : y <= t - 1
    BY <2>0
  <2>2. g \in S /\ \A y \in S : y <= g
    <3> HIDE DEF S
    <3> QED
      BY <2>1, GreatestLemma
  <2>3. g \in 0 .. t - 1 /\ t - 1 <= g
    BY <2>1, <2>2
  <2> HIDE DEF g
  <2>4. g + 1 = t
    BY <2>0, <2>3
  <2> QED
    BY <1>2, <2>4 DEF g
<1>5. serialize_table(lt) = w
  BY <1>4 DEF serialize_table
<1>6. one \in Seq(Int) /\ Len(one) = 1 /\ one[1] = t
  BY <1>1
<1>7. tab \in Seq(Int) /\ Len(tab) = t /\ \A i \in 0 .. t - 1 : tab[i + 1] = Word(TE(Base(m, i), 0))
  <2>1. \A i \in 0 .. t - 1 : Base(m, i) \in Nat
    BY <1>1 DEF IsModel
  <2>2. \A i \in 1 .. t : i - 1 \in 0 .. t - 1
    BY <1>1
  <2>3. \A i \in 1 .. t : Word(lt.table[i - 1]) \in Int
    <3> TAKE i \in 1 .. t
    <3>1. lt.table[i - 1] = TE(Base(m, i - 1), 0) /\ Base(m, i - 1) \in Nat
      BY <1>2, <2>1, <2>2
    <3>2. Word(TE(Base(m, i - 1), 0)) \in Nat
      BY <3>1, WordLemma
    <3> QED
      BY <3>1, <3>2
  <2>4. tab \in Seq(Int) /\ Len(tab) = t
    BY <1>1, <2>3
  <2>5. ASSUME NEW i \in 0 .. t - 1 PROVE tab[i + 1] = Word(TE(Base(m, i), 0))
    <3>1. i + 1 \in 1 .. t /\ (i + 1) - 1 = i
      BY <1>1
    <3>2. tab[i + 1] = Word(lt.table[(i + 1) - 1])
      BY <3>1
    <3> QED
      BY <1>2, <3>1, <3>2
  <2> QED
    BY <2>4, <2>5
<1>8. syns \in Seq(Int) /\ Len(syns) = SynonymMax /\ syns[1] = Word(TE(1, 0))
  <2>1. Word(TE(1, 0)) \in Int
    BY WordLemma
  <2>2. \A s \in 1 .. SynonymMax : s # 1 => ~ (s <= lt.next)
    BY <1>2
  <2>3. \A s \in 1 .. SynonymMax :
          (IF s = 1 THEN Word(TE(lt.next, 0))
           ELSE IF s <= lt.next THEN Word(lt.syn[s - 1]) ELSE 0)
            = IF s = 1 THEN Word(TE(1, 0)) ELSE 0
    BY <1>2, <2>2
  <2>4. syns = [s \in 1 .. SynonymMax |-> IF s = 1 THEN Word(TE(1, 0)) ELSE 0]
    BY <2>3
  <2> HIDE DEF syns
  <2> QED
    BY <1>3, <2>1, <2>4
<1> HIDE DEF one, tab, syns
<1>9. /\ ot \in Seq(Int) /\ Len(ot) = 1 + t
      /\ \A i \in 1 .. Len(one) : ot[i] = one[i]
      /\ \A i \in 1 .. Len(tab) : ot[Len(one) + i] = tab[i]
  <2>1. one \in Seq(Int) /\ tab \in Seq(Int)
    BY <1>6, <1>7
  <2>2. /\ ot \in Seq(Int) /\ Len(ot) = Len(one) + Len(tab)
        /\ \A i \in 1 .. Len(one) : ot[i] = one[i]
        /\ \A i \in 1 .. Len(tab) : ot[Len(one) + i] = tab[i]
    BY <2>1, ConcatFacts
  <2> QED
    BY <1>6, <1>7, <2>2
<1> HIDE DEF ot
<1>10. /\ w \in Seq(Int) /\ Len(w) = (1 + t) + SynonymMax
       /\ \A i \in 1 .. Len(ot) : w[i] = ot[i]
       /\ \A i \in 1 .. Len(syns) : w[Len(ot) + i] = syns[i]
  <2>1. ot \in Seq(Int) /\ syns \in Seq(Int)
    BY <1>8, <1>9
  <2>2. /\ w \in Seq(Int) /\ Len(w) = Len(ot) + Len(syns)
        /\ \A i \in 1 .. Len(ot) : w[i] = ot[i]
        /\ \A i \in 1 .. Len(syns) : w[Len(ot) + i] = syns[i]
    BY <2>1, ConcatFacts
  <2> QED
    BY <1>8, <1>9, <2>2
<1> HIDE DEF w
<1>11. w[1] = t
  <2>1. 1 \in 1 .. Len(one) /\ 1 \in 1 .. Len(ot)
    BY <1>1, <1>6, <1>9
  <2> QED
    BY <1>6, <1>9, <1>10, <2>1
<1>12. w[t + 2] = Word(TE(1, 0))
  <2>1. 1 \in 1 .. Len(syns) /\ Len(ot) + 1 = t + 2
    BY <1>1, <1>3, <1>8, <1>9
  <2>2. w[Len(ot) + 1] = syns[1]
    BY <1>10, <2>1
  <2> QED
    BY <1>8, <2>1, <2>2
<1>13. ASSUME NEW i \in 0 .. t - 1 PROVE w[i + 2] = Word(TE(Base(m, i), 0))
  <2> DEFINE x == i + 1
             y == i + 2
  <2>1. x \in 1 .. Len(tab) /\ Len(one) + x = y /\ y \in 1 .. Len(ot)
    BY <1>1, <1>6, <1>7, <1>9
  <2>2. tab[x] = Word(TE(Base(m, i), 0))
    BY <1>7
  <2> HIDE DEF x, y
  <2>3. w[y] = tab[x]
    BY <1>9, <1>10, <2>1
  <2> QED
    BY <2>2, <2>3 DEF y
<1> QED
  BY <1>1, <1>5, <1>10, <1>11, <1>12, <1>13 DEF lt, t

LEMMA TableRestored ==
  ASSUME NEW m, NEW T, IsModel(m, T), T \subseteq Nat
  PROVE  deserialize_table(serialize_table(Bare(m.lt))) = Bare(m.lt)
<1> DEFINE w == serialize_table(Bare(m.lt))
           t == TrainedLeaves(m)
<1>1. /\ t \in Nat /\ w[1] = t /\ w[t + 2] = Word(TE(1, 0))
      /\ \A i \in 0 .. t - 1 : w[i + 2] = Word(TE(Base(m, i), 0))
  BY TableWords
<1>2. DOMAIN m.lt.table = 0 .. t - 1 /\ \A i \in 0 .. t - 1 : Base(m, i) \in Nat
  BY DEF IsModel
<1>3. Unword(Word(TE(1, 0))) = TE(1, 0)
  BY WordLemma
<1>4. \A i \in 0 .. t - 1 : Unword(Word(TE(Base(m, i), 0))) = TE(Base(m, i), 0)
  BY <1>2, WordLemma
<1> HIDE DEF w, t
<1>5. Unword(w[t + 2 + 0]) = TE(1, 0)
  BY <1>1, <1>3
<1>6. [i \in 0 .. t - 1 |-> Unword(w[i + 2])]
        = [i \in DOMAIN m.lt.table |-> TE(m.lt.table[i].leaf_num, 0)]
  BY <1>1, <1>2, <1>4 DEF Base
<1>7. Unword(w[t + 2 + 0]).leaf_num = 1
  BY <1>5 DEF TE
<1>8. [s \in 1 .. Unword(w[t + 2 + 0]).leaf_num - 1 |-> Unword(w[t + 2 + s])] = <<>>
  BY <1>7
<1> QED
  BY <1>1, <1>6, <1>7, <1>8 DEF deserialize_table, Bare, w

\* What serialize writes for a submodel goes back through deserialize.
LEMMA BlobFacts ==
  ASSUME NEW m, NEW T, IsModel(m, T), T \subseteq Nat
  PROVE  /\ Blob(m) \in Seq(Int) /\ Len(Blob(m)) \in Nat /\ Len(Blob(m)) > 0
         /\ deserialize(Blob(m)) = Shot(m)
<1> DEFINE tab == serialize_table(Bare(m.lt))
           t == TrainedLeaves(m)
           L == Len(tab)
           head == <<m.num, m.den, m.icn, m.icd, m.capacity, L>>
           w == head \o tab
<1>1. tab \in Seq(Int) /\ L \in Nat
  <2>1. tab \in Seq(Int)
    BY TableWords
  <2> QED
    BY <2>1
<1>2. Blob(m) = w
  BY DEF Blob, serialize, Shot
<1>3. deserialize_table(tab) = Bare(m.lt)
  BY TableRestored
<1>4. m.num \in Int /\ m.den \in Int /\ m.icn \in Int /\ m.icd \in Int /\ m.capacity \in Int
  BY DEF IsModel, Trained
<1> HIDE DEF tab, L
<1>5. head \in Seq(Int) /\ Len(head) = 6
  BY <1>1, <1>4
<1>6. /\ head[1] = m.num /\ head[2] = m.den /\ head[3] = m.icn /\ head[4] = m.icd
      /\ head[5] = m.capacity /\ head[6] = L
  OBVIOUS
<1> HIDE DEF head
<1>7. /\ w \in Seq(Int) /\ Len(w) = 6 + L
      /\ \A i \in 1 .. 6 : w[i] = head[i]
      /\ \A i \in 1 .. L : w[6 + i] = tab[i]
  <2>1. head \in Seq(Int) /\ tab \in Seq(Int)
    BY <1>1, <1>5
  <2>2. /\ w \in Seq(Int) /\ Len(w) = Len(head) + Len(tab)
        /\ \A i \in 1 .. Len(head) : w[i] = head[i]
        /\ \A i \in 1 .. Len(tab) : w[Len(head) + i] = tab[i]
    BY <2>1, ConcatFacts
  <2> QED
    BY <1>5, <2>2 DEF L
<1> HIDE DEF w
<1>8. w[1] = m.num /\ w[2] = m.den /\ w[3] = m.icn /\ w[4] = m.icd /\ w[5] = m.capacity /\ w[6] = L
  BY <1>6, <1>7
<1>9. SubSeq(w, 7, 6 + w[6]) = tab
  <2> DEFINE s == SubSeq(w, 7, 6 + L)
  <2>1. /\ s \in Seq(Int) /\ Len(s) = L
        /\ \A i \in 1 .. L : s[i] = w[7 + i - 1]
    <3>1. 7 \in Nat \ {0} /\ 6 + L \in Nat /\ 7 <= 6 + L + 1 /\ 6 + L <= Len(w) /\ w \in Seq(Int)
      BY <1>1, <1>7
    <3> DEFINE n == 6 + L
    <3>2. n \in Nat /\ 7 <= n + 1 /\ n <= Len(w) /\ n - 7 + 1 = L
      BY <1>1, <3>1
    <3> HIDE DEF n
    <3>3. /\ SubSeq(w, 7, n) \in Seq(Int) /\ Len(SubSeq(w, 7, n)) = n - 7 + 1
          /\ \A i \in 1 .. n - 7 + 1 : SubSeq(w, 7, n)[i] = w[7 + i - 1]
      BY <3>1, <3>2, SubSeqFacts
    <3> QED
      BY <3>2, <3>3 DEF n
  <2> HIDE DEF s
  <2>2. \A i \in 1 .. L : s[i] = tab[i]
    <3>1. \A i \in 1 .. L : 7 + i - 1 = 6 + i
      OBVIOUS
    <3> QED
      BY <1>7, <2>1, <3>1
  <2>3. s = tab
    <3>1. IsSeq(s) /\ IsSeq(tab) /\ Len(tab) = L
      BY <1>1, <2>1 DEF IsSeq, L
    <3>2. s = [i \in 1 .. L |-> s[i]] /\ tab = [i \in 1 .. L |-> tab[i]]
      BY <2>1, <3>1, SeqFacts
    <3>3. [i \in 1 .. L |-> s[i]] = [i \in 1 .. L |-> tab[i]]
      BY <2>2
    <3> QED
      BY <3>2, <3>3
  <2> QED
    BY <1>8, <2>3 DEF s
<1>10. deserialize(w) = Shot(m)
  BY <1>3, <1>8, <1>9 DEF deserialize, Shot
<1>11. w \in Seq(Int) /\ Len(w) \in Nat /\ Len(w) > 0
  BY <1>1, <1>7
<1> QED
  BY <1>2, <1>10, <1>11

\* The words of a submodel do not change with its synonym leaves.
LEMMA SameShots ==
  ASSUME NEW ms, NEW ns, SameBases(ms, ns), NEW j \in DOMAIN ms, NEW T, IsModel(ms[j], T)
  PROVE  Shot(ns[j]) = Shot(ms[j]) /\ Blob(ns[j]) = Blob(ms[j]) /\ last_key(ns[j]) = last_key(ms[j])
<1> DEFINE m == ms[j]
           n == ns[j]
<1>1. n = [m EXCEPT !.lt = n.lt] /\ DOMAIN n.lt.table = DOMAIN m.lt.table
      /\ \A e \in DOMAIN m.lt.table : n.lt.table[e].leaf_num = m.lt.table[e].leaf_num
  BY DEF SameBases, Base
<1>2. IsModel(m, T)
  OBVIOUS
<1> HIDE DEF m
<1> DEFINE x == n.lt
           r == [m EXCEPT !.lt = x]
<1>3. r.num = m.num /\ r.den = m.den /\ r.icn = m.icn /\ r.icd = m.icd
      /\ r.capacity = m.capacity /\ last_key(r) = last_key(m)
  <2>1. m = [num |-> m.num, den |-> m.den, icn |-> m.icn, icd |-> m.icd,
             capacity |-> m.capacity, keys |-> m.keys, lt |-> m.lt]
    BY <1>2 DEF IsModel
  <2>2. r = [num |-> m.num, den |-> m.den, icn |-> m.icn, icd |-> m.icd,
             capacity |-> m.capacity, keys |-> m.keys, lt |-> x]
    BY <2>1
  <2> HIDE DEF r
  <2> QED
    BY <2>2 DEF last_key
<1>4. n.num = m.num /\ n.den = m.den /\ n.icn = m.icn /\ n.icd = m.icd
      /\ n.capacity = m.capacity /\ last_key(n) = last_key(m)
  BY <1>1, <1>3
<1> HIDE DEF n
<1>5. Bare(n.lt) = Bare(m.lt)
  <2> DEFINE f == [i \in DOMAIN m.lt.table |-> TE(m.lt.table[i].leaf_num, 0)]
             g == [i \in DOMAIN n.lt.table |-> TE(n.lt.table[i].leaf_num, 0)]
  <2>1. f = g
    BY <1>1
  <2> QED
    BY <2>1 DEF Bare
<1>6. Shot(n) = Shot(m)
  BY <1>4, <1>5 DEF Shot
<1> QED
  BY <1>4, <1>6 DEF Blob, m, n

\* append_model writes the words of the submodel that it has just made.
LEMMA FreshBlob ==
  ASSUME Counted, SegmentInv, first < taken, used + TrainedLeaves(Fresh) <= leaf_num
  PROVE  serialize(Fresh) = Blob(Fresh)
<1> DEFINE m == Fresh
           t == TrainedLeaves(m)
           nums == [l \in 1 .. t |-> used + l - 1]
<1>1. m.lt = NewTable(nums) /\ t \in Nat
  BY FreshModel
<1> HIDE DEF m, t
<1>2. Len(nums) = t
  BY <1>1
<1> HIDE DEF nums
<1>3. Bare(m.lt) = m.lt
  <2> DEFINE tab == [i \in 0 .. t - 1 |-> TE(nums[i + 1], 0)]
  <2>1. m.lt = [table |-> tab, syn |-> <<>>, next |-> 1]
    BY <1>1, <1>2 DEF NewTable
  <2>2. DOMAIN tab = 0 .. t - 1
        /\ \A i \in 0 .. t - 1 : TE(tab[i].leaf_num, 0) = TE(nums[i + 1], 0)
    BY DEF TE
  <2>3. [i \in DOMAIN tab |-> TE(tab[i].leaf_num, 0)] = tab
    BY <2>2
  <2>4. m.lt.table = tab
    BY <2>1
  <2>5. Bare(m.lt) = [table |-> [i \in DOMAIN tab |-> TE(tab[i].leaf_num, 0)],
                      syn |-> <<>>, next |-> 1]
    BY <2>4 DEF Bare
  <2> HIDE DEF tab
  <2> QED
    BY <2>1, <2>3, <2>5
<1>4. Shot(m).lt = m.lt /\ Shot(m).num = m.num /\ Shot(m).den = m.den /\ Shot(m).icn = m.icn
      /\ Shot(m).icd = m.icd /\ Shot(m).capacity = m.capacity
  BY <1>3 DEF Shot
<1>5. serialize(m) = serialize(Shot(m))
  BY <1>4 DEF serialize
<1> QED
  BY <1>5 DEF Blob, m
-----------------------------------------------------------------------------
\* Submodel j in the region: its key, its offset, its words behind their number
Placed(reg, j, key, blob) ==
  LET off == reg.mem[UpperWords \div 2 + j - 1]
  IN  /\ reg.mem[j] = key
      /\ off \in Nat /\ UpperWords <= off /\ off + Len(blob) < reg.cur
      /\ reg.mem[off] = Len(blob)
      /\ \A w \in 1 .. Len(blob) : reg.mem[off + w] = blob[w]

\* The region has the submodels, as long as its upper half has room for them.
Laid(reg, ms) ==
  /\ reg = [mem |-> reg.mem, cur |-> reg.cur, num |-> reg.num]
  /\ DOMAIN reg.mem = 0 .. ModelWords - 1
  /\ reg.num = Len(ms)
  /\ reg.cur \in Nat /\ UpperWords <= reg.cur /\ reg.cur <= ModelWords
  /\ Len(ms) <= max_upper_num =>
       \A j \in 1 .. Len(ms) : Placed(reg, j, last_key(ms[j]), Blob(ms[j]))

LEMMA Halves ==
  LET h == UpperWords \div 2
  IN  /\ h \in Nat /\ h > 1 /\ h + h = UpperWords /\ UpperWords \in Nat
      /\ ModelWords \in Nat /\ ModelWords > UpperWords
      /\ max_upper_num = h - 1
<1> DEFINE h == UpperWords \div 2
           S == {h - 1, h}
<1>1. h \in Nat /\ h > 1 /\ h + h = UpperWords /\ UpperWords \in Nat
      /\ ModelWords \in Nat /\ ModelWords > UpperWords
  BY RegionAssumption
<1>2. max_upper_num = Least(S)
  BY DEF max_upper_num
<1> HIDE DEF h
<1>3. S \in SUBSET Int /\ S # {} /\ h - 1 \in Int /\ h - 1 \in S /\ \A y \in S : h - 1 <= y
  BY <1>1
<1>4. Least(S) = h - 1
  <2>1. Least(S) \in S /\ \A y \in S : Least(S) <= y
    <3>1. S \in SUBSET Nat /\ S # {}
      BY <1>1
    <3> HIDE DEF S
    <3> QED
      BY <3>1, LeastLemma
  <2> DEFINE g == Least(S)
  <2>2. g \in S /\ g <= h - 1
    BY <1>3, <2>1
  <2> HIDE DEF g
  <2>3. g = h - 1
    BY <1>1, <2>2
  <2> QED
    BY <2>3 DEF g
<1> QED
  BY <1>1, <1>2, <1>4 DEF h

\* append_model writes behind everything that the region has.
LEMMA AppendLaid ==
  ASSUME NEW reg, NEW ms, IsSeq(ms), Laid(reg, ms), NEW m,
         \A j \in 1 .. Len(ms) : Len(Blob(ms[j])) \in Nat,
         last_key(m) \in Nat, Blob(m) \in Seq(Int), Room(reg, Blob(m))
  PROVE  Laid(append(reg, last_key(m), Blob(m)), Append(ms, m))
<1> DEFINE h == UpperWords \div 2
           n == Len(ms)
           key == last_key(m)
           blob == Blob(m)
           b == Len(blob)
           off == reg.cur
           new == append(reg, key, blob)
           xs == Append(ms, m)
<1>1. /\ h \in Nat /\ h > 1 /\ h + h = UpperWords /\ UpperWords \in Nat
      /\ ModelWords \in Nat /\ ModelWords > UpperWords
      /\ max_upper_num = h - 1
  BY Halves
<1>2. /\ n \in Nat /\ IsSeq(xs) /\ Len(xs) = n + 1
      /\ \A i \in 1 .. n : xs[i] = ms[i]
      /\ xs[n + 1] = m
  BY SeqFacts, AppendFacts
<1>3. b \in Nat /\ DOMAIN blob = 1 .. b
  OBVIOUS
<1>4. /\ DOMAIN reg.mem = 0 .. ModelWords - 1 /\ reg.num = n
      /\ off \in Nat /\ UpperWords <= off
      /\ n <= h - 1 => \A j \in 1 .. n : Placed(reg, j, last_key(ms[j]), Blob(ms[j]))
      /\ off + b + 1 <= ModelWords
  BY <1>1 DEF Laid, Room
<1>5. /\ new.num = n + 1 /\ new.cur = off + b + 1
      /\ new.mem = [w \in 0 .. ModelWords - 1 |->
                      IF w = h + n THEN off
                      ELSE IF w = 1 + n THEN key
                      ELSE IF w = off THEN b
                      ELSE IF w - off \in 1 .. b THEN blob[w - off]
                      ELSE reg.mem[w]]
  BY <1>3, <1>4 DEF append
<1> HIDE DEF new, xs, h, n, key, blob, b, off
<1>6. ASSUME n + 1 <= h - 1, NEW j \in 1 .. n + 1
      PROVE  Placed(new, j, last_key(xs[j]), Blob(xs[j]))
  <2>1. CASE j = n + 1
    <3>1. h + j - 1 = h + n /\ h + n \in 0 .. ModelWords - 1
          /\ j \in 0 .. ModelWords - 1 /\ j # h + n /\ j = 1 + n
      BY <1>1, <1>2, <1>6, <2>1
    <3>2. new.mem[h + j - 1] = off /\ new.mem[j] = key
      BY <1>5, <3>1
    <3>3. off \in 0 .. ModelWords - 1 /\ off # h + n /\ off # 1 + n
      BY <1>1, <1>2, <1>3, <1>4, <1>6
    <3>4. new.mem[off] = b
      BY <1>5, <3>3
    <3>5. ASSUME NEW w \in 1 .. b PROVE new.mem[off + w] = blob[w]
      <4> DEFINE x == off + w
      <4>1. x \in 0 .. ModelWords - 1 /\ x # h + n /\ x # 1 + n /\ x # off /\ x - off = w
        BY <1>1, <1>2, <1>3, <1>4, <1>6
      <4> HIDE DEF x
      <4>2. new.mem[x] = blob[w]
        BY <1>5, <4>1
      <4> QED
        BY <4>2 DEF x
    <3>6. off + b < new.cur
      BY <1>3, <1>4, <1>5
    <3>7. key = last_key(m) /\ blob = Blob(m) /\ b = Len(blob) /\ xs[j] = m
      BY <1>2, <2>1 DEF key, blob, b
    <3> QED
      BY <1>4, <3>2, <3>4, <3>5, <3>6, <3>7 DEF Placed, h
  <2>2. CASE j # n + 1
    <3>1. j \in 1 .. n /\ n <= h - 1 /\ xs[j] = ms[j]
      BY <1>1, <1>2, <1>6, <2>2
    <3> DEFINE o == reg.mem[h + j - 1]
               old == Blob(ms[j])
    <3>2. /\ reg.mem[j] = last_key(ms[j])
          /\ o \in Nat /\ UpperWords <= o /\ o + Len(old) < off
          /\ reg.mem[o] = Len(old)
          /\ \A w \in 1 .. Len(old) : reg.mem[o + w] = old[w]
      BY <1>4, <3>1 DEF Placed, h, off
    <3>3. \A w \in 0 .. ModelWords - 1 :
            w < off /\ w # h + n /\ w # 1 + n => new.mem[w] = reg.mem[w]
      BY <1>3, <1>4, <1>5
    <3>4. j \in 0 .. ModelWords - 1 /\ j < off /\ j # h + n /\ j # 1 + n
      BY <1>1, <1>2, <1>4, <1>6, <3>1
    <3>5. h + j - 1 \in 0 .. ModelWords - 1 /\ h + j - 1 < off
          /\ h + j - 1 # h + n /\ h + j - 1 # 1 + n
      BY <1>1, <1>2, <1>4, <1>6, <3>1
    <3>6. new.mem[j] = last_key(ms[j]) /\ new.mem[h + j - 1] = o
      BY <3>2, <3>3, <3>4, <3>5
    <3>7. Len(old) \in Nat
      BY <3>1 DEF n
    <3> HIDE DEF o, old
    <3>8. new.mem[o] = Len(old)
      <4>1. o \in 0 .. ModelWords - 1 /\ o < off /\ o # h + n /\ o # 1 + n
        BY <1>1, <1>2, <1>3, <1>4, <1>6, <3>2, <3>7
      <4> QED
        BY <3>2, <3>3, <4>1
    <3>9. ASSUME NEW w \in 1 .. Len(old) PROVE new.mem[o + w] = old[w]
      <4>1. o + w \in 0 .. ModelWords - 1 /\ o + w < off /\ o + w # h + n /\ o + w # 1 + n
        BY <1>1, <1>2, <1>3, <1>4, <1>6, <3>2, <3>7
      <4> QED
        BY <3>2, <3>3, <4>1
    <3>10. o + Len(old) < new.cur
      BY <1>3, <1>4, <1>5, <3>2, <3>7
    <3> QED
      BY <3>1, <3>2, <3>6, <3>8, <3>9, <3>10 DEF Placed, h, old
  <2> QED
    BY <2>1, <2>2
<1> QED
  <2>0. new = [mem |-> new.mem, cur |-> new.cur, num |-> new.num]
    BY DEF new, append
  <2>1. DOMAIN new.mem = 0 .. ModelWords - 1 /\ new.num = Len(xs)
        /\ new.cur \in Nat /\ UpperWords <= new.cur /\ new.cur <= ModelWords
    BY <1>1, <1>2, <1>3, <1>4, <1>5
  <2>2. Laid(new, xs)
    BY <1>1, <1>2, <1>6, <2>0, <2>1 DEF Laid
  <2> QED
    BY <2>2 DEF new, xs, key, blob

\* Puts and the number of models leave what append_model wrote.
LEMMA LaidKept ==
  ASSUME NEW reg, NEW ms, NEW u, NEW mem, ModelsOK(ms, mem, u), Laid(reg, ms),
         NEW ns, SameBases(ms, ns)
  PROVE  Laid(reg, ns)
<1>1. IsSeq(ms) /\ IsSeq(ns) /\ DOMAIN ns = DOMAIN ms
  BY DEF ModelsOK, SameBases
<1>2. Len(ns) = Len(ms) /\ DOMAIN ms = 1 .. Len(ms)
  <2>1. DOMAIN ms = 1 .. Len(ms) /\ DOMAIN ns = 1 .. Len(ns) /\ Len(ms) \in Nat /\ Len(ns) \in Nat
    BY <1>1, SeqFacts
  <2> QED
    BY <1>1, <2>1
<1>3. \A j \in 1 .. Len(ms) : Blob(ns[j]) = Blob(ms[j]) /\ last_key(ns[j]) = last_key(ms[j])
  BY <1>2, SameShots DEF ModelsOK
<1> QED
  BY <1>2, <1>3 DEF Laid

LEMMA LaidNumbered ==
  ASSUME NEW reg, NEW ms, IsSeq(ms), Laid(reg, ms),
         \A j \in 1 .. Len(ms) : Len(Blob(ms[j])) \in Nat
  PROVE  LET new == [reg EXCEPT !.mem[0] = Len(ms)]
         IN  Laid(new, ms) /\ new.mem[0] = Len(ms)
<1> DEFINE n == Len(ms)
           h == UpperWords \div 2
           mem == [reg.mem EXCEPT ![0] = n]
           new == [reg EXCEPT !.mem[0] = n]
<1>1. /\ h \in Nat /\ h > 1 /\ h + h = UpperWords /\ UpperWords \in Nat
      /\ ModelWords \in Nat /\ ModelWords > UpperWords
      /\ max_upper_num = h - 1
  BY Halves
<1>2. n \in Nat
  BY SeqFacts
<1>3. /\ reg = [mem |-> reg.mem, cur |-> reg.cur, num |-> reg.num]
      /\ DOMAIN reg.mem = 0 .. ModelWords - 1 /\ reg.num = n
      /\ reg.cur \in Nat /\ UpperWords <= reg.cur /\ reg.cur <= ModelWords
      /\ n <= h - 1 => \A j \in 1 .. n : Placed(reg, j, last_key(ms[j]), Blob(ms[j]))
  BY <1>1 DEF Laid
<1>4. new = [mem |-> mem, cur |-> reg.cur, num |-> reg.num]
  BY <1>3
<1>5. 0 \in DOMAIN reg.mem
  BY <1>1, <1>3
<1>6. DOMAIN mem = DOMAIN reg.mem /\ mem[0] = n /\ \A w : w \in 0 .. ModelWords - 1 /\ w # 0 => mem[w] = reg.mem[w]
  BY <1>3, <1>5
<1>7. new.mem = mem /\ new.cur = reg.cur /\ new.num = n
  BY <1>3, <1>4
<1> HIDE DEF new, mem, h, n
<1>8. ASSUME n <= h - 1, NEW j \in 1 .. n
      PROVE  Placed(new, j, last_key(ms[j]), Blob(ms[j]))
  <2> DEFINE o == reg.mem[h + j - 1]
             old == Blob(ms[j])
  <2>1. /\ reg.mem[j] = last_key(ms[j])
        /\ o \in Nat /\ UpperWords <= o /\ o + Len(old) < reg.cur
        /\ reg.mem[o] = Len(old)
        /\ \A w \in 1 .. Len(old) : reg.mem[o + w] = old[w]
    BY <1>3, <1>8 DEF Placed, h
  <2>2. Len(old) \in Nat
    BY <1>8 DEF n
  <2> HIDE DEF o, old
  <2>3. j # 0 /\ j \in 0 .. ModelWords - 1
    BY <1>1, <1>2, <1>8
  <2>4. h + j - 1 # 0 /\ h + j - 1 \in 0 .. ModelWords - 1
    BY <1>1, <1>2, <1>8
  <2>5. o # 0 /\ o \in 0 .. ModelWords - 1
    BY <1>1, <1>3, <2>1, <2>2
  <2>6. new.mem[j] = last_key(ms[j]) /\ new.mem[h + j - 1] = o /\ new.mem[o] = Len(old)
    <3>1. new.mem[j] = reg.mem[j] /\ new.mem[h + j - 1] = reg.mem[h + j - 1] /\ new.mem[o] = reg.mem[o]
      BY <1>6, <1>7, <2>3, <2>4, <2>5
    <3> QED
      BY <2>1, <3>1 DEF o
  <2>7. ASSUME NEW w \in 1 .. Len(old) PROVE new.mem[o + w] = old[w]
    <3>1. o + w # 0 /\ o + w \in 0 .. ModelWords - 1
      BY <1>1, <1>3, <2>1, <2>2
    <3> QED
      BY <1>6, <1>7, <2>1, <3>1
  <2> QED
    BY <1>7, <2>1, <2>6, <2>7 DEF Placed, h, old
<1>9. new = [mem |-> new.mem, cur |-> new.cur, num |-> new.num]
  BY <1>4, <1>7
<1>10. Laid(new, ms)
  BY <1>1, <1>3, <1>6, <1>7, <1>8, <1>9 DEF Laid, n
<1> QED
  BY <1>6, <1>7, <1>10 DEF new, n

\* The index that a compute node makes of these submodels
Snapshot(ms) ==
  [keys   |-> [j \in 1 .. Len(ms) |-> last_key(ms[j])],
   models |-> [j \in 1 .. Len(ms) |-> Shot(ms[j])]]

\* read_remote_index reads what append_model and serialize wrote.
LEMMA ReadLaid ==
  ASSUME NEW reg, NEW ms, NEW u, NEW mem, ModelsOK(ms, mem, u), Laid(reg, ms),
         reg.mem[0] = Len(ms), Len(ms) <= max_upper_num
  PROVE  read_index(reg.mem) = Snapshot(ms)
<1> DEFINE n == Len(ms)
           h == UpperWords \div 2
           r == reg.mem
           offs == [w \in 1 .. n |-> r[h + w - 1]]
<1>1. n \in Nat /\ DOMAIN ms = 1 .. n
  BY SeqFacts DEF ModelsOK
<1>2. h \in Nat
  BY Halves
<1>3. \A j \in 1 .. n : Placed(reg, j, last_key(ms[j]), Blob(ms[j]))
  BY DEF Laid
<1>4. ASSUME NEW j \in 1 .. n
      PROVE  /\ Blob(ms[j]) \in Seq(Int) /\ Len(Blob(ms[j])) \in Nat
             /\ deserialize(Blob(ms[j])) = Shot(ms[j])
  <2>1. IsModel(ms[j], Fetched(u))
    BY <1>1 DEF ModelsOK
  <2>2. Fetched(u) \subseteq Nat
    BY DEF Fetched
  <2> QED
    BY <2>1, <2>2, BlobFacts
<1> HIDE DEF n, h
<1>5. \A j \in 1 .. n : r[1 + j - 1] = last_key(ms[j])
  <2> TAKE j \in 1 .. n
  <2>1. 1 + j - 1 = j
    OBVIOUS
  <2> QED
    BY <1>3, <2>1 DEF Placed
<1>6. ASSUME NEW j \in 1 .. n
      PROVE  deserialize(read_syn(r, offs[j] + 1, r[offs[j]])) = Shot(ms[j])
  <2> DEFINE o == r[h + j - 1]
             blob == Blob(ms[j])
             L == Len(blob)
  <2>1. o \in Nat /\ r[o] = L /\ \A w \in 1 .. L : r[o + w] = blob[w]
    BY <1>3 DEF Placed, h
  <2>2. blob \in Seq(Int) /\ L \in Nat /\ deserialize(blob) = Shot(ms[j])
    BY <1>4
  <2>3. offs[j] = o
    OBVIOUS
  <2> HIDE DEF o, blob, offs
  <2>4. IsSeq(blob)
    BY <2>2 DEF IsSeq
  <2>5. blob = [w \in 1 .. L |-> blob[w]]
    BY <2>4, SeqFacts
  <2>6. \A w \in 1 .. L : r[(o + 1) + w - 1] = blob[w]
    <3> TAKE w \in 1 .. L
    <3>1. (o + 1) + w - 1 = o + w
      BY <2>1, <2>2
    <3> QED
      BY <2>1, <3>1
  <2>7. [w \in 1 .. L |-> r[(o + 1) + w - 1]] = [w \in 1 .. L |-> blob[w]]
    BY <2>6
  <2>8. read_syn(r, o + 1, L) = blob
    BY <2>5, <2>7 DEF read_syn
  <2> QED
    BY <2>1, <2>2, <2>3, <2>8
<1>7. read_syn(r, 1, n) = [j \in 1 .. n |-> last_key(ms[j])]
  BY <1>5 DEF read_syn
<1>8. read_syn(r, UpperWords \div 2, n) = offs
  BY DEF read_syn, h
<1> HIDE DEF offs
<1>9. [i \in 1 .. n |-> deserialize(read_syn(r, offs[i] + 1, r[offs[i]]))]
        = [j \in 1 .. n |-> Shot(ms[j])]
  BY <1>6
<1>10. read_index(r) = [keys |-> read_syn(r, 1, n),
                        models |-> [i \in 1 .. n |->
                           deserialize(read_syn(r, offs[i] + 1, r[offs[i]]))]]
  BY <1>8 DEF read_index, n
<1> QED
  BY <1>7, <1>9, <1>10 DEF Snapshot, n

LEMMA SameSnapshot ==
  ASSUME NEW ms, NEW u, NEW mem, ModelsOK(ms, mem, u), NEW ns, SameBases(ms, ns)
  PROVE  Snapshot(ns) = Snapshot(ms) /\ Len(ns) = Len(ms)
<1>1. IsSeq(ms) /\ IsSeq(ns) /\ DOMAIN ns = DOMAIN ms
  BY DEF ModelsOK, SameBases
<1>2. Len(ns) = Len(ms) /\ DOMAIN ms = 1 .. Len(ms)
  <2>1. DOMAIN ms = 1 .. Len(ms) /\ DOMAIN ns = 1 .. Len(ns) /\ Len(ms) \in Nat /\ Len(ns) \in Nat
    BY <1>1, SeqFacts
  <2> QED
    BY <1>1, <2>1
<1>3. \A j \in 1 .. Len(ms) : Shot(ns[j]) = Shot(ms[j]) /\ last_key(ns[j]) = last_key(ms[j])
  BY <1>2, SameShots DEF ModelsOK
<1> QED
  BY <1>2, <1>3 DEF Snapshot
-----------------------------------------------------------------------------
\* The memory node from its start on
NodeInv ==
  /\ Counted /\ SegmentInv
  /\ phase \in {"create", "train", "serving"}
  /\ aborted \in {"no", "region", "room", "pool"}
  /\ taken = first => taken = 0 \/ first = Len(keys)
  /\ phase = "create" => taken = 0 /\ first = 0 /\ models = <<>>
  /\ phase = "serving" => first = Len(keys) /\ region.mem[0] = Len(models)
  /\ phase # "create" => Loaded(leaves)
  /\ ModelsOK(models, leaves, used)
  /\ Laid(region, models)
  /\ aborted = "no" \/ phase = "serving" => Covered(models, first)

LEMMA NoModels ==
  ASSUME NEW mem, NEW u
  PROVE  /\ ModelsOK(<<>>, mem, u) /\ Covered(<<>>, 0)
         /\ Laid(NewModelAllocator, <<>>)
<1>1. IsSeq(<<>>) /\ DOMAIN <<>> = {} /\ Len(<<>>) = 0
  <2>1. <<>> \in Seq({})
    OBVIOUS
  <2> QED
    BY <2>1 DEF IsSeq
<1>2. Owned(<<>>)
  BY <1>1 DEF Owned, OwnedBy
<1>3. ModelsOK(<<>>, mem, u)
  BY <1>1, <1>2 DEF ModelsOK, Ordered
<1>4. Covered(<<>>, 0)
  BY <1>1 DEF Covered
<1>5. Laid(NewModelAllocator, <<>>)
  <2>1. UpperWords \in Nat /\ ModelWords \in Nat /\ UpperWords <= ModelWords
    BY RegionAssumption
  <2>2. 1 .. Len(<<>>) = {}
    BY <1>1
  <2> QED
    BY <1>1, <2>1, <2>2 DEF Laid, NewModelAllocator
<1> QED
  BY <1>3, <1>4, <1>5

LEMMA InitNode ==
  Init => NodeInv
<1> SUFFICES ASSUME Init PROVE NodeInv
  OBVIOUS
<1>1. load \in DOMAIN Loads /\ phase = "create" /\ aborted = "no" /\ taken = 0 /\ first = 0
      /\ opt = NewSegment /\ models = <<>> /\ region = NewModelAllocator /\ used = 0
  BY DEF Init
<1>2. keys \in Seq(Nat) /\ Len(keys) \in Nat /\ Epsilon - 1 \in Nat
  BY <1>1, LoadFacts
<1>3. Counted
  BY <1>1, <1>2 DEF Counted
<1>4. SegmentInv
  <2>1. Increasing(Rest(0))
    BY <1>1, <1>2, RestFacts
  <2>2. Rest(0) \in Seq(Nat)
    BY <2>1 DEF Increasing
  <2>3. SegmentOf(Rest(0), Epsilon - 1, 0, NewSegment)
    BY <1>2, <2>2, NewSegmentLemma
  <2>4. taken - first = 0
    BY <1>1
  <2> QED
    BY <1>1, <2>3, <2>4 DEF SegmentInv
<1>5. ModelsOK(models, leaves, used) /\ Covered(models, first) /\ Laid(region, models)
  BY <1>1, NoModels
<1> QED
  BY <1>1, <1>3, <1>4, <1>5 DEF NodeInv

\* LargeEnough leaves room for every leaf that prealloc_leaves takes.
LEMMA RegionLargeEnough ==
  ASSUME load \in DOMAIN Loads,
         LargeEnough(align_to_sz(Loads[load].leaf_region_size))
  PROVE  Allocated(align_to_sz(Loads[load].leaf_region_size))
<1> DEFINE sz == Loads[load].leaf_region_size
           P == PageWords
           W == LeafWords
           q == (sz + P - 1) \div P
           T == q * P
           n == leaf_num
           d == (T - 1) \div W
<1>1. sz \in Nat /\ P \in Nat \ {0} /\ W \in Nat /\ W > 1 /\ n \in Nat
  BY LoadFacts, TrainingAssumption
<1>2. align_to_sz(sz) = T
  BY DEF align_to_sz
<1>3. n < d
  BY <1>2 DEF LargeEnough
<1> HIDE DEF sz, P, W, n
<1>4. q \in Nat
  BY <1>1, Quotient
<1> HIDE DEF q
<1>5. T \in Nat
  BY <1>1, <1>4
<1> HIDE DEF T
<1>6. CASE T = 0
  <2>1. (0 - 1) \div W < 0
    BY <1>1
  <2> QED
    BY <1>1, <1>3, <1>6, <2>1
<1>7. CASE T # 0
  <2>1. T - 1 \in Nat
    BY <1>5, <1>7
  <2>2. d \in Nat /\ W * d <= T - 1
    BY <1>1, <2>1, Quotient
  <2> HIDE DEF d
  <2>3. W * n + W <= W * d
    BY <1>1, <1>3, <2>2, ProductOrder
  <2>4. W * n \in Nat /\ W * d \in Nat /\ n * W = W * n
    BY <1>1, <2>2
  <2>5. 2 + n * W <= T
    <3> DEFINE x == W * n
               y == W * d
    <3>1. x \in Nat /\ y \in Nat /\ x + W <= y /\ y <= T - 1
      BY <2>2, <2>3, <2>4
    <3> HIDE DEF x, y
    <3>2. 2 + x <= T
      BY <1>1, <1>5, <3>1
    <3> QED
      BY <2>4, <3>2 DEF x
  <2> QED
    BY <1>2, <2>5 DEF Allocated, n, W, sz
<1> QED
  BY <1>6, <1>7

\* The next key continues the segment, or begins one.
LEMMA KeyTaken ==
  ASSUME Counted, taken < Len(keys), SegmentInv
  PROVE  LET k == keys[taken + 1]
             E == Epsilon - 1
         IN  /\ Takes(opt, k, taken - first, E)
                  => SegmentOf(Rest(first), E, (taken + 1) - first,
                               add_point(opt, k, taken - first, E))
             /\ SegmentOf(Rest(taken), E, (taken + 1) - taken,
                          add_point(NewSegment, k, 0, E))
             /\ first = taken => Takes(opt, k, taken - first, E)
<1> DEFINE k == keys[taken + 1]
           E == Epsilon - 1
           n == taken - first
<1>1. /\ load \in DOMAIN Loads /\ first \in Nat /\ taken \in Nat /\ first <= taken
      /\ first \in 0 .. Len(keys) /\ taken \in 0 .. Len(keys)
      /\ Len(keys) \in Nat /\ E \in Nat
  BY LoadFacts DEF Counted
<1>2. ASSUME NEW f \in 0 .. taken, NEW o, SegmentOf(Rest(f), E, taken - f, o),
             Takes(o, k, taken - f, E)
      PROVE  SegmentOf(Rest(f), E, (taken + 1) - f, add_point(o, k, taken - f, E))
  <2> DEFINE xs == Rest(f)
             c == taken - f
  <2>1. f \in 0 .. Len(keys) /\ c \in Nat /\ c + 1 = (taken + 1) - f /\ f + (c + 1) = taken + 1
    BY <1>1
  <2>2. /\ Increasing(xs) /\ Len(xs) = Len(keys) - f
        /\ \A i \in 1 .. Len(keys) - f : xs[i] = keys[f + i]
    BY <1>1, <2>1, RestFacts
  <2>3. c < Len(xs) /\ c + 1 \in 1 .. Len(keys) - f
    BY <1>1, <2>1, <2>2
  <2>4. xs[c + 1] = k
    <3>1. xs[c + 1] = keys[f + (c + 1)]
      BY <2>2, <2>3
    <3> QED
      BY <2>1, <3>1
  <2>5. SegmentOf(xs, E, c, o) /\ Takes(o, xs[c + 1], c, E)
    BY <1>2, <2>4
  <2> HIDE DEF xs, c, E
  <2>6. SegmentOf(xs, E, c + 1, add_point(o, xs[c + 1], c, E))
    BY <1>1, <2>1, <2>2, <2>3, <2>5, add_pointLemma
  <2>7. SegmentOf(xs, E, c + 1, add_point(o, k, c, E))
    BY <2>4, <2>6
  <2> HIDE DEF k
  <2> QED
    BY <2>1, <2>7 DEF xs, c
<1>3. SegmentOf(Rest(first), E, taken - first, opt)
  BY <1>1 DEF SegmentInv
<1>4. Takes(opt, k, n, E) => SegmentOf(Rest(first), E, (taken + 1) - first, add_point(opt, k, n, E))
  <2>1. first \in 0 .. taken
    BY <1>1
  <2> HIDE DEF k, E
  <2> QED
    BY <1>2, <1>3, <2>1
<1>5. SegmentOf(Rest(taken), E, (taken + 1) - taken, add_point(NewSegment, k, 0, E))
  <2>1. taken \in 0 .. taken /\ taken - taken = 0
    BY <1>1
  <2>2. Increasing(Rest(taken))
    BY <1>1, RestFacts
  <2>3. Rest(taken) \in Seq(Nat)
    BY <2>2 DEF Increasing
  <2>4. SegmentOf(Rest(taken), E, 0, NewSegment)
    BY <1>1, <2>3, NewSegmentLemma
  <2>5. Takes(NewSegment, k, 0, E)
    BY DEF Takes, NewSegment
  <2>6. SegmentOf(Rest(taken), E, taken - taken, NewSegment)
        /\ Takes(NewSegment, k, taken - taken, E)
    BY <2>1, <2>4, <2>5
  <2> HIDE DEF k, E
  <2>7. SegmentOf(Rest(taken), E, (taken + 1) - taken, add_point(NewSegment, k, taken - taken, E))
    BY <1>2, <2>1, <2>6
  <2> QED
    BY <2>1, <2>7
<1>6. first = taken => Takes(opt, k, n, E)
  <2>1. opt.num = n
    BY <1>3 DEF SegmentOf
  <2>2. first = taken => n = 0
    BY <1>1
  <2> HIDE DEF n
  <2> QED
    BY <2>1, <2>2 DEF Takes
<1> QED
  BY <1>4, <1>5, <1>6

\* What append_model leaves, and what it leaves alone when an ASSERT stops it
LEMMA AppendStep ==
  ASSUME NodeInv, aborted = "no", phase = "train", first < taken, AppendModel
  PROVE  /\ aborted' \in {"no", "room", "pool"}
         /\ used' \in Nat /\ Loaded(leaves') /\ ModelsOK(models', leaves', used')
         /\ Laid(region', models')
         /\ aborted' = "no" => Covered(models', taken)
<1> DEFINE m == Fresh
           blob == serialize(m)
           stop == IF used + TrainedLeaves(m) > leaf_num THEN "pool"
                   ELSE IF ~ Room(region, blob) THEN "room" ELSE "no"
           mem == [n \in DOMAIN leaves |->
                     IF n \in used .. used + TrainedLeaves(m) - 1
                       THEN TrainedLeaf(m, n - used, TrainedVal) ELSE leaves[n]]
           u == used + TrainedLeaves(m)
           ms == Append(models, m)
<1>1. /\ Counted /\ SegmentInv /\ Loaded(leaves) /\ ModelsOK(models, leaves, used)
      /\ Laid(region, models) /\ Covered(models, first)
  BY DEF NodeInv
<1>2. aborted' = stop /\
      IF stop # "no" THEN UNCHANGED <<models, region, leaves, used>>
      ELSE /\ models' = ms /\ region' = append(region, last_key(m), blob)
           /\ leaves' = mem /\ used' = u
  BY DEF AppendModel
<1>3. used \in Nat
  BY <1>1 DEF Counted
<1>4. stop \in {"no", "room", "pool"}
  OBVIOUS
<1>5. CASE stop # "no"
  <2> HIDE DEF stop
  <2>1. aborted' = stop /\ models' = models /\ region' = region /\ leaves' = leaves /\ used' = used
    BY <1>2, <1>5
  <2>2. ModelsOK(models', leaves', used') /\ Laid(region', models')
    BY <1>1, <2>1
  <2> QED
    BY <1>1, <1>3, <1>4, <1>5, <2>1, <2>2
<1>6. CASE stop = "no"
  <2>1. ~ (used + TrainedLeaves(m) > leaf_num) /\ Room(region, blob)
    BY <1>6
  <2>2. used + TrainedLeaves(m) <= leaf_num
    <3>1. Trained(m)
      BY <1>1, FreshTrained
    <3>2. TrainedLeaves(m) \in Nat
      <4>1. 1 \in Nat /\ m.capacity \in Nat \ {0}
        BY <3>1 DEF Trained
      <4> HIDE DEF m
      <4> QED
        BY <4>1, LeavesLemma DEF TrainedLeaves
    <3>3. leaf_num \in Nat
      BY <1>1, LoadFacts DEF Counted
    <3> DEFINE a == used + TrainedLeaves(m)
    <3>4. a \in Nat /\ ~ (a > leaf_num)
      BY <1>3, <2>1, <3>2
    <3> HIDE DEF a
    <3>5. a <= leaf_num
      BY <3>3, <3>4
    <3> QED
      BY <3>5 DEF a
  <2>3. models' = ms /\ region' = append(region, last_key(m), blob) /\ leaves' = mem /\ used' = u
        /\ aborted' = "no"
    BY <1>2, <1>6
  <2>4. ModelsOK(ms, mem, u) /\ Loaded(mem) /\ u \in Nat /\ Covered(ms, taken)
    BY <1>1, <2>2, AppendedModels
  <2>5. blob = Blob(m)
    BY <1>1, <2>2, FreshBlob
  <2>6. IsModel(m, Fetched(u))
    BY <1>1, <2>2, FreshModel
  <2>7. Fetched(u) \subseteq Nat
    BY DEF Fetched
  <2>8. IsSeq(models) /\ \A j \in 1 .. Len(models) : Len(Blob(models[j])) \in Nat
    <3>1. IsSeq(models) /\ \A j \in DOMAIN models : IsModel(models[j], Fetched(used))
      BY <1>1 DEF ModelsOK
    <3>2. DOMAIN models = 1 .. Len(models)
      BY <3>1, SeqFacts
    <3>3. Fetched(used) \subseteq Nat
      BY DEF Fetched
    <3> QED
      BY <3>1, <3>2, <3>3, BlobFacts
  <2> HIDE DEF m, u, mem, ms, stop
  <2>9. last_key(m) \in Nat /\ Blob(m) \in Seq(Int)
    BY <2>6, <2>7, ModelFacts, BlobFacts
  <2> HIDE DEF blob
  <2>10. Room(region, Blob(m))
    BY <2>1, <2>5
  <2>11. Laid(append(region, last_key(m), Blob(m)), Append(models, m))
    BY <1>1, <2>8, <2>9, <2>10, AppendLaid
  <2>12. Laid(region', models')
    BY <2>3, <2>5, <2>11 DEF ms
  <2>13. ModelsOK(models', leaves', used') /\ Loaded(leaves') /\ used' \in Nat /\ Covered(models', taken)
    BY <2>3, <2>4
  <2> QED
    BY <2>3, <2>12, <2>13
<1> QED
  BY <1>5, <1>6

\* `load` never changes, and the parts of the invariant use it only.
LEMMA PrimedParts ==
  ASSUME load' = load
  PROVE  /\ keys' = keys /\ leaf_num' = leaf_num
         /\ Loaded(leaves)' <=> Loaded(leaves')
         /\ ModelsOK(models, leaves, used)' <=> ModelsOK(models', leaves', used')
         /\ Covered(models, first)' <=> Covered(models', first')
         /\ Rest(first)' = Rest(first')
<1>1. keys' = keys /\ leaf_num' = leaf_num
  BY DEF keys, leaf_num
<1>2. Loaded(leaves)' <=> Loaded(leaves')
  BY <1>1 DEF Loaded
<1>3. ModelsOK(models, leaves, used)' <=> ModelsOK(models', leaves', used')
  BY <1>1 DEF ModelsOK, Fetched
<1>4. Covered(models, first)' <=> Covered(models', first')
  BY <1>1 DEF Covered
<1>5. Rest(first)' = Rest(first')
  BY <1>1 DEF Rest
<1> QED
  BY <1>1, <1>2, <1>3, <1>4, <1>5

LEMMA CreateStep ==
  ASSUME NodeInv, Create
  PROVE  NodeInv'
<1> DEFINE total_sz == align_to_sz(Loads[load].leaf_region_size)
<1>1. /\ aborted = "no" /\ phase = "create"
      /\ load' = load /\ taken' = taken /\ first' = first /\ opt' = opt /\ models' = models
      /\ region' = region /\ used' = used
      /\ \/ /\ LargeEnough(total_sz) /\ phase' = "train"
            /\ leaves' = [n \in 0 .. leaf_num - 1 |-> NewLeaf]
            /\ aborted' = IF Allocated(total_sz) THEN "no" ELSE "alloc"
         \/ aborted' = "region" /\ phase' = phase /\ leaves' = leaves
  BY DEF Create
<1>2. /\ Counted /\ SegmentInv /\ taken = 0 /\ first = 0 /\ models = <<>>
      /\ Laid(region, models)
  BY <1>1 DEF NodeInv
<1>3. load \in DOMAIN Loads
  BY <1>2 DEF Counted
<1>4. \/ phase' = "train" /\ aborted' = "no" /\ leaves' = [n \in 0 .. leaf_num - 1 |-> NewLeaf]
      \/ aborted' = "region" /\ phase' = "create"
  BY <1>1, <1>3, RegionLargeEnough
<1>5. phase' = "train" => Loaded(leaves')
  <2>1. NewLeaf \in Leaves /\ Sorted(NewLeaf)
    BY NewLeafLemma
  <2> QED
    BY <1>4, <2>1 DEF Loaded
<1>6. Counted' /\ SegmentInv'
  <2>1. keys' = keys /\ Rest(first)' = Rest(first)
    BY <1>1, PrimedParts
  <2> QED
    BY <1>1, <1>2, <2>1 DEF Counted, SegmentInv
<1>7. ModelsOK(models, leaves, used)' /\ Covered(models, first)'
  <2>1. ModelsOK(<<>>, leaves', used') /\ Covered(<<>>, 0)
    BY NoModels
  <2> QED
    BY <1>1, <1>2, <2>1, PrimedParts
<1>8. Laid(region, models)'
  BY <1>1, <1>2
<1>9. phase' # "create" => Loaded(leaves)'
  BY <1>1, <1>4, <1>5, PrimedParts
<1> QED
  BY <1>1, <1>2, <1>4, <1>6, <1>7, <1>8, <1>9 DEF NodeInv

LEMMA AddKeyStep ==
  ASSUME NodeInv, AddKey
  PROVE  NodeInv'
<1> DEFINE k == keys[taken + 1]
           E == Epsilon - 1
<1>1. /\ aborted = "no" /\ phase = "train" /\ taken < Len(keys)
      /\ Takes(opt, k, taken - first, E)
      /\ opt' = add_point(opt, k, taken - first, E)
      /\ taken' = taken + 1 /\ load' = load /\ phase' = phase /\ aborted' = aborted
      /\ first' = first /\ models' = models /\ region' = region /\ leaves' = leaves
      /\ used' = used
  BY DEF AddKey
<1>2. /\ Counted /\ SegmentInv /\ Loaded(leaves) /\ ModelsOK(models, leaves, used)
      /\ Laid(region, models) /\ Covered(models, first)
  BY <1>1 DEF NodeInv
<1>3. /\ load \in DOMAIN Loads /\ first \in 0 .. Len(keys) /\ taken \in first .. Len(keys)
      /\ used \in Nat
  BY <1>2 DEF Counted
<1>4. Len(keys) \in Nat
  BY <1>3, LoadFacts
<1>5. SegmentOf(Rest(first), E, (taken + 1) - first, add_point(opt, k, taken - first, E))
  BY <1>1, <1>2, KeyTaken
<1>6. keys' = keys /\ Rest(first)' = Rest(first)
  BY <1>1, PrimedParts
<1> HIDE DEF k
<1>7. SegmentInv'
  BY <1>1, <1>5, <1>6 DEF SegmentInv
<1>8. taken' \in first' .. Len(keys)' /\ taken' # first'
  BY <1>1, <1>3, <1>4, <1>6
<1>9. Counted'
  BY <1>1, <1>3, <1>6, <1>8 DEF Counted
<1>10. /\ Loaded(leaves)' /\ ModelsOK(models, leaves, used)' /\ Covered(models, first)'
  BY <1>1, <1>2, PrimedParts
<1>11. Laid(region, models)'
  BY <1>1, <1>2
<1> QED
  BY <1>1, <1>7, <1>8, <1>9, <1>10, <1>11 DEF NodeInv

LEMMA CloseSegmentStep ==
  ASSUME NodeInv, CloseSegment
  PROVE  NodeInv'
<1> DEFINE k == keys[taken + 1]
           E == Epsilon - 1
<1>1. /\ aborted = "no" /\ phase = "train" /\ taken < Len(keys)
      /\ ~ Takes(opt, k, taken - first, E) /\ AppendModel
      /\ opt' = add_point(NewSegment, k, 0, E)
      /\ first' = taken /\ taken' = taken + 1 /\ load' = load /\ phase' = phase
  BY DEF CloseSegment
<1>2. Counted /\ SegmentInv
  BY <1>1 DEF NodeInv
<1>3. /\ load \in DOMAIN Loads /\ first \in 0 .. Len(keys) /\ taken \in first .. Len(keys)
  BY <1>2 DEF Counted
<1>4. Len(keys) \in Nat
  BY <1>3, LoadFacts
<1>5. /\ SegmentOf(Rest(taken), E, (taken + 1) - taken, add_point(NewSegment, k, 0, E))
      /\ first # taken
  BY <1>1, <1>2, KeyTaken
<1>6. first < taken
  BY <1>3, <1>4, <1>5
<1>7. /\ aborted' \in {"no", "room", "pool"}
      /\ used' \in Nat /\ Loaded(leaves') /\ ModelsOK(models', leaves', used')
      /\ Laid(region', models')
      /\ aborted' = "no" => Covered(models', taken)
  BY <1>1, <1>6, AppendStep
<1>8. keys' = keys /\ Rest(first)' = Rest(first')
  BY <1>1, PrimedParts
<1> HIDE DEF k
<1>9. SegmentInv'
  BY <1>1, <1>5, <1>8 DEF SegmentInv
<1>10. first' \in 0 .. Len(keys)' /\ taken' \in first' .. Len(keys)' /\ taken' # first'
  BY <1>1, <1>3, <1>4, <1>8
<1>11. Counted'
  BY <1>1, <1>3, <1>7, <1>8, <1>10 DEF Counted
<1>12. /\ Loaded(leaves)' /\ ModelsOK(models, leaves, used)'
       /\ aborted' = "no" => Covered(models, first)'
  BY <1>1, <1>7, PrimedParts
<1>13. Laid(region, models)'
  BY <1>7
<1> QED
  BY <1>1, <1>7, <1>9, <1>10, <1>11, <1>12, <1>13 DEF NodeInv

LEMMA FinishStep ==
  ASSUME NodeInv, FinishTraining
  PROVE  NodeInv'
<1>1. /\ aborted = "no" /\ phase = "train" /\ taken = Len(keys) /\ first < Len(keys)
      /\ AppendModel /\ first' = Len(keys) /\ load' = load /\ phase' = phase
      /\ taken' = taken /\ opt' = opt
  BY DEF FinishTraining
<1>2. Counted
  BY <1>1 DEF NodeInv
<1>3. /\ load \in DOMAIN Loads /\ first \in 0 .. Len(keys) /\ taken \in first .. Len(keys)
  BY <1>2 DEF Counted
<1>4. Len(keys) \in Nat
  BY <1>3, LoadFacts
<1>5. first < taken
  BY <1>1
<1>6. /\ aborted' \in {"no", "room", "pool"}
      /\ used' \in Nat /\ Loaded(leaves') /\ ModelsOK(models', leaves', used')
      /\ Laid(region', models')
      /\ aborted' = "no" => Covered(models', taken)
  BY <1>1, <1>5, AppendStep
<1>7. keys' = keys
  BY <1>1, PrimedParts
<1>8. SegmentInv'
  BY <1>1, <1>4, <1>7 DEF SegmentInv
<1>9. first' \in 0 .. Len(keys)' /\ taken' \in first' .. Len(keys)' /\ first' = Len(keys)'
  BY <1>1, <1>4, <1>7
<1>10. Counted'
  BY <1>1, <1>3, <1>6, <1>7, <1>9 DEF Counted
<1>11. /\ Loaded(leaves)' /\ ModelsOK(models, leaves, used)'
       /\ aborted' = "no" => Covered(models, first)'
  BY <1>1, <1>6, PrimedParts
<1>12. Laid(region, models)'
  BY <1>6
<1> QED
  BY <1>1, <1>6, <1>8, <1>9, <1>10, <1>11, <1>12 DEF NodeInv

LEMMA StartDaemonStep ==
  ASSUME NodeInv, StartDaemon
  PROVE  NodeInv'
<1> DEFINE new == [region EXCEPT !.mem[0] = Len(models)]
<1>1. /\ aborted = "no" /\ phase = "train" /\ first = Len(keys)
      /\ region' = new /\ phase' = "serving" /\ load' = load /\ aborted' = aborted
      /\ taken' = taken /\ first' = first /\ opt' = opt /\ models' = models
      /\ leaves' = leaves /\ used' = used
  BY DEF StartDaemon
<1>2. /\ Counted /\ SegmentInv /\ Loaded(leaves) /\ ModelsOK(models, leaves, used)
      /\ Laid(region, models) /\ Covered(models, first)
  BY <1>1 DEF NodeInv
<1>3. IsSeq(models) /\ \A j \in 1 .. Len(models) : Len(Blob(models[j])) \in Nat
  <2>1. IsSeq(models) /\ \A j \in DOMAIN models : IsModel(models[j], Fetched(used))
    BY <1>2 DEF ModelsOK
  <2>2. DOMAIN models = 1 .. Len(models)
    BY <2>1, SeqFacts
  <2>3. Fetched(used) \subseteq Nat
    BY DEF Fetched
  <2> QED
    BY <2>1, <2>2, <2>3, BlobFacts
<1>4. Laid(new, models) /\ new.mem[0] = Len(models)
  BY <1>2, <1>3, LaidNumbered
<1> HIDE DEF new
<1>5. keys' = keys /\ Rest(first)' = Rest(first)
  BY <1>1, PrimedParts
<1>6. Counted' /\ SegmentInv'
  BY <1>1, <1>2, <1>5 DEF Counted, SegmentInv
<1>7. /\ Loaded(leaves)' /\ ModelsOK(models, leaves, used)' /\ Covered(models, first)'
  BY <1>1, <1>2, PrimedParts
<1>8. Laid(region, models)' /\ region'.mem[0] = Len(models)'
  BY <1>1, <1>4
<1> QED
  BY <1>1, <1>5, <1>6, <1>7, <1>8 DEF NodeInv

\* Every key has a model once the node serves: the first one that ends at it or
\* behind it, the last one when there is none.
LEMMA ServingModels ==
  ASSUME NodeInv, phase = "serving", NEW k \in Keys
  PROVE  /\ IsSeq(models) /\ Len(models) \in Nat /\ DOMAIN models = 1 .. Len(models)
         /\ models # <<>> /\ Len(models) > 0
         /\ model_keys = [j \in 1 .. Len(models) |-> last_key(models[j])]
         /\ ModelOf(k) \in DOMAIN models
         /\ \A j \in DOMAIN models : IsModel(models[j], Fetched(used)) /\ Sound(models[j].lt)
         /\ \A i \in 1 .. Len(models) - 1 : last_key(models[i]) < k <=> i < ModelOf(k)
<1> DEFINE n == Len(models)
           ks == [j \in 1 .. n |-> last_key(models[j])]
<1>1. /\ Counted /\ ModelsOK(models, leaves, used) /\ Covered(models, first) /\ first = Len(keys)
  BY DEF NodeInv
<1>2. IsSeq(models) /\ n \in Nat /\ DOMAIN models = 1 .. n
  BY <1>1, SeqFacts DEF ModelsOK
<1>3. models # <<>> /\ n > 0
  <2>1. first # 0
    BY <1>1, LoadFacts DEF Counted
  <2>2. models # <<>>
    BY <1>1, <2>1 DEF Covered
  <2>3. PICK S : models \in Seq(S)
    BY <1>2 DEF IsSeq
  <2> QED
    BY <1>2, <2>2, <2>3
<1>4. \A j \in DOMAIN models : IsModel(models[j], Fetched(used)) /\ Sound(models[j].lt)
  BY <1>1 DEF ModelsOK, IsModel
<1>5. model_keys = ks
  BY <1>2 DEF model_keys
<1>6. \A j \in 1 .. n : last_key(models[j]) \in Nat /\ models[j].keys[1] <= last_key(models[j])
                        /\ models[j].keys[1] \in Nat
  <2> TAKE j \in 1 .. n
  <2>1. IsModel(models[j], Fetched(used))
    BY <1>2, <1>4
  <2>2. 1 \in 1 .. models[j].capacity
    <3>1. models[j].capacity \in Nat \ {0}
      BY <2>1, ModelFacts
    <3> QED
      BY <3>1
  <2> QED
    BY <2>1, <2>2, ModelFacts
<1>7. \A i, j \in 1 .. n : i < j => last_key(models[i]) < models[j].keys[1]
  BY <1>1, <1>2 DEF ModelsOK, Ordered
<1>8. \A i, j \in 1 .. n : i <= j => last_key(models[i]) <= last_key(models[j])
  <2> TAKE i, j \in 1 .. n
  <2> DEFINE a == last_key(models[i])
             b == last_key(models[j])
             f == models[j].keys[1]
  <2>1. a \in Nat /\ b \in Nat /\ f \in Nat /\ f <= b /\ (i < j => a < f)
    BY <1>6, <1>7
  <2>2. i = j => a = b
    OBVIOUS
  <2> HIDE DEF a, b, f
  <2>3. i <= j => a <= b
    BY <1>2, <2>1, <2>2
  <2> QED
    BY <2>3 DEF a, b
<1>9. ks \in Seq(Nat) /\ Len(ks) = n /\ \A j \in 1 .. n : ks[j] = last_key(models[j])
  BY <1>2, <1>6
<1>10. k \in Nat
  <2>1. InvalidKey \in Nat
    BY LeafAssumption
  <2> QED
    BY <2>1 DEF Keys
<1> HIDE DEF n, ks
<1>11. /\ model_for_key(ks, k) \in 0 .. n - 1
       /\ \A i \in 1 .. n - 1 : ks[i] < k <=> i <= model_for_key(ks, k)
  <2>1. \A i, j \in 1 .. Len(ks) : i <= j => ks[i] <= ks[j]
    BY <1>8, <1>9
  <2>2. Len(ks) > 0
    BY <1>3, <1>9
  <2>3. /\ model_for_key(ks, k) \in 0 .. Len(ks) - 1
        /\ \A i \in 1 .. Len(ks) - 1 : ks[i] < k <=> i <= model_for_key(ks, k)
    BY <1>9, <1>10, <2>1, <2>2, ModelForKey
  <2> QED
    BY <1>9, <2>3
<1> DEFINE f == model_for_key(ks, k)
<1>12. ModelOf(k) = f + 1
  BY <1>5 DEF ModelOf
<1>13. f \in 0 .. n - 1 /\ \A i \in 1 .. n - 1 : ks[i] < k <=> i <= f
  BY <1>11
<1> HIDE DEF f
<1>14. f + 1 \in 1 .. n /\ \A i \in 1 .. n - 1 : i <= f <=> i < f + 1
  BY <1>2, <1>13
<1>15. \A i \in 1 .. n - 1 : ks[i] = last_key(models[i])
  BY <1>2, <1>9
<1>16. ModelOf(k) \in DOMAIN models /\ \A i \in 1 .. n - 1 : last_key(models[i]) < k <=> i < ModelOf(k)
  BY <1>2, <1>12, <1>13, <1>14, <1>15
<1> QED
  BY <1>2, <1>3, <1>4, <1>5, <1>16 DEF n, ks

\* A put of the server
LEMMA PutKeyStep ==
  ASSUME N % 2 = 0, NodeInv, NEW k \in Loads[load].puts, PutKey(k)
  PROVE  /\ NodeInv' /\ SameBases(models, models') /\ KeysStay(models, leaves, models', leaves')
         /\ phase = "serving" /\ phase' = "serving"
<1> DEFINE j == ModelOf(k)
           m == models[j]
           r == Insert(m.lt, leaves, used, k, PutVal, lo(m, k), hi(m, k))
           need == NeedsLeaf(m.lt, leaves, k, lo(m, k), hi(m, k))
           dry == need /\ used >= leaf_num
           ns == [models EXCEPT ![j].lt = r.lt]
<1>1. /\ aborted = "no" /\ phase = "serving"
      /\ IF dry THEN aborted' = "pool" /\ models' = models /\ leaves' = leaves /\ used' = used
         ELSE models' = ns /\ leaves' = r.mem /\ used' = r.used /\ aborted' = aborted
      /\ load' = load /\ phase' = phase /\ taken' = taken /\ first' = first /\ opt' = opt
      /\ region' = region
  BY DEF PutKey
<1>2. /\ Counted /\ SegmentInv /\ Loaded(leaves) /\ ModelsOK(models, leaves, used)
      /\ Laid(region, models) /\ Covered(models, first) /\ first = Len(keys)
      /\ region.mem[0] = Len(models)
  BY <1>1 DEF NodeInv
<1>3. /\ load \in DOMAIN Loads /\ first \in 0 .. Len(keys) /\ taken \in first .. Len(keys)
      /\ used \in Nat
  BY <1>2 DEF Counted
<1>4. k \in Keys /\ PutVal \in Vals /\ leaf_num \in Nat
  BY <1>3, LoadFacts
<1>5. j \in DOMAIN models /\ IsSeq(models) /\ models # <<>>
  BY <1>1, <1>4, ServingModels
<1>6. /\ ModelsOK(models', leaves', used') /\ Loaded(leaves') /\ used' \in Nat
      /\ SameBases(models, models') /\ KeysStay(models, leaves, models', leaves')
      /\ aborted' \in {"no", "pool"}
  <2>1. CASE dry
    <3> HIDE DEF dry
    <3>1. models' = models /\ leaves' = leaves /\ used' = used /\ aborted' = "pool"
      BY <1>1, <2>1
    <3>2. SameBases(models, models)
      BY <1>2, SameModels
    <3>3. KeysStay(models, leaves, models, leaves)
      BY DEF KeysStay
    <3> QED
      BY <1>2, <1>3, <3>1, <3>2, <3>3
  <2>2. CASE ~ dry
    <3>1. need => used < leaf_num
      <4>1. need => ~ (used >= leaf_num)
        BY <2>2
      <4> HIDE DEF need
      <4> QED
        BY <1>3, <1>4, <4>1
    <3>2. models' = ns /\ leaves' = r.mem /\ used' = r.used /\ aborted' = "no"
      <4> HIDE DEF dry, ns, r
      <4> QED
        BY <1>1, <2>2
    <3>3. /\ ModelsOK(ns, r.mem, r.used) /\ Loaded(r.mem)
          /\ KeysStay(models, leaves, ns, r.mem) /\ SameBases(models, ns)
          /\ r.used \in Nat
      <4> HIDE DEF j
      <4> QED
        BY <1>2, <1>3, <1>4, <1>5, <3>1, InsertedModels
    <3> HIDE DEF ns, r
    <3> QED
      BY <3>2, <3>3
  <2> QED
    BY <2>1, <2>2
<1> HIDE DEF dry, need, ns, r, m, j
<1>7. Laid(region, models')
  BY <1>2, <1>6, LaidKept
<1>8. Len(models') = Len(models) /\ Covered(models', first)
  <2>1. Len(models') = Len(models)
    BY <1>2, <1>6, SameSnapshot
  <2>2. DOMAIN models' = DOMAIN models
    BY <1>6 DEF SameBases
  <2>3. ASSUME NEW i \in DOMAIN models PROVE last_key(models'[i]) = last_key(models[i])
    <3>1. IsModel(models[i], Fetched(used))
      BY <1>2 DEF ModelsOK
    <3> QED
      BY <1>6, <3>1, SameShots
  <2>4. models' # <<>>
    <3>1. Len(models) \in Nat /\ DOMAIN models = 1 .. Len(models)
      BY <1>5, SeqFacts
    <3> QED
      BY <1>5, <2>2, <3>1
  <2>5. first # 0
    BY <1>2, <1>5 DEF Covered
  <2> QED
    BY <1>2, <2>1, <2>2, <2>3, <2>4, <2>5 DEF Covered
<1>9. keys' = keys /\ Rest(first)' = Rest(first)
  BY <1>1, PrimedParts
<1>10. Counted' /\ SegmentInv'
  BY <1>1, <1>2, <1>3, <1>6, <1>9 DEF Counted, SegmentInv
<1>11. /\ Loaded(leaves)' /\ ModelsOK(models, leaves, used)' /\ Covered(models, first)'
  BY <1>1, <1>6, <1>8, PrimedParts
<1>12. Laid(region, models)' /\ region'.mem[0] = Len(models)'
  BY <1>1, <1>2, <1>7, <1>8
<1>13. NodeInv'
  BY <1>1, <1>2, <1>6, <1>9, <1>10, <1>11, <1>12 DEF NodeInv
<1> QED
  BY <1>1, <1>6, <1>13
-----------------------------------------------------------------------------
\* The leaves that a call for key k may look at, and the entry of the x-th of them
Window(m, k) == [i \in 1 .. hi(m, k) - lo(m, k) + 1 |-> Base(m, lo(m, k) + i - 1)]
EntryAt(m, k, x) == lo(m, k) + x - 1

\* Where a coroutine is goes with the call it makes.
Kinds(o, c) ==
  /\ c \in {"search", "insert", "write", "fetch", "posted", "ready", "search_syn"}
  /\ c \in {"search", "insert", "search_syn"} => o.kind = c
  /\ c \in {"write", "fetch"} => o.kind = "insert"
  /\ c \in {"posted", "ready"} => Posts(o.kind)

\* The copy that is written back takes the key, and has the keys of training that
\* are in no synonym leaf of its entry.
Copied(o, m, mem) ==
  LET e == EntryAt(m, o.key, o.at)
  IN  /\ insertHere(o.copy, o.key) /\ ~ isfull(o.copy)
      /\ Headed(m, e, o.copy)
      /\ \A i \in 1 .. m.capacity : (i - 1) \div N = e =>
           m.keys[i] \in KeysOf(o.copy) \/ InEntry(m, mem, e, 1, m.keys[i])

\* A call under way, for a key of submodel m
Called(o, c, b, m, mem) ==
  /\ o = [kind |-> o.kind, key |-> o.key, leaves |-> o.leaves, at |-> o.at,
          copy |-> o.copy, held |-> o.held, lone |-> o.lone]
  /\ o.key \in Keys
  /\ o.leaves = Window(m, o.key)
  /\ o.at \in 1 .. hi(m, o.key) - lo(m, o.key) + 1
  /\ o.copy \in Leaves /\ Sorted(o.copy)
  /\ \A x \in o.held : /\ x \in 1 .. hi(m, o.key) - lo(m, o.key) + 1
                       /\ o.key \in KeysOf(mem[o.leaves[x]])
  /\ c = "search" => \A x \in o.held : x <= o.at
  /\ c = "ready" /\ o.lone /\ 1 \in o.held => o.key \in KeysOf(b)
  /\ c \in {"insert", "write"} =>
       \A x \in o.at + 1 .. hi(m, o.key) - lo(m, o.key) + 1 :
         o.key < FirstKey(m, EntryAt(m, o.key, x))
  /\ c = "write" => Copied(o, m, mem)

\* n is submodel m, but for its synonym leaves.
SameBase(m, n) ==
  /\ n = [m EXCEPT !.lt = n.lt]
  /\ DOMAIN n.lt.table = DOMAIN m.lt.table
  /\ \A e \in DOMAIN m.lt.table : Base(n, e) = Base(m, e)

LEMMA WindowFacts ==
  ASSUME NEW m, NEW T, IsModel(m, T), NEW k \in Keys
  PROVE  LET a == lo(m, k)
             size == hi(m, k) - lo(m, k) + 1
         IN  /\ a \in Nat /\ hi(m, k) \in Nat /\ size \in Nat /\ size > 0
             /\ DOMAIN Window(m, k) = 1 .. size /\ Len(Window(m, k)) = size
             /\ \A x \in 1 .. size :
                  /\ EntryAt(m, k, x) \in Nat /\ EntryAt(m, k, x) = a + x - 1
                  /\ EntryAt(m, k, x) \in DOMAIN m.lt.table
                  /\ EntryAt(m, k, x) \in a .. hi(m, k)
                  /\ Window(m, k)[x] = Base(m, EntryAt(m, k, x))
                  /\ Window(m, k)[x] \in T
<1> DEFINE a == lo(m, k)
           b == hi(m, k)
           size == b - a + 1
           t == TrainedLeaves(m)
<1>1. /\ Trained(m) /\ DOMAIN m.lt.table = 0 .. t - 1
      /\ \A e \in DOMAIN m.lt.table : Base(m, e) \in T
  BY DEF IsModel
<1>2. t \in Nat /\ a \in Nat /\ b \in Nat /\ a <= b /\ b <= t - 1
  BY <1>1, WindowLemma
<1> HIDE DEF t
<1>3. EntryAt(m, k, 1) = a + 1 - 1 /\ \A x : EntryAt(m, k, x) = a + x - 1
  BY DEF EntryAt
<1>4. Window(m, k) = [i \in 1 .. size |-> Base(m, a + i - 1)]
  BY DEF Window
<1> HIDE DEF a, b
<1>5. size \in Nat /\ size > 0
  BY <1>2
<1> HIDE DEF size
<1>6. DOMAIN Window(m, k) = 1 .. size /\ Len(Window(m, k)) = size
  BY <1>4, <1>5
<1>7. ASSUME NEW x \in 1 .. size
      PROVE  a + x - 1 \in Nat /\ a + x - 1 \in a .. b /\ a + x - 1 \in 0 .. t - 1
  BY <1>2, <1>5 DEF size
<1>8. ASSUME NEW x \in 1 .. size
      PROVE  /\ EntryAt(m, k, x) \in Nat /\ EntryAt(m, k, x) = a + x - 1
             /\ EntryAt(m, k, x) \in DOMAIN m.lt.table
             /\ EntryAt(m, k, x) \in a .. b
             /\ Window(m, k)[x] = Base(m, EntryAt(m, k, x))
             /\ Window(m, k)[x] \in T
  BY <1>1, <1>3, <1>4, <1>7
<1> QED
  BY <1>2, <1>5, <1>6, <1>8 DEF a, b, size

LEMMA SameBaseFacts ==
  ASSUME NEW m, NEW T, IsModel(m, T), NEW n, SameBase(m, n)
  PROVE  /\ n.capacity = m.capacity /\ n.keys = m.keys /\ last_key(n) = last_key(m)
         /\ \A e : FirstKey(n, e) = FirstKey(m, e)
         /\ \A q : lo(n, q) = lo(m, q) /\ hi(n, q) = hi(m, q)
         /\ \A e, v : Headed(n, e, v) <=> Headed(m, e, v)
<1> DEFINE x == n.lt
           r == [m EXCEPT !.lt = x]
<1>1. n = r
  BY DEF SameBase
<1> HIDE DEF x
<1>2. r = [num |-> m.num, den |-> m.den, icn |-> m.icn, icd |-> m.icd,
           capacity |-> m.capacity, keys |-> m.keys, lt |-> x]
  <2>1. m = [num |-> m.num, den |-> m.den, icn |-> m.icn, icd |-> m.icd,
             capacity |-> m.capacity, keys |-> m.keys, lt |-> m.lt]
    BY DEF IsModel
  <2> QED
    BY <2>1
<1> HIDE DEF r
<1>3. /\ r.num = m.num /\ r.den = m.den /\ r.icn = m.icn /\ r.icd = m.icd
      /\ r.capacity = m.capacity /\ r.keys = m.keys
  BY <1>2
<1>4. last_key(r) = last_key(m) /\ \A e : FirstKey(r, e) = FirstKey(m, e)
  BY <1>3 DEF last_key, FirstKey
<1>5. \A k : Above(r, k) = Above(m, k) /\ Below(r, k) = Below(m, k)
  BY <1>3 DEF Above, Below, pos
<1>6. \A k : lo(r, k) = lo(m, k) /\ hi(r, k) = hi(m, k)
  BY <1>3, <1>5 DEF lo, hi
<1>7. \A e, v : Headed(r, e, v) <=> Headed(m, e, v)
  BY <1>4, <1>6 DEF Headed
<1> QED
  BY <1>1, <1>3, <1>4, <1>6, <1>7

\* A call goes on as it is when the leaves change under it: nothing but the leaves
\* that have had the key is less than before.
LEMMA CalledKept ==
  ASSUME load \in DOMAIN Loads, NEW m, NEW u, IsModel(m, Fetched(u)), NEW mem,
         NEW o, NEW c, NEW b, Called(o, c, b, m, mem),
         NEW n, SameBase(m, n), NEW new, Loaded(new),
         \A e \in DOMAIN m.lt.table : \A k : InEntry(m, mem, e, 1, k) => InEntry(n, new, e, 1, k)
  PROVE  Called([o EXCEPT !.held = {i \in @ : contain(new[o.leaves[i]], o.key)}],
                c, b, n, new)
<1> DEFINE k == o.key
           size == hi(m, k) - lo(m, k) + 1
           h == {i \in o.held : contain(new[o.leaves[i]], k)}
           s == [o EXCEPT !.held = h]
           lt == n.lt
<1>1. /\ o = [kind |-> o.kind, key |-> o.key, leaves |-> o.leaves, at |-> o.at,
              copy |-> o.copy, held |-> o.held, lone |-> o.lone]
      /\ k \in Keys /\ o.leaves = Window(m, k) /\ o.at \in 1 .. size
      /\ o.copy \in Leaves /\ Sorted(o.copy)
      /\ \A x \in o.held : x \in 1 .. size /\ k \in KeysOf(mem[o.leaves[x]])
      /\ c = "search" => \A x \in o.held : x <= o.at
      /\ c = "ready" /\ o.lone /\ 1 \in o.held => k \in KeysOf(b)
      /\ c \in {"insert", "write"} =>
           \A x \in o.at + 1 .. size : k < FirstKey(m, EntryAt(m, k, x))
      /\ c = "write" => Copied(o, m, mem)
  BY DEF Called
<1>2. /\ n = [m EXCEPT !.lt = lt] /\ DOMAIN lt.table = DOMAIN m.lt.table
      /\ \A e \in DOMAIN m.lt.table : Base(n, e) = Base(m, e)
  BY DEF SameBase
<1>3. /\ n.capacity = m.capacity /\ n.keys = m.keys
      /\ \A e : FirstKey(n, e) = FirstKey(m, e)
      /\ \A q : lo(n, q) = lo(m, q) /\ hi(n, q) = hi(m, q)
      /\ \A e, v : Headed(n, e, v) <=> Headed(m, e, v)
  BY SameBaseFacts
<1>4. /\ DOMAIN Window(m, k) = 1 .. size /\ size \in Nat
      /\ \A x \in 1 .. size : /\ EntryAt(m, k, x) \in DOMAIN m.lt.table
                              /\ EntryAt(m, k, x) = lo(m, k) + x - 1
                              /\ Window(m, k)[x] \in Fetched(u)
  BY <1>1, WindowFacts
<1>5. s = [kind |-> o.kind, key |-> o.key, leaves |-> o.leaves, at |-> o.at,
           copy |-> o.copy, held |-> h, lone |-> o.lone]
  <2> HIDE DEF h
  <2>1. o = [kind |-> o.kind, key |-> o.key, leaves |-> o.leaves, at |-> o.at,
             copy |-> o.copy, held |-> o.held, lone |-> o.lone]
    BY <1>1
  <2> QED
    BY <2>1
<1>6. /\ s.kind = o.kind /\ s.key = k /\ s.leaves = o.leaves /\ s.at = o.at
      /\ s.copy = o.copy /\ s.held = h /\ s.lone = o.lone
  BY <1>5
<1>7. Window(n, k) = Window(m, k)
  <2>1. \A i \in 1 .. size : Base(n, lo(m, k) + i - 1) = Base(m, lo(m, k) + i - 1)
    BY <1>2, <1>4
  <2> QED
    BY <1>3, <2>1 DEF Window
<1>8. \A q, x : EntryAt(n, q, x) = EntryAt(m, q, x)
  BY <1>3 DEF EntryAt
<1>9. h \subseteq o.held
  OBVIOUS
<1> HIDE DEF s, lt
<1>10. ASSUME NEW x \in h PROVE x \in 1 .. size /\ k \in KeysOf(new[o.leaves[x]])
  <2>1. x \in 1 .. size /\ contain(new[o.leaves[x]], k)
    BY <1>1
  <2>2. o.leaves[x] \in 0 .. leaf_num - 1
    BY <1>1, <1>4, <2>1 DEF Fetched
  <2>3. new[o.leaves[x]] \in Leaves /\ Sorted(new[o.leaves[x]])
    BY <2>2 DEF Loaded
  <2> QED
    BY <1>1, <2>1, <2>3, FoundLemma
<1>11. c = "write" => Copied(s, n, new)
  <2> SUFFICES ASSUME c = "write" PROVE Copied(s, n, new)
    OBVIOUS
  <2> DEFINE e == EntryAt(m, k, o.at)
  <2>1. /\ insertHere(o.copy, k) /\ ~ isfull(o.copy) /\ Headed(m, e, o.copy)
        /\ \A i \in 1 .. m.capacity : (i - 1) \div N = e =>
             m.keys[i] \in KeysOf(o.copy) \/ InEntry(m, mem, e, 1, m.keys[i])
    BY <1>1 DEF Copied
  <2>2. e \in DOMAIN m.lt.table
    BY <1>1, <1>4
  <2>3. \A i \in 1 .. m.capacity : (i - 1) \div N = e =>
          m.keys[i] \in KeysOf(o.copy) \/ InEntry(n, new, e, 1, m.keys[i])
    BY <2>1, <2>2
  <2> QED
    BY <1>3, <1>6, <1>8, <2>1, <2>3 DEF Copied
<1> HIDE DEF h
<1>12. Called(s, c, b, n, new)
  BY <1>1, <1>3, <1>5, <1>6, <1>7, <1>8, <1>9, <1>10, <1>11 DEF Called
<1> QED
  BY <1>12 DEF s, h
-----------------------------------------------------------------------------
\* The submodel that model_for_key finds
ModelIn(ms, k) == model_for_key([i \in DOMAIN ms |-> last_key(ms[i])], k) + 1

\* What a coroutine knows of its call; b is the leaf in the buffer of its node.
CallOn(o, c, b, ms, mem) ==
  IF c = "idle" THEN o = NoCall
  ELSE Kinds(o, c) /\ Called(o, c, b, ms[ModelIn(ms, o.key)], mem)

CallsInv ==
  /\ pc = [a \in Actors |-> pc[a]] /\ op = [a \in Actors |-> op[a]]
  /\ \A a \in Actors :
       /\ pc[a] # "idle" => phase = "serving"
       /\ CallOn(op[a], pc[a], buf[a[1]], models, leaves)

\* A node that has an index has the models that the server trained.
IndexInv ==
  /\ index = [n \in Nodes |-> index[n]]
  /\ \A n \in Nodes : index[n] # NoIndex => phase = "serving" /\ index[n] = Snapshot(models)

\* A posted read waits in one place of one queue.
WireInv ==
  /\ wire \in [Nodes -> Seq(Actors)]
  /\ \A n \in Nodes : \A x \in 1 .. Len(wire[n]) :
       /\ pc[wire[n][x]] = "posted" /\ wire[n][x][1] = n
       /\ \A y \in 1 .. Len(wire[n]) : wire[n][x] = wire[n][y] => x = y

OutsideInv ==
  /\ buf \in [Nodes -> Leaves] /\ \A n \in Nodes : Sorted(buf[n])
  /\ down \subseteq Nodes
  /\ reply.ok \in BOOLEAN /\ reply.val \in Vals \cup {NoVal}

CacheInv == NodeInv /\ CallsInv /\ IndexInv /\ WireInv /\ OutsideInv

LEMMA InitCache ==
  CacheInit => CacheInv
<1> SUFFICES ASSUME CacheInit PROVE CacheInv
  OBVIOUS
<1>1. /\ Init /\ index = [n \in Nodes |-> NoIndex] /\ down = {}
      /\ pc = [a \in Actors |-> "idle"] /\ op = [a \in Actors |-> NoCall]
      /\ wire = [n \in Nodes |-> <<>>] /\ buf = [n \in Nodes |-> NewLeaf]
      /\ reply = [ok |-> FALSE, val |-> NoVal]
  BY DEF CacheInit
<1>2. NodeInv
  BY <1>1, InitNode
<1>3. CallsInv
  BY <1>1 DEF CallsInv, CallOn
<1>4. IndexInv
  BY <1>1 DEF IndexInv
<1>5. WireInv
  <2>1. <<>> \in Seq(Actors) /\ Len(<<>>) = 0
    OBVIOUS
  <2>2. wire \in [Nodes -> Seq(Actors)]
    BY <1>1, <2>1
  <2>3. \A n \in Nodes : 1 .. Len(wire[n]) = {}
    BY <1>1
  <2> QED
    BY <2>2, <2>3 DEF WireInv
<1>6. OutsideInv
  <2>1. NewLeaf \in Leaves /\ Sorted(NewLeaf)
    BY NewLeafLemma
  <2> QED
    BY <1>1, <2>1 DEF OutsideInv
<1> QED
  BY <1>2, <1>3, <1>4, <1>5, <1>6 DEF CacheInv

\* A change of the leaves, remembered for a call
Lessened(o, mem) == [o EXCEPT !.held = {i \in @ : contain(mem[o.leaves[i]], o.key)}]

\* A change of the leaves that keeps what is in the synonym leaves of every entry
ChainsStay(ms, mem, ns, new) ==
  \A i \in DOMAIN ms : \A e \in DOMAIN ms[i].lt.table : \A k :
    InEntry(ms[i], mem, e, 1, k) => InEntry(ns[i], new, e, 1, k)

\* The same submodel is found for a key.
LEMMA SameModelIn ==
  ASSUME NEW ms, NEW u, NEW mem, ModelsOK(ms, mem, u), NEW ns, SameBases(ms, ns), NEW k
  PROVE  ModelIn(ns, k) = ModelIn(ms, k)
<1>1. DOMAIN ns = DOMAIN ms
  BY DEF SameBases
<1>2. \A i \in DOMAIN ms : last_key(ns[i]) = last_key(ms[i])
  BY SameShots DEF ModelsOK
<1>3. [i \in DOMAIN ns |-> last_key(ns[i])] = [i \in DOMAIN ms |-> last_key(ms[i])]
  BY <1>1, <1>2
<1> QED
  BY <1>3 DEF ModelIn

LEMMA NoCallFacts ==
  \A mem : Lessened(NoCall, mem) = NoCall
<1> TAKE mem
<1> DEFINE h == {i \in {} : contain(mem[NoCall.leaves[i]], NoCall.key)}
<1>1. h = {}
  OBVIOUS
<1>2. NoCall.held = {}
  BY DEF NoCall
<1>3. Lessened(NoCall, mem) = [NoCall EXCEPT !.held = h]
  BY <1>2 DEF Lessened
<1> HIDE DEF h
<1>4. [NoCall EXCEPT !.held = {}] = NoCall
  <2> DEFINE ls == <<>>
             hs == {}
             lone == TRUE
             none == "none"
             r == [kind |-> none, key |-> InvalidKey, leaves |-> ls, at |-> 0,
                   copy |-> NewLeaf, held |-> hs, lone |-> lone]
  <2>1. NoCall = r
    BY DEF NoCall
  <2> HIDE DEF ls, hs, lone, none
  <2>2. [r EXCEPT !.held = hs] = r
    OBVIOUS
  <2> QED
    BY <2>1, <2>2 DEF hs
<1> QED
  BY <1>1, <1>3, <1>4

\* A model that every key has
LEMMA ModelInFacts ==
  ASSUME NodeInv, phase = "serving", NEW k \in Keys
  PROVE  /\ ModelIn(models, k) = ModelOf(k) /\ ModelOf(k) \in DOMAIN models
         /\ IsModel(models[ModelOf(k)], Fetched(used))
<1>1. ModelIn(models, k) = ModelOf(k)
  BY DEF ModelIn, ModelOf, model_keys
<1> QED
  BY <1>1, ServingModels

LEMMA CallsKept ==
  ASSUME NodeInv, phase = "serving", NEW ns, NEW new, Loaded(new),
         SameBases(models, ns), ChainsStay(models, leaves, ns, new),
         NEW o, NEW c, NEW b, CallOn(o, c, b, models, leaves)
  PROVE  CallOn(Lessened(o, new), c, b, ns, new)
<1>1. CASE c = "idle"
  BY <1>1, NoCallFacts DEF CallOn
<1>2. CASE c # "idle"
  <2> DEFINE j == ModelIn(models, o.key)
             m == models[j]
             n == ns[j]
             s == Lessened(o, new)
  <2>1. Kinds(o, c) /\ Called(o, c, b, m, leaves)
    BY <1>2 DEF CallOn
  <2>2. o.key \in Keys /\ s.key = o.key /\ s.kind = o.kind
    <3>1. o = [kind |-> o.kind, key |-> o.key, leaves |-> o.leaves, at |-> o.at,
               copy |-> o.copy, held |-> o.held, lone |-> o.lone] /\ o.key \in Keys
      BY <2>1 DEF Called
    <3> DEFINE h == {i \in o.held : contain(new[o.leaves[i]], o.key)}
    <3>2. s = [o EXCEPT !.held = h]
      BY DEF Lessened
    <3> HIDE DEF h, s
    <3>3. s = [kind |-> o.kind, key |-> o.key, leaves |-> o.leaves, at |-> o.at,
               copy |-> o.copy, held |-> h, lone |-> o.lone]
      BY <3>1, <3>2
    <3> QED
      BY <3>1, <3>3
  <2>3. j \in DOMAIN models /\ IsModel(m, Fetched(used))
    BY <2>2, ModelInFacts
  <2>4. ModelsOK(models, leaves, used) /\ load \in DOMAIN Loads
    BY DEF NodeInv, Counted
  <2>5. ModelIn(ns, o.key) = j
    BY <2>4, SameModelIn
  <2> HIDE DEF j
  <2>6. SameBase(m, n)
    BY <2>3 DEF SameBases, SameBase
  <2>7. \A e \in DOMAIN m.lt.table : \A k : InEntry(m, leaves, e, 1, k) => InEntry(n, new, e, 1, k)
    BY <2>3 DEF ChainsStay
  <2>8. Called(s, c, b, n, new)
    <3> HIDE DEF m, n
    <3>1. Called([o EXCEPT !.held = {i \in @ : contain(new[o.leaves[i]], o.key)}], c, b, n, new)
      BY <2>1, <2>3, <2>4, <2>6, <2>7, CalledKept
    <3> QED
      BY <3>1 DEF Lessened
  <2>9. Kinds(s, c)
    BY <2>1, <2>2 DEF Kinds
  <2> HIDE DEF s
  <2> QED
    BY <1>2, <2>2, <2>5, <2>8, <2>9 DEF CallOn, s
<1> QED
  BY <1>1, <1>2

LEMMA NodeKept ==
  ASSUME NodeInv, UNCHANGED nodeVars
  PROVE  NodeInv'
<1>1. /\ load' = load /\ phase' = phase /\ aborted' = aborted /\ taken' = taken
      /\ first' = first /\ opt' = opt /\ models' = models /\ region' = region
      /\ leaves' = leaves /\ used' = used
  BY DEF nodeVars
<1>2. keys' = keys /\ Rest(first)' = Rest(first)
  BY <1>1, PrimedParts
<1>3. Counted' /\ SegmentInv'
  BY <1>1, <1>2 DEF NodeInv, Counted, SegmentInv
<1>4. /\ Loaded(leaves)' <=> Loaded(leaves)
      /\ ModelsOK(models, leaves, used)' <=> ModelsOK(models, leaves, used)
      /\ Covered(models, first)' <=> Covered(models, first)
  BY <1>1, PrimedParts
<1>5. Laid(region, models)' <=> Laid(region, models)
  BY <1>1
<1> QED
  BY <1>1, <1>2, <1>3, <1>4, <1>5 DEF NodeInv

\* Training, while no compute node has an index yet
LEMMA TrainStep ==
  ASSUME CacheInv, StartNext,
         op' = IF phase = "serving" THEN Witnessed(leaves') ELSE op,
         UNCHANGED <<index, down, pc, wire, buf, reply>>
  PROVE  CacheInv'
<1>1. NodeInv /\ CallsInv /\ IndexInv /\ WireInv /\ OutsideInv
  BY DEF CacheInv
<1>2. phase # "serving"
  BY DEF StartNext, Create, AddKey, CloseSegment, FinishTraining, StartDaemon
<1>3. NodeInv'
  BY <1>1, CreateStep, AddKeyStep, CloseSegmentStep, FinishStep, StartDaemonStep DEF StartNext
<1>4. op' = op /\ index' = index /\ down' = down /\ pc' = pc /\ wire' = wire /\ buf' = buf
      /\ reply' = reply
  BY <1>2
<1>5. \A a \in Actors : pc[a] = "idle" /\ op[a] = NoCall
  BY <1>1, <1>2 DEF CallsInv, CallOn
<1>6. CallsInv'
  BY <1>1, <1>4, <1>5 DEF CallsInv, CallOn
<1>7. IndexInv'
  BY <1>1, <1>2, <1>4 DEF IndexInv
<1>8. WireInv' /\ OutsideInv'
  BY <1>1, <1>4 DEF WireInv, OutsideInv
<1> QED
  BY <1>3, <1>6, <1>7, <1>8 DEF CacheInv

\* A change of the leaves in the serving node, for the nodes that look at them
LEMMA LeavesChanged ==
  ASSUME CacheInv, phase = "serving", phase' = "serving", load' = load, NodeInv',
         SameBases(models, models'), ChainsStay(models, leaves, models', leaves'),
         UNCHANGED <<index, down, wire, buf>>, reply'.ok \in BOOLEAN,
         reply'.val \in Vals \cup {NoVal},
         NEW free \in SUBSET Actors,
         pc' = [a \in Actors |-> IF a \in free THEN "idle" ELSE pc[a]],
         op' = [a \in Actors |-> IF a \in free THEN NoCall ELSE Lessened(op[a], leaves')],
         \A a \in free : pc[a] # "posted"
  PROVE  CacheInv'
<1>1. NodeInv /\ CallsInv /\ IndexInv /\ WireInv /\ OutsideInv
  BY DEF CacheInv
<1>2. index' = index /\ down' = down /\ wire' = wire /\ buf' = buf
  OBVIOUS
<1>3. ModelsOK(models, leaves, used)
  BY <1>1 DEF NodeInv
<1>4. Loaded(leaves')
  <2>1. Loaded(leaves)'
    BY DEF NodeInv
  <2> QED
    BY <2>1, PrimedParts
<1>5. CallsInv'
  <2>1. \A a \in Actors : CallOn(op[a], pc[a], buf[a[1]], models, leaves)
    BY <1>1 DEF CallsInv
  <2>2. ASSUME NEW a \in Actors
        PROVE  CallOn(op'[a], pc'[a], buf'[a[1]], models', leaves')
    <3>1. CASE a \in free
      <4>1. op'[a] = NoCall /\ pc'[a] = "idle"
        BY <3>1
      <4> QED
        BY <4>1 DEF CallOn
    <3>2. CASE a \notin free
      <4>1. op'[a] = Lessened(op[a], leaves') /\ pc'[a] = pc[a]
        BY <3>2
      <4>2. CallOn(Lessened(op[a], leaves'), pc[a], buf[a[1]], models', leaves')
        BY <1>1, <1>4, <2>1, CallsKept
      <4> QED
        BY <1>2, <4>1, <4>2
    <3> QED
      BY <3>1, <3>2
  <2>3. pc' = [a \in Actors |-> pc'[a]] /\ op' = [a \in Actors |-> op'[a]]
    OBVIOUS
  <2>4. CallsInv' = /\ pc' = [a \in Actors |-> pc'[a]] /\ op' = [a \in Actors |-> op'[a]]
                    /\ \A a \in Actors :
                         /\ pc'[a] # "idle" => phase' = "serving"
                         /\ CallOn(op'[a], pc'[a], buf'[a[1]], models', leaves')
    BY DEF CallsInv
  <2> QED
    BY <2>2, <2>3, <2>4
<1>6. IndexInv'
  <2>1. Snapshot(models') = Snapshot(models)
    BY <1>3, SameSnapshot
  <2> QED
    BY <1>1, <1>2, <2>1 DEF IndexInv
<1>7. WireInv'
  <2>1. \A n \in Nodes : \A x \in 1 .. Len(wire[n]) : pc'[wire[n][x]] = pc[wire[n][x]]
    <3> TAKE n \in Nodes
    <3> TAKE x \in 1 .. Len(wire[n])
    <3>1. pc[wire[n][x]] = "posted" /\ wire[n] \in Seq(Actors)
      BY <1>1 DEF WireInv
    <3>2. wire[n][x] \in Actors
      BY <3>1, ElementLemma
    <3> QED
      BY <3>1, <3>2
  <2> QED
    BY <1>1, <1>2, <2>1 DEF WireInv
<1>8. OutsideInv'
  BY <1>1, <1>2 DEF OutsideInv
<1> QED
  BY <1>5, <1>6, <1>7, <1>8 DEF CacheInv

LEMMA PutStep ==
  ASSUME N % 2 = 0, CacheInv, NEW k \in Loads[load].puts, PutKey(k),
         op' = IF phase = "serving" THEN Witnessed(leaves') ELSE op,
         UNCHANGED <<index, down, pc, wire, buf, reply>>
  PROVE  CacheInv'
<1>1. NodeInv /\ CallsInv /\ OutsideInv
  BY DEF CacheInv
<1>2. /\ NodeInv' /\ SameBases(models, models') /\ KeysStay(models, leaves, models', leaves')
      /\ phase = "serving" /\ phase' = "serving"
  BY <1>1, PutKeyStep
<1>3. ChainsStay(models, leaves, models', leaves')
  BY <1>2 DEF ChainsStay, KeysStay
<1>4. load' = load
  BY DEF PutKey
<1>5. reply'.ok \in BOOLEAN /\ reply'.val \in Vals \cup {NoVal}
  BY <1>1 DEF OutsideInv
<1>6. op' = [a \in Actors |-> IF a \in {} THEN NoCall ELSE Lessened(op[a], leaves')]
  BY <1>2 DEF Witnessed, Lessened
<1>7. pc' = [a \in Actors |-> IF a \in {} THEN "idle" ELSE pc[a]]
  BY <1>1 DEF CallsInv
<1>8. {} \in SUBSET Actors /\ \A a \in {} : pc[a] # "posted"
  OBVIOUS
<1> QED
  BY <1>2, <1>3, <1>4, <1>5, <1>6, <1>7, <1>8, LeavesChanged

\* insert_not_full on a leaf that takes the key and has room
LEMMA CopyWritten ==
  ASSUME NEW l \in Leaves, Sorted(l), NEW k \in Keys, insertHere(l, k), ~ isfull(l),
         NEW v \in Vals
  PROVE  LET w == insert_not_full(l, k, v)
         IN  /\ w \in Leaves /\ Sorted(w) /\ w[0].key = l[0].key
             /\ \A j : j \in KeysOf(w) <=> j \in KeysOf(l) \/ j = k
             /\ k \in KeysOf(l) => w = l
             /\ k \notin KeysOf(l) => Content(w) = Content(l) \cup {[key |-> k, val |-> v]}
<1> DEFINE w == insert_not_full(l, k, v)
<1>1. CASE k \in KeysOf(l)
  <2>1. At(l, k) # {}
    BY <1>1, FoundLemma
  <2>2. w = l
    BY <2>1 DEF insert_not_full
  <2> HIDE DEF w
  <2> QED
    BY <1>1, <2>2 DEF w
<1>2. CASE k \notin KeysOf(l)
  <2>1. w \in Leaves /\ Sorted(w) /\ Content(w) = Content(l) \cup {[key |-> k, val |-> v]}
    BY <1>2, InsertLemma
  <2> HIDE DEF w
  <2>2. \A j : j \in KeysOf(w) <=> j \in KeysOf(l) \/ j = k
    BY <2>1, KeysAdded
  <2>3. Written(l, w, k, v)
    BY <1>2, <2>1 DEF Written
  <2>4. w[0].key = l[0].key \/ (w[0].key = k /\ k < l[0].key)
    BY <2>3, WrittenHead
  <2>5. k >= l[0].key /\ l[0].key \in Nat /\ k \in Nat
    BY SlotLemma DEF insertHere, Keys
  <2>6. w[0].key = l[0].key
    BY <2>4, <2>5
  <2> QED
    BY <1>2, <2>1, <2>2, <2>6 DEF w
<1> QED
  BY <1>1, <1>2

\* The leaf of an entry is not a synonym leaf.
LEMMA ChainsUntouched ==
  ASSUME NEW ms, NEW mem, NEW u, ModelsOK(ms, mem, u), Loaded(mem),
         NEW j \in DOMAIN ms, NEW e \in DOMAIN ms[j].lt.table, NEW w
  PROVE  ChainsStay(ms, mem, ms, [mem EXCEPT ![Base(ms[j], e)] = w])
<1> DEFINE l == Base(ms[j], e)
           new == [mem EXCEPT ![l] = w]
<1>1. Numbered(ms, Fetched(u)) /\ \A i \in DOMAIN ms : IsModel(ms[i], Fetched(u))
  BY DEF ModelsOK, Numbered
<1>2. 0 \in 0 .. Len(Chain(ms[j].lt, e)) /\ LeafNum(ms[j].lt, e, 0) = l
  <2>1. Len(Chain(ms[j].lt, e)) \in Nat /\ LeafNum(ms[j].lt, e, 0) = Base(ms[j], e)
    BY <1>1, NumberLemma
  <2> QED
    BY <2>1
<1>3. \A i \in DOMAIN ms : \A d \in DOMAIN ms[i].lt.table :
        \A q \in 0 .. Len(Chain(ms[i].lt, d)) :
          LeafNum(ms[i].lt, d, q) = l => i = j /\ d = e /\ q = 0
  BY <1>1, <1>2, OnlyPlace
<1> HIDE DEF l
<1>4. \A x : x \in DOMAIN mem /\ x # l => new[x] = mem[x]
  OBVIOUS
<1>5. ASSUME NEW i \in DOMAIN ms, NEW d \in DOMAIN ms[i].lt.table,
             NEW k, InEntry(ms[i], mem, d, 1, k)
      PROVE  InEntry(ms[i], new, d, 1, k)
  <2> DEFINE lt == ms[i].lt
             n == Len(Chain(lt, d))
  <2>1. n \in Nat /\ \A p \in 0 .. n : LeafNum(lt, d, p) \in Fetched(u)
    BY <1>1, NumberLemma
  <2>2. PICK p \in 1 .. n : k \in KeysOf(mem[LeafNum(lt, d, p)])
    BY <1>5 DEF InEntry
  <2>3. p \in 0 .. n /\ p # 0
    BY <2>1, <2>2
  <2>4. LeafNum(lt, d, p) # l
    BY <1>3, <2>3
  <2>5. LeafNum(lt, d, p) \in DOMAIN mem
    <3>1. LeafNum(lt, d, p) \in 0 .. leaf_num - 1
      BY <2>1, <2>3 DEF Fetched
    <3> QED
      BY <3>1 DEF Loaded
  <2>6. k \in KeysOf(new[LeafNum(lt, d, p)])
    BY <1>4, <2>2, <2>4, <2>5
  <2> HIDE DEF new
  <2> QED
    BY <2>2, <2>6 DEF InEntry
<1> QED
  BY <1>5 DEF ChainsStay, l

\* What is known of a coroutine that is about to write a leaf back
Writing(a, j, e, w) ==
  LET o == op[a]
      m == models[j]
  IN  /\ phase = "serving" /\ o.key \in Keys /\ o.kind = "insert"
      /\ j = ModelOf(o.key) /\ j \in DOMAIN models /\ IsModel(m, Fetched(used))
      /\ e = EntryAt(m, o.key, o.at) /\ e \in DOMAIN m.lt.table
      /\ e \in lo(m, o.key) .. hi(m, o.key)
      /\ o.leaves[o.at] = Base(m, e) /\ Base(m, e) \in DOMAIN leaves
      /\ o.copy \in Leaves /\ Sorted(o.copy) /\ insertHere(o.copy, o.key)
      /\ w = insert_not_full(o.copy, o.key, CacheVal)
      /\ w \in Leaves /\ Sorted(w) /\ w[0].key = o.copy[0].key
      /\ \A k : k \in KeysOf(w) <=> k \in KeysOf(o.copy) \/ k = o.key
      /\ o.key \in KeysOf(o.copy) => w = o.copy
      /\ o.key \notin KeysOf(o.copy) =>
           Content(w) = Content(o.copy) \cup {[key |-> o.key, val |-> CacheVal]}
      /\ Headed(m, e, o.copy) /\ Headed(m, e, w)
      /\ \A i \in 1 .. m.capacity : (i - 1) \div N = e =>
           m.keys[i] \in KeysOf(o.copy) \/ InEntry(m, leaves, e, 1, m.keys[i])
      /\ \A d \in e + 1 .. hi(m, o.key) : o.key < FirstKey(m, d)

LEMMA WritingFacts ==
  ASSUME CacheInv, NEW a \in Actors, pc[a] = "write"
  PROVE  LET o == op[a]
             j == ModelOf(o.key)
         IN  Writing(a, j, EntryAt(models[j], o.key, o.at),
                     insert_not_full(o.copy, o.key, CacheVal))
<1> DEFINE o == op[a]
           k == o.key
           j == ModelOf(k)
           m == models[j]
           e == EntryAt(m, k, o.at)
           w == insert_not_full(o.copy, k, CacheVal)
           size == hi(m, k) - lo(m, k) + 1
<1>1. NodeInv /\ CallsInv
  BY DEF CacheInv
<1>2. phase = "serving" /\ CallOn(o, "write", buf[a[1]], models, leaves)
  BY <1>1 DEF CallsInv
<1>3. Kinds(o, "write") /\ Called(o, "write", buf[a[1]], models[ModelIn(models, k)], leaves)
  BY <1>2 DEF CallOn
<1>4. k \in Keys /\ o.kind = "insert"
  BY <1>3 DEF Called, Kinds
<1>5. ModelIn(models, k) = j /\ j \in DOMAIN models /\ IsModel(m, Fetched(used))
  BY <1>1, <1>2, <1>4, ModelInFacts
<1>6. Called(o, "write", buf[a[1]], m, leaves)
  BY <1>3, <1>5
<1> HIDE DEF j
<1>7. /\ o.leaves = Window(m, k) /\ o.at \in 1 .. size
      /\ o.copy \in Leaves /\ Sorted(o.copy) /\ insertHere(o.copy, k) /\ ~ isfull(o.copy)
      /\ Headed(m, e, o.copy)
      /\ \A i \in 1 .. m.capacity : (i - 1) \div N = e =>
           m.keys[i] \in KeysOf(o.copy) \/ InEntry(m, leaves, e, 1, m.keys[i])
      /\ \A x \in o.at + 1 .. size : k < FirstKey(m, EntryAt(m, k, x))
  BY <1>6 DEF Called, Copied
<1>8. /\ lo(m, k) \in Nat /\ hi(m, k) \in Nat
      /\ e \in DOMAIN m.lt.table /\ e \in lo(m, k) .. hi(m, k) /\ e = lo(m, k) + o.at - 1
      /\ o.leaves[o.at] = Base(m, e) /\ Base(m, e) \in Fetched(used)
  BY <1>4, <1>5, <1>7, WindowFacts
<1>9. Base(m, e) \in DOMAIN leaves
  <2>1. Loaded(leaves)
    BY <1>1, <1>2 DEF NodeInv
  <2>2. Base(m, e) \in 0 .. leaf_num - 1
    BY <1>8 DEF Fetched
  <2> QED
    BY <2>1, <2>2 DEF Loaded
<1>10. CacheVal \in Vals
  BY CacheAssumption
<1> HIDE DEF e, m
<1>11. /\ w \in Leaves /\ Sorted(w) /\ w[0].key = o.copy[0].key
       /\ \A x : x \in KeysOf(w) <=> x \in KeysOf(o.copy) \/ x = k
       /\ k \in KeysOf(o.copy) => w = o.copy
       /\ k \notin KeysOf(o.copy) => Content(w) = Content(o.copy) \cup {[key |-> k, val |-> CacheVal]}
  BY <1>4, <1>7, <1>10, CopyWritten
<1> HIDE DEF w
<1>12. Headed(m, e, w)
  BY <1>7, <1>11 DEF Headed
<1>13. ASSUME NEW d \in e + 1 .. hi(m, k) PROVE k < FirstKey(m, d)
  <2> DEFINE x == d - lo(m, k) + 1
  <2>1. x \in o.at + 1 .. size /\ lo(m, k) + x - 1 = d
    BY <1>7, <1>8, <1>13
  <2>2. EntryAt(m, k, x) = d
    BY <2>1 DEF EntryAt
  <2> HIDE DEF x
  <2> QED
    BY <1>7, <2>1, <2>2
<1>14. Writing(a, j, e, w)
  BY <1>2, <1>4, <1>5, <1>7, <1>8, <1>9, <1>11, <1>12, <1>13 DEF Writing, m, e, w, j
<1> QED
  BY <1>14 DEF j, m, e, w

\* A leaf is written back.
LEMMA WriteBackStep ==
  ASSUME CacheInv, NEW a \in Actors, WriteBack(a)
  PROVE  CacheInv'
<1> DEFINE o == op[a]
           j == ModelOf(o.key)
           m == models[j]
           e == EntryAt(m, o.key, o.at)
           w == insert_not_full(o.copy, o.key, CacheVal)
           l == o.leaves[o.at]
           new == [leaves EXCEPT ![l] = w]
<1>1. /\ pc[a] = "write" /\ leaves' = new /\ pc' = [pc EXCEPT ![a] = "idle"]
      /\ op' = [Witnessed(new) EXCEPT ![a] = NoCall]
      /\ reply' = [ok |-> TRUE, val |-> NoVal]
      /\ UNCHANGED <<load, phase, aborted, taken, first, opt, models, region,
                     used, index, down, wire, buf>>
  BY DEF WriteBack
<1>2. NodeInv /\ CallsInv
  BY DEF CacheInv
<1>3. Writing(a, j, e, w)
  BY <1>1, WritingFacts
<1> HIDE DEF w, e, j
<1>4. /\ phase = "serving" /\ j \in DOMAIN models /\ IsModel(m, Fetched(used))
      /\ e \in DOMAIN m.lt.table /\ l = Base(m, e) /\ l \in DOMAIN leaves
      /\ w \in Leaves /\ Sorted(w) /\ Headed(m, e, w)
      /\ \A x \in KeysOf(o.copy) : x \in KeysOf(w)
      /\ \A i \in 1 .. m.capacity : (i - 1) \div N = e =>
           m.keys[i] \in KeysOf(o.copy) \/ InEntry(m, leaves, e, 1, m.keys[i])
  BY <1>3 DEF Writing
<1>5. ModelsOK(models, leaves, used) /\ Loaded(leaves)
  BY <1>2, <1>4 DEF NodeInv
<1> HIDE DEF l
<1>6. ChainsStay(models, leaves, models, new)
  <2>1. ChainsStay(models, leaves, models, [leaves EXCEPT ![Base(models[j], e)] = w])
    BY <1>4, <1>5, ChainsUntouched
  <2> QED
    BY <1>4, <2>1
<1>7. Len(Chain(m.lt, e)) \in Nat /\ LeafNum(m.lt, e, 0) = l
  BY <1>4, NumberLemma
<1>8. ModelsOK(models, new, used) /\ Loaded(new)
  <2>1. new[l] = w
    BY <1>4
  <2>2. \A i \in 1 .. m.capacity : (i - 1) \div N = e => InEntry(m, new, e, 0, m.keys[i])
    <3> TAKE i \in 1 .. m.capacity
    <3> SUFFICES ASSUME (i - 1) \div N = e PROVE InEntry(m, new, e, 0, m.keys[i])
      OBVIOUS
    <3> DEFINE key == m.keys[i]
    <3> HIDE DEF new, key, m
    <3>1. CASE key \in KeysOf(o.copy)
      <4>1. key \in KeysOf(new[LeafNum(m.lt, e, 0)])
        BY <1>4, <1>7, <2>1, <3>1
      <4>2. 0 \in 0 .. Len(Chain(m.lt, e))
        BY <1>7
      <4> QED
        BY <4>1, <4>2 DEF InEntry, key
    <3>2. CASE InEntry(m, leaves, e, 1, key)
      <4>1. InEntry(m, new, e, 1, key)
        BY <1>4, <1>6, <3>2 DEF ChainsStay, m
      <4>2. PICK p \in 1 .. Len(Chain(m.lt, e)) : key \in KeysOf(new[LeafNum(m.lt, e, p)])
        BY <4>1 DEF InEntry
      <4>3. p \in 0 .. Len(Chain(m.lt, e))
        BY <1>7, <4>2
      <4> QED
        BY <4>2, <4>3 DEF InEntry, key
    <3> QED
      BY <1>4, <3>1, <3>2 DEF key
  <2>3. 0 \in 0 .. Len(Chain(models[j].lt, e))
    BY <1>7
  <2>4. new = [leaves EXCEPT ![LeafNum(models[j].lt, e, 0)] = w]
    BY <1>7
  <2> DEFINE nw == [leaves EXCEPT ![LeafNum(models[j].lt, e, 0)] = w]
  <2>5. \A i \in 1 .. models[j].capacity : (i - 1) \div N = e =>
          InEntry(models[j], nw, e, 0, models[j].keys[i])
    BY <2>2, <2>4
  <2>6. ModelsOK(models, nw, used) /\ Loaded(nw)
    BY <1>4, <1>5, <2>3, <2>5, LeafReplaced
  <2> QED
    BY <2>4, <2>6
<1> HIDE DEF new, m
<1>9. /\ load' = load /\ phase' = phase /\ aborted' = aborted /\ taken' = taken
      /\ first' = first /\ opt' = opt /\ models' = models /\ region' = region /\ used' = used
      /\ index' = index /\ down' = down /\ wire' = wire /\ buf' = buf /\ leaves' = new
  BY <1>1
<1>10. NodeInv'
  <2>1. keys' = keys /\ Rest(first)' = Rest(first)
    BY <1>9, PrimedParts
  <2>2. Counted' /\ SegmentInv'
    BY <1>2, <1>9, <2>1 DEF NodeInv, Counted, SegmentInv
  <2>3. /\ Loaded(leaves)' /\ ModelsOK(models, leaves, used)'
        /\ Covered(models, first)' <=> Covered(models, first)
    BY <1>8, <1>9, PrimedParts
  <2>4. Laid(region, models)' <=> Laid(region, models)
    BY <1>9
  <2> QED
    BY <1>2, <1>9, <2>1, <2>2, <2>3, <2>4 DEF NodeInv
<1>11. SameBases(models, models') /\ ChainsStay(models, leaves, models', leaves')
  <2>1. SameBases(models, models)
    BY <1>5, SameModels
  <2> QED
    BY <1>6, <1>9, <2>1
<1>12. pc' = [b \in Actors |-> IF b \in {a} THEN "idle" ELSE pc[b]]
  BY <1>1, <1>2 DEF CallsInv
<1>13. op' = [b \in Actors |-> IF b \in {a} THEN NoCall ELSE Lessened(op[b], leaves')]
  <2>1. op' = [Witnessed(leaves') EXCEPT ![a] = NoCall]
    BY <1>1, <1>9 DEF new
  <2>2. Witnessed(leaves') = [b \in Actors |-> Lessened(op[b], leaves')]
    BY DEF Witnessed, Lessened
  <2> QED
    BY <2>1, <2>2
<1>14. reply'.ok \in BOOLEAN /\ reply'.val \in Vals \cup {NoVal}
  BY <1>1
<1>15. {a} \in SUBSET Actors /\ \A b \in {a} : pc[b] # "posted"
  BY <1>1
<1>16. phase' = "serving" /\ UNCHANGED <<index, down, wire, buf>>
  BY <1>4, <1>9
<1> QED
  BY <1>4, <1>9, <1>10, <1>11, <1>12, <1>13, <1>14, <1>15, <1>16, LeavesChanged

\* A step of one coroutine that leaves the memory node and the buffer alone
LEMMA OneCall ==
  ASSUME CacheInv, NodeInv', UNCHANGED <<phase, models, leaves, index, buf>>,
         down' \subseteq Nodes, reply'.ok \in BOOLEAN, reply'.val \in Vals \cup {NoVal},
         NEW a \in Actors, NEW o, NEW c,
         pc' = [pc EXCEPT ![a] = c], op' = [op EXCEPT ![a] = o],
         pc[a] # "posted", c # "idle" => phase = "serving",
         CallOn(o, c, buf[a[1]], models, leaves),
         \/ wire' = wire
         \/ c = "posted" /\ wire' = [wire EXCEPT ![a[1]] = Append(@, a)]
  PROVE  CacheInv'
<1>1. NodeInv /\ CallsInv /\ IndexInv /\ WireInv /\ OutsideInv
  BY DEF CacheInv
<1>2. phase' = phase /\ models' = models /\ leaves' = leaves /\ index' = index /\ buf' = buf
  OBVIOUS
<1>3. pc = [b \in Actors |-> pc[b]] /\ op = [b \in Actors |-> op[b]]
  BY <1>1 DEF CallsInv
<1>4. \A b \in Actors : /\ pc'[b] = IF b = a THEN c ELSE pc[b]
                        /\ op'[b] = IF b = a THEN o ELSE op[b]
  BY <1>3
<1>5. pc' = [b \in Actors |-> pc'[b]] /\ op' = [b \in Actors |-> op'[b]]
  BY <1>3
<1>6. CallsInv'
  <2>1. ASSUME NEW b \in Actors
        PROVE  /\ pc'[b] # "idle" => phase = "serving"
               /\ CallOn(op'[b], pc'[b], buf[b[1]], models, leaves)
    <3>1. CASE b = a
      BY <1>4, <3>1
    <3>2. CASE b # a
      <4>1. pc'[b] = pc[b] /\ op'[b] = op[b]
        BY <1>4, <3>2
      <4>2. /\ pc[b] # "idle" => phase = "serving"
            /\ CallOn(op[b], pc[b], buf[b[1]], models, leaves)
        BY <1>1 DEF CallsInv
      <4> QED
        BY <4>1, <4>2
    <3> QED
      BY <3>1, <3>2
  <2>2. CallsInv' = /\ pc' = [b \in Actors |-> pc'[b]] /\ op' = [b \in Actors |-> op'[b]]
                    /\ \A b \in Actors :
                         /\ pc'[b] # "idle" => phase' = "serving"
                         /\ CallOn(op'[b], pc'[b], buf'[b[1]], models', leaves')
    BY DEF CallsInv
  <2> QED
    BY <1>2, <1>5, <2>1, <2>2
<1>7. IndexInv'
  BY <1>1, <1>2 DEF IndexInv
<1>8. OutsideInv'
  BY <1>1, <1>2 DEF OutsideInv
<1>9. ASSUME NEW n \in Nodes, NEW x \in 1 .. Len(wire[n])
      PROVE  /\ wire[n] \in Seq(Actors) /\ wire[n][x] \in Actors /\ wire[n][x] # a
             /\ pc'[wire[n][x]] = "posted" /\ wire[n][x][1] = n
             /\ \A y \in 1 .. Len(wire[n]) : wire[n][x] = wire[n][y] => x = y
  <2>1. /\ wire[n] \in Seq(Actors) /\ pc[wire[n][x]] = "posted" /\ wire[n][x][1] = n
        /\ \A y \in 1 .. Len(wire[n]) : wire[n][x] = wire[n][y] => x = y
    BY <1>1 DEF WireInv
  <2>2. wire[n][x] \in Actors
    BY <2>1, ElementLemma
  <2>3. wire[n][x] # a
    BY <2>1
  <2> QED
    BY <1>4, <2>1, <2>2, <2>3
<1>10. wire \in [Nodes -> Seq(Actors)]
  BY <1>1 DEF WireInv
<1>11. WireInv'
  <2>1. CASE wire' = wire
    BY <1>9, <1>10, <2>1 DEF WireInv
  <2>2. CASE c = "posted" /\ wire' = [wire EXCEPT ![a[1]] = Append(@, a)]
    <3> DEFINE n == a[1]
               q == wire[n]
               r == Append(q, a)
    <3>1. n \in Nodes
      BY DEF Actors
    <3>2. q \in Seq(Actors)
      BY <1>10, <3>1
    <3>3. /\ r \in Seq(Actors) /\ Len(r) = Len(q) + 1 /\ Len(q) \in Nat
          /\ \A x \in 1 .. Len(q) : r[x] = q[x]
          /\ r[Len(q) + 1] = a
      <4> HIDE DEF q
      <4> QED
        BY <3>2
    <3>4. wire' = [wire EXCEPT ![n] = r]
      BY <2>2
    <3> HIDE DEF r
    <3>5. wire' \in [Nodes -> Seq(Actors)] /\ wire'[n] = r
          /\ \A p \in Nodes : p # n => wire'[p] = wire[p]
      BY <1>10, <3>1, <3>3, <3>4
    <3>6. pc'[a] = "posted"
      BY <1>4, <2>2
    <3>7. ASSUME NEW p \in Nodes, NEW x \in 1 .. Len(wire'[p])
          PROVE  /\ pc'[wire'[p][x]] = "posted" /\ wire'[p][x][1] = p
                 /\ \A y \in 1 .. Len(wire'[p]) : wire'[p][x] = wire'[p][y] => x = y
      <4>1. CASE p # n
        BY <1>9, <3>5, <4>1
      <4>2. CASE p = n
        <5>1. wire'[p] = r /\ x \in 1 .. Len(q) + 1
          BY <3>3, <3>5, <4>2
        <5>2. \A y \in 1 .. Len(q) : /\ r[y] = q[y] /\ q[y] # a /\ pc'[q[y]] = "posted" /\ q[y][1] = n
                                     /\ \A z \in 1 .. Len(q) : q[y] = q[z] => y = z
          BY <1>9, <3>1, <3>3
        <5>3. \A y \in 1 .. Len(q) + 1 : y \in 1 .. Len(q) \/ y = Len(q) + 1
          BY <3>3
        <5> HIDE DEF q
        <5>4. pc'[r[x]] = "posted" /\ r[x][1] = n
          <6>1. CASE x \in 1 .. Len(q)
            BY <5>2, <6>1
          <6>2. CASE x = Len(q) + 1
            BY <3>3, <3>6, <6>2
          <6> QED
            BY <5>1, <5>3, <6>1, <6>2
        <5>5. ASSUME NEW y \in 1 .. Len(q) + 1, r[x] = r[y] PROVE x = y
          <6>1. CASE x \in 1 .. Len(q) /\ y \in 1 .. Len(q)
            BY <5>2, <5>5, <6>1
          <6>2. CASE x = Len(q) + 1 /\ y = Len(q) + 1
            BY <6>2
          <6>3. CASE x \in 1 .. Len(q) /\ y = Len(q) + 1
            BY <3>3, <5>2, <5>5, <6>3
          <6>4. CASE x = Len(q) + 1 /\ y \in 1 .. Len(q)
            BY <3>3, <5>2, <5>5, <6>4
          <6> QED
            BY <5>1, <5>3, <6>1, <6>2, <6>3, <6>4
        <5> QED
          BY <3>3, <4>2, <5>1, <5>4, <5>5
      <4> QED
        BY <4>1, <4>2
    <3> QED
      BY <3>5, <3>7 DEF WireInv
  <2> QED
    BY <2>1, <2>2
<1> QED
  BY <1>6, <1>7, <1>8, <1>11 DEF CacheInv

\* The leaf a call under way looks at next
LEMMA CallFacts ==
  ASSUME CacheInv, NEW a \in Actors, pc[a] # "idle"
  PROVE  LET o == op[a]
             k == o.key
             m == models[ModelOf(k)]
             size == hi(m, k) - lo(m, k) + 1
         IN  /\ phase = "serving" /\ k \in Keys /\ Kinds(o, pc[a])
             /\ Called(o, pc[a], buf[a[1]], m, leaves)
             /\ ModelOf(k) \in DOMAIN models /\ IsModel(m, Fetched(used))
             /\ ModelIn(models, k) = ModelOf(k)
             /\ size \in Nat /\ size > 0 /\ o.at \in 1 .. size
             /\ o.leaves = Window(m, k) /\ DOMAIN o.leaves = 1 .. size /\ Len(o.leaves) = size
             /\ \A x \in 1 .. size :
                  /\ EntryAt(m, k, x) \in DOMAIN m.lt.table /\ EntryAt(m, k, x) = lo(m, k) + x - 1
                  /\ o.leaves[x] = Base(m, EntryAt(m, k, x)) /\ o.leaves[x] \in DOMAIN leaves
                  /\ leaves[o.leaves[x]] \in Leaves /\ Sorted(leaves[o.leaves[x]])
                  /\ contain(leaves[o.leaves[x]], k) <=> k \in KeysOf(leaves[o.leaves[x]])
                  /\ Headed(m, EntryAt(m, k, x), leaves[o.leaves[x]])
<1> DEFINE o == op[a]
           k == o.key
           m == models[ModelOf(k)]
           size == hi(m, k) - lo(m, k) + 1
<1>1. NodeInv /\ CallsInv
  BY DEF CacheInv
<1>2. phase = "serving" /\ CallOn(o, pc[a], buf[a[1]], models, leaves)
  BY <1>1 DEF CallsInv
<1>3. Kinds(o, pc[a]) /\ Called(o, pc[a], buf[a[1]], models[ModelIn(models, k)], leaves)
  BY <1>2 DEF CallOn
<1>4. k \in Keys
  BY <1>3 DEF Called
<1>5. ModelIn(models, k) = ModelOf(k) /\ ModelOf(k) \in DOMAIN models /\ IsModel(m, Fetched(used))
  BY <1>1, <1>2, <1>4, ModelInFacts
<1>6. Called(o, pc[a], buf[a[1]], m, leaves) /\ Stocked(m, leaves)
  BY <1>1, <1>3, <1>5 DEF NodeInv, ModelsOK
<1> HIDE DEF m
<1>7. o.leaves = Window(m, k) /\ o.at \in 1 .. size
  BY <1>6 DEF Called
<1>8. /\ size \in Nat /\ size > 0
      /\ DOMAIN Window(m, k) = 1 .. size /\ Len(Window(m, k)) = size
      /\ \A x \in 1 .. size :
           /\ EntryAt(m, k, x) = lo(m, k) + x - 1
           /\ EntryAt(m, k, x) \in DOMAIN m.lt.table
           /\ Window(m, k)[x] = Base(m, EntryAt(m, k, x))
           /\ Window(m, k)[x] \in Fetched(used)
  BY <1>4, <1>5, WindowFacts
<1>9. Loaded(leaves)
  BY <1>1, <1>2 DEF NodeInv
<1>10. ASSUME NEW x \in 1 .. size
       PROVE  /\ o.leaves[x] \in DOMAIN leaves
              /\ leaves[o.leaves[x]] \in Leaves /\ Sorted(leaves[o.leaves[x]])
              /\ contain(leaves[o.leaves[x]], k) <=> k \in KeysOf(leaves[o.leaves[x]])
              /\ Headed(m, EntryAt(m, k, x), leaves[o.leaves[x]])
  <2>1. o.leaves[x] \in 0 .. leaf_num - 1
    BY <1>7, <1>8 DEF Fetched
  <2>2. o.leaves[x] \in DOMAIN leaves /\ leaves[o.leaves[x]] \in Leaves /\ Sorted(leaves[o.leaves[x]])
    BY <1>9, <2>1 DEF Loaded
  <2>3. contain(leaves[o.leaves[x]], k) <=> k \in KeysOf(leaves[o.leaves[x]])
    BY <1>4, <2>2, FoundLemma
  <2>4. Headed(m, EntryAt(m, k, x), leaves[o.leaves[x]])
    BY <1>6, <1>7, <1>8 DEF Stocked
  <2> QED
    BY <2>2, <2>3, <2>4
<1> QED
  BY <1>2, <1>3, <1>4, <1>5, <1>6, <1>7, <1>8, <1>10 DEF m

\* What search answers
LEMMA AnswerLemma ==
  ASSUME NEW l \in Leaves, Sorted(l), NEW k \in Keys
  PROVE  /\ search(l, k) \in Vals \cup {NoVal}
         /\ k \in KeysOf(l) => search(l, k) \in Vals /\ search(l, k) # NoVal
         /\ k \notin KeysOf(l) => search(l, k) = NoVal
<1>1. k \notin KeysOf(l) => search(l, k) = NoVal
  BY FoundLemma
<1>2. ASSUME k \in KeysOf(l) PROVE search(l, k) \in Vals
  <2>1. PICK e \in Content(l) : e.key = k
    BY <1>2, KeysLemma
  <2>2. search(l, k) = e.val
    BY <2>1, FoundLemma
  <2>3. e \in Entries
    BY <2>1, KeysLemma
  <2> QED
    BY <2>2, <2>3 DEF Entries
<1>3. NoVal \notin Vals
  BY LeafAssumption
<1> QED
  BY <1>1, <1>2, <1>3

\* A call that goes on to the leaf before
LEMMA NextCalled ==
  ASSUME CacheInv, NEW a \in Actors, pc[a] \in {"search", "insert"}, op[a].at # 1,
         pc[a] = "search" => ~ contain(Remote(a), op[a].key),
         pc[a] = "insert" => ~ insertHere(Remote(a), op[a].key)
  PROVE  CallOn([op[a] EXCEPT !.at = @ - 1], pc[a], buf[a[1]], models, leaves)
<1> DEFINE o == op[a]
           k == o.key
           m == models[ModelOf(k)]
           size == hi(m, k) - lo(m, k) + 1
           at == o.at - 1
           s == [o EXCEPT !.at = at]
           c == pc[a]
           b == buf[a[1]]
<1>1. /\ phase = "serving" /\ k \in Keys /\ Kinds(o, c)
      /\ Called(o, c, b, m, leaves)
      /\ IsModel(m, Fetched(used)) /\ ModelIn(models, k) = ModelOf(k)
      /\ size \in Nat /\ size > 0 /\ o.at \in 1 .. size
      /\ \A x \in 1 .. size :
           /\ EntryAt(m, k, x) \in DOMAIN m.lt.table
           /\ leaves[o.leaves[x]] \in Leaves
           /\ contain(leaves[o.leaves[x]], k) <=> k \in KeysOf(leaves[o.leaves[x]])
           /\ Headed(m, EntryAt(m, k, x), leaves[o.leaves[x]])
  BY CallFacts
<1>2. /\ o = [kind |-> o.kind, key |-> k, leaves |-> o.leaves, at |-> o.at,
              copy |-> o.copy, held |-> o.held, lone |-> o.lone]
      /\ o.leaves = Window(m, k) /\ o.copy \in Leaves /\ Sorted(o.copy)
      /\ \A x \in o.held : x \in 1 .. size /\ k \in KeysOf(leaves[o.leaves[x]])
      /\ c = "search" => \A x \in o.held : x <= o.at
      /\ c \in {"insert", "write"} =>
           \A x \in o.at + 1 .. size : k < FirstKey(m, EntryAt(m, k, x))
  BY <1>1 DEF Called
<1> HIDE DEF m
<1>3. at \in 1 .. size
  BY <1>1
<1> HIDE DEF at
<1>4. s = [kind |-> o.kind, key |-> k, leaves |-> o.leaves, at |-> at,
           copy |-> o.copy, held |-> o.held, lone |-> o.lone]
  BY <1>2
<1>5. /\ s.kind = o.kind /\ s.key = k /\ s.leaves = o.leaves /\ s.at = at
      /\ s.copy = o.copy /\ s.held = o.held /\ s.lone = o.lone
  BY <1>4
<1> HIDE DEF s
<1>6. c = "search" => \A x \in o.held : x <= at
  <2> SUFFICES ASSUME c = "search", NEW x \in o.held PROVE x <= at
    OBVIOUS
  <2>1. x \in 1 .. size /\ x <= o.at /\ contain(leaves[o.leaves[x]], k)
    BY <1>1, <1>2
  <2>2. x # o.at
    BY <2>1 DEF Remote
  <2> QED
    BY <1>1, <2>1, <2>2 DEF at
<1>7. c = "insert" => \A x \in at + 1 .. size : k < FirstKey(m, EntryAt(m, k, x))
  <2> SUFFICES ASSUME c = "insert", NEW x \in at + 1 .. size
               PROVE  k < FirstKey(m, EntryAt(m, k, x))
    OBVIOUS
  <2>1. CASE x = o.at
    <3> DEFINE v == leaves[o.leaves[x]]
               f == FirstKey(m, EntryAt(m, k, x))
    <3>1. ~ (k >= v[0].key) /\ v[0].key <= f /\ v \in Leaves
      BY <1>1, <2>1 DEF Remote, insertHere, Headed
    <3>2. f \in Nat
      BY <1>1, <2>1, FirstKeyFacts
    <3>3. v[0].key \in Nat /\ k \in Nat
      BY <1>1, <3>1, SlotLemma DEF Keys
    <3> HIDE DEF v, f
    <3>4. k < f
      BY <3>1, <3>2, <3>3
    <3> QED
      BY <3>4 DEF f
  <2>2. CASE x # o.at
    <3>1. x \in o.at + 1 .. size
      BY <1>1, <2>2 DEF at
    <3> QED
      BY <1>2, <3>1
  <2> QED
    BY <2>1, <2>2
<1>8. Called(s, c, b, m, leaves)
  BY <1>1, <1>2, <1>3, <1>4, <1>5, <1>6, <1>7 DEF Called
<1>9. Kinds(s, c)
  BY <1>1, <1>5 DEF Kinds
<1>10. CallOn(s, c, b, models, leaves)
  BY <1>1, <1>5, <1>8, <1>9 DEF CallOn, m
<1> QED
  BY <1>10 DEF s, at

\* A coroutine that returns
LEMMA ReturnStep ==
  ASSUME CacheInv, NodeInv', NEW a \in Actors, NEW ok \in BOOLEAN,
         NEW val \in Vals \cup {NoVal}, Return(a, ok, val), pc[a] # "posted",
         UNCHANGED <<phase, models, leaves, index, down, wire, buf>>
  PROVE  CacheInv'
<1>1. pc' = [pc EXCEPT ![a] = "idle"] /\ op' = [op EXCEPT ![a] = NoCall]
      /\ reply' = [ok |-> ok, val |-> val]
  BY DEF Return
<1>2. CallOn(NoCall, "idle", buf[a[1]], models, leaves)
  BY DEF CallOn
<1>3. down' \subseteq Nodes
  BY DEF CacheInv, OutsideInv
<1>4. reply'.ok \in BOOLEAN /\ reply'.val \in Vals \cup {NoVal}
  BY <1>1
<1> QED
  BY <1>1, <1>2, <1>3, <1>4, OneCall

LEMMA NextLeafStep ==
  ASSUME CacheInv, NEW a \in Actors, pc[a] \in {"search", "insert"}, NextLeaf(a),
         pc[a] = "search" => ~ contain(Remote(a), op[a].key),
         pc[a] = "insert" => ~ insertHere(Remote(a), op[a].key),
         UNCHANGED <<nodeVars, index, down, wire, buf>>
  PROVE  CacheInv'
<1>1. NodeInv'
  BY NodeKept DEF CacheInv
<1>2. UNCHANGED <<phase, models, leaves, index, down, wire, buf>>
  BY DEF nodeVars
<1>3. CASE op[a].at = 1
  <2>1. Return(a, FALSE, NoVal)
    BY <1>3 DEF NextLeaf
  <2> QED
    BY <1>1, <1>2, <2>1, ReturnStep
<1>4. CASE op[a].at # 1
  <2> DEFINE o == [op[a] EXCEPT !.at = @ - 1]
             c == pc[a]
  <2>1. op' = [op EXCEPT ![a].at = @ - 1] /\ pc' = pc /\ reply' = reply
    BY <1>4 DEF NextLeaf
  <2>2. CallOn(o, c, buf[a[1]], models, leaves)
    BY <1>4, NextCalled
  <2>3. op' = [op EXCEPT ![a] = o]
    BY <2>1
  <2>4. pc' = [pc EXCEPT ![a] = c]
    BY <2>1 DEF CacheInv, CallsInv
  <2>5. phase = "serving"
    BY DEF CacheInv, CallsInv
  <2>6. down' \subseteq Nodes /\ reply'.ok \in BOOLEAN /\ reply'.val \in Vals \cup {NoVal}
    BY <1>2, <2>1 DEF CacheInv, OutsideInv
  <2>7. c # "posted"
    OBVIOUS
  <2> HIDE DEF o, c
  <2>8. pc[a] # "posted"
    BY <2>7 DEF c
  <2> QED
    BY <1>1, <1>2, <2>2, <2>3, <2>4, <2>5, <2>6, <2>8, OneCall
<1> QED
  BY <1>3, <1>4

LEMMA SearchStep ==
  ASSUME CacheInv, NEW a \in Actors, SearchLeaf(a)
  PROVE  CacheInv'
<1>1. pc[a] = "search" /\ UNCHANGED <<nodeVars, index, down, wire, buf>>
  BY DEF SearchLeaf
<1>2. CASE contain(Remote(a), op[a].key)
  <2> DEFINE v == search(Remote(a), op[a].key)
  <2>1. Return(a, TRUE, v)
    BY <1>2 DEF SearchLeaf
  <2>2. v \in Vals \cup {NoVal}
    <3>1. Remote(a) \in Leaves /\ Sorted(Remote(a)) /\ op[a].key \in Keys
      BY <1>1, CallFacts DEF Remote
    <3> QED
      BY <3>1, AnswerLemma
  <2>3. NodeInv'
    BY <1>1, NodeKept DEF CacheInv
  <2>4. UNCHANGED <<phase, models, leaves, index, down, wire, buf>>
    BY <1>1 DEF nodeVars
  <2> HIDE DEF v
  <2> QED
    BY <1>1, <2>1, <2>2, <2>3, <2>4, ReturnStep
<1>3. CASE ~ contain(Remote(a), op[a].key)
  <2>1. NextLeaf(a)
    BY <1>3 DEF SearchLeaf
  <2> QED
    BY <1>1, <1>3, <2>1, NextLeafStep
<1> QED
  BY <1>2, <1>3

\* insert, at a leaf that takes the key: the leaf is kept for the write-back.
LEMMA CopyCalled ==
  ASSUME CacheInv, NEW a \in Actors, pc[a] = "insert", insertHere(Remote(a), op[a].key),
         NEW c, c = IF isfull(Remote(a)) THEN "fetch" ELSE "write"
  PROVE  CallOn([op[a] EXCEPT !.copy = Remote(a)], c, buf[a[1]], models, leaves)
<1> DEFINE o == op[a]
           k == o.key
           m == models[ModelOf(k)]
           size == hi(m, k) - lo(m, k) + 1
           e == EntryAt(m, k, o.at)
           l == leaves[o.leaves[o.at]]
           s == [o EXCEPT !.copy = l]
           b == buf[a[1]]
<1>1. /\ phase = "serving" /\ k \in Keys /\ Kinds(o, "insert")
      /\ Called(o, "insert", b, m, leaves)
      /\ ModelOf(k) \in DOMAIN models /\ IsModel(m, Fetched(used))
      /\ ModelIn(models, k) = ModelOf(k)
      /\ o.at \in 1 .. size
      /\ e \in DOMAIN m.lt.table /\ o.leaves[o.at] = Base(m, e)
      /\ l \in Leaves /\ Sorted(l) /\ Headed(m, e, l)
  BY CallFacts
<1>2. /\ o = [kind |-> o.kind, key |-> k, leaves |-> o.leaves, at |-> o.at,
              copy |-> o.copy, held |-> o.held, lone |-> o.lone]
      /\ o.leaves = Window(m, k)
      /\ \A x \in o.held : x \in 1 .. size /\ k \in KeysOf(leaves[o.leaves[x]])
      /\ \A x \in o.at + 1 .. size : k < FirstKey(m, EntryAt(m, k, x))
  BY <1>1 DEF Called
<1>3. Stocked(m, leaves)
  BY <1>1 DEF CacheInv, NodeInv, ModelsOK
<1>4. insertHere(l, k) /\ c = IF isfull(l) THEN "fetch" ELSE "write"
  BY DEF Remote
<1>5. Remote(a) = l
  BY DEF Remote
<1>6. \A i \in 1 .. m.capacity : (i - 1) \div N = e =>
        m.keys[i] \in KeysOf(l) \/ InEntry(m, leaves, e, 1, m.keys[i])
  <2> SUFFICES ASSUME NEW i \in 1 .. m.capacity, (i - 1) \div N = e
               PROVE  m.keys[i] \in KeysOf(l) \/ InEntry(m, leaves, e, 1, m.keys[i])
    OBVIOUS
  <2>1. InEntry(m, leaves, e, 0, m.keys[i])
    BY <1>3 DEF Stocked
  <2> HIDE DEF e, m
  <2>2. PICK p \in 0 .. Len(Chain(m.lt, e)) : m.keys[i] \in KeysOf(leaves[LeafNum(m.lt, e, p)])
    BY <2>1 DEF InEntry
  <2>3. CASE p = 0
    <3>1. LeafNum(m.lt, e, p) = o.leaves[o.at]
      BY <1>1, <2>3, NumberLemma
    <3> QED
      BY <2>2, <3>1
  <2>4. CASE p # 0
    <3>1. p \in 1 .. Len(Chain(m.lt, e))
      BY <2>4
    <3> QED
      BY <2>2, <3>1 DEF InEntry
  <2> QED
    BY <2>3, <2>4
<1> HIDE DEF m, l
<1>7. s = [kind |-> o.kind, key |-> k, leaves |-> o.leaves, at |-> o.at,
           copy |-> l, held |-> o.held, lone |-> o.lone]
  BY <1>2
<1>8. /\ s.kind = o.kind /\ s.key = k /\ s.leaves = o.leaves /\ s.at = o.at
      /\ s.copy = l /\ s.held = o.held /\ s.lone = o.lone
  BY <1>7
<1> HIDE DEF s
<1>9. ASSUME c = "write" PROVE Copied(s, m, leaves)
  <2>1. ~ isfull(l)
    BY <1>4, <1>9
  <2>2. EntryAt(m, s.key, s.at) = e
    BY <1>8
  <2> QED
    BY <1>1, <1>4, <1>6, <1>8, <2>1, <2>2 DEF Copied
<1>10. Called(s, c, b, m, leaves)
  <2>1. c # "search" /\ c # "ready"
    BY <1>4
  <2> QED
    BY <1>1, <1>2, <1>7, <1>8, <1>9, <2>1 DEF Called
<1>11. Kinds(s, c) /\ c # "idle"
  BY <1>1, <1>4, <1>8 DEF Kinds
<1>12. CallOn(s, c, b, models, leaves)
  BY <1>1, <1>8, <1>10, <1>11 DEF CallOn, m
<1> QED
  BY <1>5, <1>12 DEF s, l

LEMMA InsertStep ==
  ASSUME CacheInv, NEW a \in Actors, InsertLeaf(a)
  PROVE  CacheInv'
<1>1. pc[a] = "insert" /\ UNCHANGED <<nodeVars, index, down, wire, buf>>
  BY DEF InsertLeaf
<1>2. CASE ~ insertHere(Remote(a), op[a].key)
  <2>1. NextLeaf(a)
    BY <1>2 DEF InsertLeaf
  <2> QED
    BY <1>1, <1>2, <2>1, NextLeafStep
<1>3. CASE insertHere(Remote(a), op[a].key)
  <2> DEFINE c == IF isfull(Remote(a)) THEN "fetch" ELSE "write"
             o == [op[a] EXCEPT !.copy = Remote(a)]
  <2>1. pc' = [pc EXCEPT ![a] = c] /\ op' = [op EXCEPT ![a] = o] /\ reply' = reply
    BY <1>3 DEF InsertLeaf
  <2> HIDE DEF c
  <2>2. CallOn(o, c, buf[a[1]], models, leaves)
    BY <1>1, <1>3, CopyCalled DEF c
  <2> HIDE DEF o
  <2>3. NodeInv'
    BY <1>1, NodeKept DEF CacheInv
  <2>4. UNCHANGED <<phase, models, leaves, index, buf>> /\ wire' = wire /\ down' = down
    BY <1>1 DEF nodeVars
  <2>5. phase = "serving"
    BY <1>1 DEF CacheInv, CallsInv
  <2>6. down' \subseteq Nodes /\ reply'.ok \in BOOLEAN /\ reply'.val \in Vals \cup {NoVal}
    BY <2>1, <2>4 DEF CacheInv, OutsideInv
  <2>7. pc[a] # "posted"
    BY <1>1
  <2> QED
    BY <2>1, <2>2, <2>3, <2>4, <2>5, <2>6, <2>7, OneCall
<1> QED
  BY <1>2, <1>3

\* A fetch-and-add of a compute node leaves the memory node as it is, with one
\* leaf less to give out.
LEMMA FetchAddStep ==
  ASSUME CacheInv, NEW a \in Actors, FetchAdd(a)
  PROVE  CacheInv'
<1>1. /\ pc[a] = "fetch" /\ used' = used + 1 /\ Return(a, FALSE, NoVal)
      /\ UNCHANGED <<load, phase, aborted, taken, first, opt, models, region, leaves,
                     index, down, wire, buf>>
  BY DEF FetchAdd
<1>2. NodeInv
  BY DEF CacheInv
<1>3. used \in Nat
  BY <1>2 DEF NodeInv, Counted
<1>4. ModelsOK(models, leaves, used + 1)
  <2>1. Fetched(used) \subseteq Fetched(used + 1)
    <3>1. ASSUME NEW n \in Fetched(used) PROVE n \in Fetched(used + 1)
      <4>1. n \in 0 .. leaf_num - 1 /\ n < used
        BY DEF Fetched
      <4>2. n < used + 1
        BY <1>3, <4>1
      <4> QED
        BY <4>1, <4>2 DEF Fetched
    <3> QED
      BY <3>1
  <2> QED
    BY <1>2, <2>1, NumbersGrow DEF NodeInv, ModelsOK
<1>5. NodeInv'
  <2>1. /\ load' = load /\ phase' = phase /\ aborted' = aborted /\ taken' = taken
        /\ first' = first /\ opt' = opt /\ models' = models /\ region' = region
        /\ leaves' = leaves
    BY <1>1
  <2>2. /\ keys' = keys /\ leaf_num' = leaf_num
        /\ Loaded(leaves)' <=> Loaded(leaves')
        /\ ModelsOK(models, leaves, used)' <=> ModelsOK(models', leaves', used')
        /\ Covered(models, first)' <=> Covered(models', first')
        /\ Rest(first)' = Rest(first')
    BY <2>1, PrimedParts
  <2>3. Counted'
    BY <1>1, <1>2, <1>3, <2>1, <2>2 DEF NodeInv, Counted
  <2>4. SegmentInv'
    BY <1>2, <2>1, <2>2 DEF NodeInv, SegmentInv
  <2>5. ModelsOK(models, leaves, used)'
    BY <1>1, <1>4, <2>1, <2>2
  <2>6. Loaded(leaves)' <=> Loaded(leaves)
    BY <2>1, <2>2 DEF Loaded
  <2>7. Covered(models, first)' <=> Covered(models, first)
    BY <2>1, <2>2 DEF Covered
  <2>8. Laid(region, models)'
    BY <1>2, <2>1 DEF NodeInv
  <2> QED
    BY <1>2, <2>1, <2>2, <2>3, <2>4, <2>5, <2>6, <2>7, <2>8 DEF NodeInv
<1>6. UNCHANGED <<phase, models, leaves, index, down, wire, buf>>
  BY <1>1
<1>7. FALSE \in BOOLEAN /\ NoVal \in Vals \cup {NoVal} /\ pc[a] # "posted"
  BY <1>1
<1> QED
  BY <1>1, <1>5, <1>6, <1>7, ReturnStep

LEMMA NotDoneStep ==
  ASSUME CacheInv, NEW a \in Actors, NotDone(a)
  PROVE  CacheInv'
<1>1. /\ pc[a] # "posted" /\ Return(a, FALSE, NoVal)
      /\ UNCHANGED <<nodeVars, index, down, wire, buf>>
  BY DEF NotDone
<1>2. NodeInv'
  BY <1>1, NodeKept DEF CacheInv
<1>3. UNCHANGED <<phase, models, leaves, index, down, wire, buf>>
  BY <1>1 DEF nodeVars
<1>4. FALSE \in BOOLEAN /\ NoVal \in Vals \cup {NoVal}
  OBVIOUS
<1> QED
  BY <1>1, <1>2, <1>3, <1>4, ReturnStep

\* What the leaf buffer of a node answers
LEMMA BufferAnswer ==
  ASSUME CacheInv, NEW a \in Actors, pc[a] # "idle"
  PROVE  LET l == buf[a[1]]
             k == op[a].key
         IN  /\ contain(l, k) <=> k \in KeysOf(l)
             /\ search(l, k) \in Vals \cup {NoVal}
             /\ contain(l, k) => search(l, k) # NoVal
<1>1. op[a].key \in Keys
  BY CallFacts
<1>2. buf[a[1]] \in Leaves /\ Sorted(buf[a[1]])
  BY DEF CacheInv, OutsideInv, Actors
<1> QED
  BY <1>1, <1>2, AnswerLemma, FoundLemma

LEMMA ResumeStep ==
  ASSUME CacheInv, NEW a \in Actors, Resume(a)
  PROVE  CacheInv'
<1> DEFINE v == search(buf[a[1]], op[a].key)
<1>1. pc[a] = "ready" /\ UNCHANGED <<nodeVars, index, down, wire, buf>>
  BY DEF Resume
<1>2. v \in Vals \cup {NoVal}
  BY <1>1, BufferAnswer
<1>3. Return(a, TRUE, v) \/ Return(a, FALSE, NoVal) \/ Return(a, TRUE, NoVal)
  BY DEF Resume
<1>4. PICK ok \in BOOLEAN, val \in Vals \cup {NoVal} : Return(a, ok, val)
  BY <1>2, <1>3
<1>5. NodeInv'
  BY <1>1, NodeKept DEF CacheInv
<1>6. UNCHANGED <<phase, models, leaves, index, down, wire, buf>> /\ pc[a] # "posted"
  BY <1>1 DEF nodeVars
<1> QED
  BY <1>4, <1>5, <1>6, ReturnStep

\* get_leaf_addr on the snapshot: the leaves are those of the memory node's own
\* prediction.
LEMMA PredictedLemma ==
  ASSUME CacheInv, NEW n \in Nodes, index[n] # NoIndex, NEW k \in Keys
  PROVE  /\ phase = "serving"
         /\ Predicted(n, k).leaves = Window(models[ModelOf(k)], k)
<1> DEFINE j == ModelOf(k)
           m == models[j]
           c == Shot(m)
<1>1. phase = "serving" /\ index[n] = Snapshot(models) /\ NodeInv
  BY DEF CacheInv, IndexInv
<1>2. /\ DOMAIN models = 1 .. Len(models)
      /\ model_keys = [i \in 1 .. Len(models) |-> last_key(models[i])]
      /\ j \in DOMAIN models /\ IsModel(m, Fetched(used))
  BY <1>1, ServingModels
<1>3. index[n].keys = model_keys
  BY <1>1, <1>2 DEF Snapshot
<1>4. model_for_key(index[n].keys, k) + 1 = j
  BY <1>3 DEF ModelOf
<1>5. index[n].models[model_for_key(index[n].keys, k) + 1] = c
  BY <1>1, <1>2, <1>4 DEF Snapshot
<1>6. Predicted(n, k).leaves =
        [i \in 1 .. hi(c, k) - lo(c, k) + 1 |-> c.lt.table[lo(c, k) + i - 1].leaf_num]
  BY <1>5 DEF Predicted
<1>7. hi(c, k) = hi(m, k) /\ lo(c, k) = lo(m, k)
  BY DEF Shot, hi, lo, Above, Below, pos
<1>8. \A e \in DOMAIN m.lt.table : c.lt.table[e].leaf_num = Base(m, e)
  BY DEF Shot, Bare, Base, TE
<1> HIDE DEF c, m, j
<1>9. \A i \in 1 .. hi(m, k) - lo(m, k) + 1 : lo(m, k) + i - 1 \in DOMAIN m.lt.table
  BY <1>2, WindowFacts DEF EntryAt
<1>10. Predicted(n, k).leaves = Window(m, k)
  BY <1>6, <1>7, <1>8, <1>9 DEF Window
<1> QED
  BY <1>1, <1>10 DEF m, j

\* A call as it is entered
LEMMA EnteredCall ==
  ASSUME CacheInv, NEW n \in Nodes, index[n] # NoIndex, NEW k \in Keys,
         NEW kind \in {"search", "insert", "search_asyn", "insert_asyn", "search_syn"},
         NEW b
  PROVE  LET ls == Predicted(n, k).leaves
         IN  CallOn([kind |-> kind, key |-> k, leaves |-> ls, at |-> Len(ls),
                     copy |-> NewLeaf, lone |-> TRUE,
                     held |-> {i \in DOMAIN ls : contain(leaves[ls[i]], k)}],
                    IF Posts(kind) THEN "posted" ELSE kind, b, models, leaves)
<1> DEFINE ls == Predicted(n, k).leaves
           m == models[ModelOf(k)]
           size == hi(m, k) - lo(m, k) + 1
           c == IF Posts(kind) THEN "posted" ELSE kind
           held == {i \in DOMAIN ls : contain(leaves[ls[i]], k)}
           at == Len(ls)
           lone == TRUE
           o == [kind |-> kind, key |-> k, leaves |-> ls, at |-> at,
                 copy |-> NewLeaf, lone |-> lone, held |-> held]
<1>1. phase = "serving" /\ ls = Window(m, k) /\ NodeInv
  BY PredictedLemma DEF CacheInv
<1>2. ModelIn(models, k) = ModelOf(k) /\ ModelOf(k) \in DOMAIN models /\ IsModel(m, Fetched(used))
  BY <1>1, ModelInFacts
<1> HIDE DEF m
<1>3. /\ size \in Nat /\ size > 0
      /\ DOMAIN Window(m, k) = 1 .. size /\ Len(Window(m, k)) = size
      /\ \A x \in 1 .. size : Window(m, k)[x] \in Fetched(used)
  BY <1>2, WindowFacts
<1>4. at \in 1 .. size /\ at = size /\ DOMAIN ls = 1 .. size
  BY <1>1, <1>3
<1>5. Loaded(leaves)
  BY <1>1 DEF NodeInv
<1>6. ASSUME NEW x \in held
      PROVE  x \in 1 .. size /\ k \in KeysOf(leaves[ls[x]]) /\ x <= at
  <2>1. x \in 1 .. size /\ contain(leaves[ls[x]], k)
    BY <1>4
  <2>2. ls[x] \in 0 .. leaf_num - 1
    BY <1>1, <1>3, <2>1 DEF Fetched
  <2>3. leaves[ls[x]] \in Leaves /\ Sorted(leaves[ls[x]])
    BY <1>5, <2>2 DEF Loaded
  <2>4. k \in KeysOf(leaves[ls[x]])
    BY <2>1, <2>3, FoundLemma
  <2>5. x <= at
    BY <1>3, <1>4, <2>1
  <2> QED
    BY <2>1, <2>4, <2>5
<1>7. \A x \in at + 1 .. size : k < FirstKey(m, EntryAt(m, k, x))
  BY <1>3, <1>4
<1>8. NewLeaf \in Leaves /\ Sorted(NewLeaf)
  BY NewLeafLemma
<1>9. Kinds(o, c) /\ c # "idle" /\ c # "ready" /\ c # "write"
  BY DEF Kinds, Posts
<1> HIDE DEF ls, at, held, lone, c
<1>10. o = [kind |-> kind, key |-> k, leaves |-> ls, at |-> at,
            copy |-> NewLeaf, held |-> held, lone |-> lone]
  OBVIOUS
<1>11. /\ o.kind = kind /\ o.key = k /\ o.leaves = ls /\ o.at = at
       /\ o.copy = NewLeaf /\ o.held = held /\ o.lone = lone
  OBVIOUS
<1> HIDE DEF o
<1>12. Called(o, c, b, m, leaves)
  BY <1>1, <1>4, <1>6, <1>7, <1>8, <1>9, <1>10, <1>11 DEF Called
<1>13. CallOn(o, c, b, models, leaves)
  BY <1>2, <1>9, <1>11, <1>12 DEF CallOn, m
<1> QED
  BY <1>13 DEF o, c, ls, at, held, lone

LEMMA BeginStep ==
  ASSUME CacheInv, NEW a \in Actors, NEW call \in Loads[load].calls[a[1]][a[2]],
         Begin(a, call[1], call[2])
  PROVE  CacheInv'
<1> DEFINE n == a[1]
           kind == call[1]
           k == call[2]
           p == Predicted(n, k)
           c == IF Posts(kind) THEN "posted" ELSE kind
           o == [kind |-> kind, key |-> k, leaves |-> p.leaves,
                 at |-> Len(p.leaves), copy |-> NewLeaf, lone |-> TRUE,
                 held |-> {i \in DOMAIN p.leaves : contain(leaves[p.leaves[i]], k)}]
<1>1. /\ Running(a) /\ pc[a] = "idle" /\ Enter(a, kind, k, c)
      /\ wire' = (IF Posts(kind) /\ a[1] \notin down'
                    THEN [wire EXCEPT ![a[1]] = Append(@, a)] ELSE wire)
      /\ reply' = [ok |-> FALSE, val |-> NoVal]
      /\ UNCHANGED <<nodeVars, index, buf>>
  BY DEF Begin
<1>2. n \in Nodes /\ a[2] \in Coroutines
  BY DEF Actors
<1>3. load \in DOMAIN Loads
  BY DEF CacheInv, NodeInv, Counted
<1>4. kind \in {"search", "insert", "search_asyn", "insert_asyn", "search_syn"} /\ k \in Keys
  BY <1>2, <1>3, CacheAssumption
<1>5. index[n] # NoIndex /\ n \notin down
  BY <1>1 DEF Running
<1>6. NodeInv' /\ CallsInv
  BY <1>1, NodeKept DEF CacheInv
<1>7. UNCHANGED <<phase, models, leaves, index, buf>>
  BY <1>1 DEF nodeVars
<1>8. reply'.ok \in BOOLEAN /\ reply'.val \in Vals \cup {NoVal}
  BY <1>1
<1>9. down \subseteq Nodes
  BY DEF CacheInv, OutsideInv
<1>10. phase = "serving"
  BY <1>2, <1>4, <1>5, PredictedLemma
<1>11. CASE p.wild
  <2>1. down' = down \cup {n} /\ pc' = pc /\ op' = op
    BY <1>1, <1>11 DEF Enter
  <2>2. wire' = wire
    BY <1>1, <2>1
  <2>3. pc' = [pc EXCEPT ![a] = pc[a]] /\ op' = [op EXCEPT ![a] = op[a]]
    BY <1>6, <2>1 DEF CallsInv
  <2>4. CallOn(op[a], pc[a], buf[a[1]], models, leaves)
    BY <1>6 DEF CallsInv
  <2>5. down' \subseteq Nodes
    BY <1>2, <1>9, <2>1
  <2>6. pc[a] # "posted"
    BY <1>1
  <2> QED
    BY <1>6, <1>7, <1>8, <1>10, <2>2, <2>3, <2>4, <2>5, <2>6, OneCall
<1>12. CASE ~ p.wild
  <2>1. down' = down /\ pc' = [pc EXCEPT ![a] = c] /\ op' = [op EXCEPT ![a] = o]
    BY <1>1, <1>12 DEF Enter
  <2>2. CallOn(o, c, buf[a[1]], models, leaves)
    BY <1>2, <1>4, <1>5, EnteredCall
  <2>3. \/ wire' = wire
        \/ c = "posted" /\ wire' = [wire EXCEPT ![a[1]] = Append(@, a)]
    BY <1>1
  <2>4. pc[a] # "posted"
    BY <1>1
  <2> HIDE DEF o, c
  <2> QED
    BY <1>6, <1>7, <1>8, <1>9, <1>10, <2>1, <2>2, <2>3, <2>4, OneCall
<1> QED
  BY <1>11, <1>12

LEMMA ConnectStep ==
  ASSUME CacheInv, NEW n \in Nodes, Connect(n)
  PROVE  CacheInv'
<1>1. NodeInv /\ CallsInv /\ IndexInv /\ WireInv /\ OutsideInv
  BY DEF CacheInv
<1>2. /\ phase = "serving" /\ Len(models) <= max_upper_num
      /\ UNCHANGED <<nodeVars, pc, op, wire, buf, reply>>
  BY DEF Connect
<1>3. /\ phase' = phase /\ models' = models /\ leaves' = leaves /\ pc' = pc /\ op' = op
      /\ wire' = wire /\ buf' = buf /\ reply' = reply
  BY <1>2 DEF nodeVars
<1>4. NodeInv'
  BY <1>1, <1>2, NodeKept
<1>5. CallsInv'
  BY <1>1, <1>3 DEF CallsInv
<1>6. WireInv'
  BY <1>1, <1>3 DEF WireInv
<1>7. \/ down' = down \cup {n} /\ index' = index
      \/ down' = down /\ index' = [index EXCEPT ![n] = read_index(region.mem)]
  BY DEF Connect
<1>8. OutsideInv'
  BY <1>1, <1>3, <1>7 DEF OutsideInv
<1>9. read_index(region.mem) = Snapshot(models)
  BY <1>1, <1>2, ReadLaid DEF NodeInv
<1>10. IndexInv'
  <2>1. CASE index' = index
    BY <1>1, <1>3, <2>1 DEF IndexInv
  <2>2. CASE index' = [index EXCEPT ![n] = read_index(region.mem)]
    <3>1. index = [p \in Nodes |-> index[p]]
      BY <1>1 DEF IndexInv
    <3>2. index' = [index EXCEPT ![n] = Snapshot(models)]
      BY <1>9, <2>2
    <3>3. index' = [p \in Nodes |-> index'[p]]
      BY <3>1, <3>2
    <3>4. ASSUME NEW p \in Nodes, index'[p] # NoIndex
          PROVE  phase = "serving" /\ index'[p] = Snapshot(models)
      <4>1. CASE p = n
        BY <1>2, <3>1, <3>2, <4>1
      <4>2. CASE p # n
        <5>1. index'[p] = index[p]
          BY <3>1, <3>2, <4>2
        <5> QED
          BY <1>1, <3>4, <5>1 DEF IndexInv
      <4> QED
        BY <4>1, <4>2
    <3> QED
      BY <1>3, <3>3, <3>4 DEF IndexInv
  <2> QED
    BY <1>7, <2>1, <2>2
<1> QED
  BY <1>4, <1>5, <1>6, <1>8, <1>10 DEF CacheInv

\* A node's next read: its first posted one is done.
LEMMA HeadFacts ==
  ASSUME NEW S, NEW q \in Seq(S), q # <<>>
  PROVE  /\ 1 \in 1 .. Len(q) /\ q[1] \in S /\ Tail(q) \in Seq(S)
         /\ Len(q) \in Nat /\ Len(Tail(q)) = Len(q) - 1
         /\ \A x \in 1 .. Len(q) - 1 : Tail(q)[x] = q[x + 1]
<1>1. Len(q) \in Nat /\ Len(q) > 0
  OBVIOUS
<1>2. q[1] \in S
  BY <1>1, ElementLemma
<1>3. Tail(q) \in Seq(S) /\ Len(Tail(q)) = Len(q) - 1
  OBVIOUS
<1>4. \A x \in 1 .. Len(q) - 1 : Tail(q)[x] = q[x + 1]
  OBVIOUS
<1> QED
  BY <1>1, <1>2, <1>3, <1>4

LEMMA NicReadStep ==
  ASSUME CacheInv, NEW n \in Nodes, NicRead(n)
  PROVE  CacheInv'
<1> DEFINE q == wire[n]
           a == q[1]
           l == leaves[op[a].leaves[1]]
<1>1. NodeInv /\ CallsInv /\ IndexInv /\ WireInv /\ OutsideInv
  BY DEF CacheInv
<1>2. /\ q # <<>>
      /\ buf' = [buf EXCEPT ![n] = l]
      /\ wire' = [wire EXCEPT ![n] = Tail(q)]
      /\ pc' = [pc EXCEPT ![a] = "ready"]
      /\ op' = [b \in Actors |->
                  IF b[1] = n /\ pc[b] = "ready"
                    THEN [op[b] EXCEPT !.lone = FALSE] ELSE op[b]]
      /\ UNCHANGED <<nodeVars, index, down, reply>>
  BY DEF NicRead
<1>3. /\ phase' = phase /\ models' = models /\ leaves' = leaves
      /\ index' = index /\ down' = down /\ reply' = reply
  BY <1>2 DEF nodeVars
<1>4. wire \in [Nodes -> Seq(Actors)] /\ q \in Seq(Actors)
  BY <1>1 DEF WireInv
<1>5. /\ 1 \in 1 .. Len(q) /\ a \in Actors /\ Tail(q) \in Seq(Actors)
      /\ Len(q) \in Nat /\ Len(Tail(q)) = Len(q) - 1
      /\ \A x \in 1 .. Len(q) - 1 : Tail(q)[x] = q[x + 1]
  BY <1>2, <1>4, HeadFacts
<1>6. /\ pc[a] = "posted" /\ a[1] = n
      /\ \A x \in 1 .. Len(q) : pc[q[x]] = "posted" /\ q[x][1] = n
      /\ \A x, y \in 1 .. Len(q) : q[x] = q[y] => x = y
  BY <1>1, <1>5 DEF WireInv
<1>7. NodeInv'
  BY <1>1, <1>2, NodeKept
<1>8. IndexInv'
  BY <1>1, <1>3 DEF IndexInv
<1>9. /\ op[a].leaves[1] \in DOMAIN leaves
      /\ l \in Leaves /\ Sorted(l)
      /\ op[a].key \in Keys
  BY <1>5, <1>6, CallFacts
<1>10. /\ pc = [b \in Actors |-> pc[b]] /\ op = [b \in Actors |-> op[b]]
       /\ \A b \in Actors : /\ pc[b] # "idle" => phase = "serving"
                            /\ CallOn(op[b], pc[b], buf[b[1]], models, leaves)
  BY <1>1 DEF CallsInv
<1>11. buf \in [Nodes -> Leaves] /\ \A p \in Nodes : Sorted(buf[p])
  BY <1>1 DEF OutsideInv
<1> HIDE DEF l, a
<1>12. buf' \in [Nodes -> Leaves] /\ buf'[n] = l /\ \A p \in Nodes : p # n => buf'[p] = buf[p]
  BY <1>2, <1>9, <1>11
<1>13. \A p \in Nodes : Sorted(buf'[p])
  BY <1>9, <1>11, <1>12
<1>14. OutsideInv'
  BY <1>1, <1>3, <1>12, <1>13 DEF OutsideInv
<1>15. \A b \in Actors :
         /\ pc'[b] = IF b = a THEN "ready" ELSE pc[b]
         /\ op'[b] = IF b[1] = n /\ pc[b] = "ready"
                       THEN [op[b] EXCEPT !.lone = FALSE] ELSE op[b]
  BY <1>2, <1>10
<1>16. pc' = [b \in Actors |-> pc'[b]] /\ op' = [b \in Actors |-> op'[b]]
  BY <1>2, <1>10, <1>15
<1>17. ASSUME NEW b \in Actors
       PROVE  CallOn(op'[b], pc'[b], buf'[b[1]], models, leaves)
  <2> DEFINE o == op[b]
             m == models[ModelIn(models, o.key)]
  <2>1. b[1] \in Nodes
    BY DEF Actors
  <2>2. CallOn(o, pc[b], buf[b[1]], models, leaves)
    BY <1>10
  <2>3. CASE b = a
    <3>1. pc'[b] = "ready" /\ op'[b] = o /\ buf'[b[1]] = l /\ pc[b] = "posted"
      BY <1>6, <1>12, <1>15, <2>3
    <3>2. Kinds(o, "posted") /\ Called(o, "posted", buf[b[1]], m, leaves)
      BY <2>2, <3>1 DEF CallOn
    <3>3. Kinds(o, "ready")
      BY <3>2 DEF Kinds
    <3>4. 1 \in o.held => o.key \in KeysOf(l)
      BY <2>3, <3>2 DEF Called, l
    <3> HIDE DEF m
    <3>5. Called(o, "ready", l, m, leaves)
      BY <3>2, <3>4 DEF Called
    <3> QED
      BY <3>1, <3>3, <3>5 DEF CallOn, m
  <2>4. CASE b # a /\ b[1] = n /\ pc[b] = "ready"
    <3> DEFINE lone == FALSE
               s == [o EXCEPT !.lone = lone]
    <3>1. pc'[b] = "ready" /\ op'[b] = s
      BY <1>15, <2>4
    <3>2. Kinds(o, "ready") /\ Called(o, "ready", buf[b[1]], m, leaves)
      BY <2>2, <2>4 DEF CallOn
    <3>3. o = [kind |-> o.kind, key |-> o.key, leaves |-> o.leaves, at |-> o.at,
               copy |-> o.copy, held |-> o.held, lone |-> o.lone]
      BY <3>2 DEF Called
    <3>4. ~ lone
      OBVIOUS
    <3> HIDE DEF lone
    <3>5. s = [kind |-> o.kind, key |-> o.key, leaves |-> o.leaves, at |-> o.at,
               copy |-> o.copy, held |-> o.held, lone |-> lone]
      BY <3>3
    <3>6. /\ s.kind = o.kind /\ s.key = o.key /\ s.leaves = o.leaves /\ s.at = o.at
          /\ s.copy = o.copy /\ s.held = o.held /\ s.lone = lone
      BY <3>5
    <3> HIDE DEF s, m
    <3>7. Kinds(s, "ready")
      BY <3>2, <3>6 DEF Kinds
    <3>8. Called(s, "ready", buf'[b[1]], m, leaves)
      BY <3>2, <3>4, <3>5, <3>6 DEF Called
    <3> QED
      BY <3>1, <3>6, <3>7, <3>8 DEF CallOn, m
  <2>5. CASE b # a /\ b[1] = n /\ pc[b] # "ready"
    <3>1. pc'[b] = pc[b] /\ op'[b] = o
      BY <1>15, <2>5
    <3>2. CASE pc[b] = "idle"
      BY <2>2, <3>1, <3>2 DEF CallOn
    <3>3. CASE pc[b] # "idle"
      <4>1. Kinds(o, pc[b]) /\ Called(o, pc[b], buf[b[1]], m, leaves)
        BY <2>2, <3>3 DEF CallOn
      <4> HIDE DEF m
      <4>2. Called(o, pc[b], buf'[b[1]], m, leaves)
        BY <2>5, <4>1 DEF Called
      <4> QED
        BY <3>1, <3>3, <4>1, <4>2 DEF CallOn, m
    <3> QED
      BY <3>2, <3>3
  <2>6. CASE b # a /\ b[1] # n
    <3>1. pc'[b] = pc[b] /\ op'[b] = o /\ buf'[b[1]] = buf[b[1]]
      BY <1>12, <1>15, <2>1, <2>6
    <3> QED
      BY <2>2, <3>1
  <2> QED
    BY <2>3, <2>4, <2>5, <2>6
<1>18. CallsInv'
  <2>1. \A b \in Actors : pc'[b] # "idle" => phase = "serving"
    BY <1>6, <1>10, <1>15
  <2>2. CallsInv' = /\ pc' = [b \in Actors |-> pc'[b]] /\ op' = [b \in Actors |-> op'[b]]
                    /\ \A b \in Actors :
                         /\ pc'[b] # "idle" => phase' = "serving"
                         /\ CallOn(op'[b], pc'[b], buf'[b[1]], models', leaves')
    BY DEF CallsInv
  <2> QED
    BY <1>3, <1>16, <1>17, <2>1, <2>2
<1> DEFINE r == Tail(q)
<1>19. wire' = [wire EXCEPT ![n] = r]
  BY <1>2
<1>20. /\ r \in Seq(Actors) /\ Len(r) = Len(q) - 1
       /\ \A x \in 1 .. Len(q) - 1 : r[x] = q[x + 1]
  BY <1>5
<1> HIDE DEF r
<1>21. /\ wire' \in [Nodes -> Seq(Actors)] /\ wire'[n] = r
       /\ \A p \in Nodes : p # n => wire'[p] = wire[p]
  BY <1>4, <1>19, <1>20
<1>22. ASSUME NEW p \in Nodes, NEW x \in 1 .. Len(wire'[p])
       PROVE  /\ pc'[wire'[p][x]] = "posted" /\ wire'[p][x][1] = p
              /\ \A y \in 1 .. Len(wire'[p]) : wire'[p][x] = wire'[p][y] => x = y
  <2>1. CASE p = n
    <3> HIDE DEF q
    <3>1. wire'[p] = r /\ x \in 1 .. Len(q) - 1
      BY <1>20, <1>21, <2>1
    <3>2. \A y \in 1 .. Len(q) - 1 :
            y + 1 \in 1 .. Len(q) /\ r[y] = q[y + 1] /\ y + 1 # 1 /\ y \in Int
      BY <1>5, <1>20
    <3>3. q[x + 1] # a
      BY <1>5, <1>6, <3>1, <3>2 DEF a
    <3>4. q[x + 1] \in Actors
      BY <1>4, <3>1, <3>2, ElementLemma DEF q
    <3>5. pc'[q[x + 1]] = "posted" /\ q[x + 1][1] = n
      BY <1>6, <1>15, <3>1, <3>2, <3>3, <3>4
    <3>6. ASSUME NEW y \in 1 .. Len(q) - 1, r[x] = r[y] PROVE x = y
      <4>1. q[x + 1] = q[y + 1]
        BY <3>1, <3>2, <3>6
      <4>2. x + 1 = y + 1
        BY <1>6, <3>1, <3>2, <4>1
      <4> QED
        BY <3>1, <3>2, <4>2
    <3> QED
      BY <1>20, <2>1, <3>1, <3>2, <3>5, <3>6
  <2>2. CASE p # n
    <3>1. wire'[p] = wire[p] /\ wire[p] \in Seq(Actors)
      BY <1>4, <1>21, <2>2
    <3>2. /\ pc[wire[p][x]] = "posted" /\ wire[p][x][1] = p
          /\ \A y \in 1 .. Len(wire[p]) : wire[p][x] = wire[p][y] => x = y
      BY <1>1, <3>1 DEF WireInv
    <3>3. wire[p][x] \in Actors /\ wire[p][x] # a
      BY <1>6, <2>2, <3>1, <3>2, ElementLemma
    <3> QED
      BY <1>15, <3>1, <3>2, <3>3
  <2> QED
    BY <2>1, <2>2
<1>23. WireInv'
  BY <1>21, <1>22 DEF WireInv
<1> QED
  BY <1>7, <1>8, <1>14, <1>18, <1>23 DEF CacheInv

\* Every step of the model keeps the invariant.
LEMMA CacheStep ==
  ASSUME N % 2 = 0
  PROVE  CacheInv /\ [CacheNext]_vars => CacheInv'
<1> SUFFICES ASSUME CacheInv, [CacheNext]_vars
             PROVE  CacheInv'
  OBVIOUS
<1>1. CASE Node
  <2>1. /\ op' = IF phase = "serving" THEN Witnessed(leaves') ELSE op
        /\ UNCHANGED <<index, down, pc, wire, buf, reply>>
    BY <1>1 DEF Node
  <2>2. CASE StartNext
    BY <2>1, <2>2, TrainStep
  <2>3. CASE \E k \in Loads[load].puts : PutKey(k)
    BY <2>1, <2>3, PutStep
  <2> QED
    BY <1>1, <2>2, <2>3 DEF Node
<1>2. ASSUME NEW n \in Nodes, Connect(n) \/ NicRead(n)
      PROVE  CacheInv'
  BY <1>2, ConnectStep, NicReadStep
<1>3. ASSUME NEW a \in Actors, NEW call \in Loads[load].calls[a[1]][a[2]],
             Begin(a, call[1], call[2])
      PROVE  CacheInv'
  BY <1>3, BeginStep
<1>4. ASSUME NEW a \in Actors,
             \/ SearchLeaf(a) \/ InsertLeaf(a) \/ WriteBack(a) \/ FetchAdd(a)
             \/ Resume(a) \/ NotDone(a)
      PROVE  CacheInv'
  BY <1>4, SearchStep, InsertStep, WriteBackStep, FetchAddStep, ResumeStep, NotDoneStep
<1>5. CASE UNCHANGED vars
  <2>1. UNCHANGED nodeVars /\ UNCHANGED <<index, down, pc, op, wire, buf, reply>>
    BY <1>5 DEF vars, cacheVars
  <2>2. phase' = phase /\ models' = models /\ leaves' = leaves
    BY <2>1 DEF nodeVars
  <2>3. NodeInv'
    BY <2>1, NodeKept DEF CacheInv
  <2>4. CallsInv'
    BY <2>1, <2>2 DEF CacheInv, CallsInv
  <2>5. IndexInv'
    BY <2>1, <2>2 DEF CacheInv, IndexInv
  <2>6. WireInv' /\ OutsideInv'
    BY <2>1 DEF CacheInv, WireInv, OutsideInv
  <2> QED
    BY <2>3, <2>4, <2>5, <2>6 DEF CacheInv
<1> QED
  BY <1>1, <1>2, <1>3, <1>4, <1>5 DEF CacheNext

\* append_model, the server's puts and splits, read_remote_index and every step of a
\* compute node's calls keep CacheInv: the submodels match the keys that train took
\* and lie in the model region as serialize laid them out, a node that has read them
\* has what serialize was given, and each call's window and buffered leaf are of the
\* submodel that model_for_key finds.
THEOREM CacheInvariant ==
  ASSUME N % 2 = 0
  PROVE  CacheSpec => []CacheInv
<1>1. CacheInit => CacheInv
  BY InitCache
<1>2. CacheInv /\ [CacheNext]_vars => CacheInv'
  BY CacheStep
<1> QED
  BY <1>1, <1>2, PTL DEF CacheSpec
-----------------------------------------------------------------------------
LEMMA CacheTyped ==
  CacheInv => TypeOK
<1> SUFFICES ASSUME CacheInv PROVE TypeOK
  OBVIOUS
<1>1. NodeInv /\ CallsInv /\ OutsideInv
  BY DEF CacheInv
<1>2. /\ phase \in {"create", "train", "serving"}
      /\ aborted \in {"no", "region", "room", "pool"}
      /\ first <= taken /\ taken <= Len(keys) /\ used \in Nat
  BY <1>1 DEF NodeInv, Counted
<1>3. phase # "create" => leaves \in [0 .. leaf_num - 1 -> Leaves]
  BY <1>1 DEF NodeInv, Loaded
<1>4. ASSUME NEW a \in Actors
      PROVE  /\ pc[a] \in {"idle", "search", "insert", "write", "fetch", "posted",
                           "ready", "search_syn"}
             /\ op[a].key \in Keys \cup {InvalidKey}
             /\ pc[a] # "idle" => op[a].at \in DOMAIN op[a].leaves
  <2>1. CASE pc[a] = "idle"
    <3>1. CallOn(op[a], pc[a], buf[a[1]], models, leaves)
      BY <1>1 DEF CallsInv
    <3>2. op[a] = NoCall
      BY <2>1, <3>1 DEF CallOn
    <3> QED
      BY <2>1, <3>2 DEF NoCall
  <2>2. CASE pc[a] # "idle"
    <3>1. op[a].key \in Keys /\ Kinds(op[a], pc[a]) /\ op[a].at \in DOMAIN op[a].leaves
      BY <2>2, CallFacts
    <3> QED
      BY <3>1 DEF Kinds
  <2> QED
    BY <2>1, <2>2
<1>5. pc \in [Actors -> {"idle", "search", "insert", "write", "fetch", "posted",
                         "ready", "search_syn"}]
  <2>1. pc = [a \in Actors |-> pc[a]]
    BY <1>1 DEF CallsInv
  <2> QED
    BY <1>4, <2>1
<1>6. /\ down \subseteq Nodes /\ \A n \in Nodes : buf[n] \in Leaves
      /\ reply.ok \in BOOLEAN /\ reply.val \in Vals \cup {NoVal}
  BY <1>1 DEF OutsideInv
<1> QED
  BY <1>2, <1>3, <1>4, <1>5, <1>6 DEF TypeOK

\* Whatever the memory node is trained on and puts and the compute nodes call, in
\* any order: the leaves stay leaves, a call looks at leaves of its window only,
\* and what lands in a leaf buffer or in a reply is what a leaf may hold
\* (Rolex::train and put, LearnedCache::search and insert and their asyn forms).
THEOREM CacheTypeCorrect ==
  ASSUME N % 2 = 0
  PROVE  CacheSpec => []TypeOK
<1>1. CacheSpec => []CacheInv
  BY CacheInvariant
<1>2. CacheInv => TypeOK
  BY CacheTyped
<1> QED
  BY <1>1, <1>2, PTL

\* A call that looks a key up returns.
LEMMA SearchReturns ==
  ASSUME CacheInv, NEW a \in Actors, op[a].kind \in {"search", "search_asyn"},
         CacheNext, pc'[a] = "idle"
  PROVE  SearchLeaf(a) \/ Resume(a)
<1>1. /\ pc = [b \in Actors |-> pc[b]]
      /\ CallOn(op[a], pc[a], buf[a[1]], models, leaves)
  BY DEF CacheInv, CallsInv
<1>2. pc[a] # "idle"
  BY <1>1 DEF CallOn, NoCall
<1>3. Kinds(op[a], pc[a])
  BY <1>1, <1>2 DEF CallOn
<1>4. pc' # pc
  BY <1>2
<1>5. ~ Node
  BY <1>4 DEF Node
<1>6. ASSUME NEW n \in Nodes, Connect(n) \/ NicRead(n) PROVE FALSE
  <2>1. ~ Connect(n)
    BY <1>4 DEF Connect
  <2>2. pc' = [pc EXCEPT ![wire[n][1]] = "ready"]
    BY <1>6, <2>1 DEF NicRead
  <2>3. pc'[a] = pc[a] \/ pc'[a] = "ready"
    BY <1>1, <2>2
  <2> QED
    BY <1>2, <2>3
<1>7. ASSUME NEW b \in Actors, NEW call \in Loads[load].calls[b[1]][b[2]],
             Begin(b, call[1], call[2])
      PROVE  FALSE
  <2>1. pc[b] = "idle" /\ \E c : pc' = pc \/ pc' = [pc EXCEPT ![b] = c]
    BY <1>7 DEF Begin, Enter
  <2>2. b # a
    BY <1>2, <2>1
  <2>3. pc'[a] = pc[a]
    BY <1>1, <2>1, <2>2
  <2> QED
    BY <1>2, <2>3
<1>8. ASSUME NEW b \in Actors,
             \/ SearchLeaf(b) \/ InsertLeaf(b) \/ WriteBack(b) \/ FetchAdd(b)
             \/ Resume(b) \/ NotDone(b)
      PROVE  SearchLeaf(a) \/ Resume(a)
  <2>1. \E c : pc' = pc \/ pc' = [pc EXCEPT ![b] = c]
    BY <1>8 DEF SearchLeaf, InsertLeaf, WriteBack, FetchAdd, Resume, NotDone, NextLeaf, Return
  <2>2. b = a
    BY <1>1, <1>2, <2>1
  <2>3. pc[a] \notin {"insert", "write", "fetch", "search_syn"} /\ op[a].kind # "insert_asyn"
    BY <1>3 DEF Kinds
  <2> QED
    BY <1>8, <2>2, <2>3 DEF InsertLeaf, WriteBack, FetchAdd, NotDone
<1> QED
  BY <1>5, <1>6, <1>7, <1>8 DEF CacheNext

LEMMA SearchFound ==
  ASSUME CacheInv, NEW a \in Actors, SearchLeaf(a), pc'[a] = "idle", op[a].held # {}
  PROVE  reply'.ok /\ reply'.val # NoVal
<1> DEFINE o == op[a]
           l == leaves[o.leaves[o.at]]
<1>1. pc[a] = "search" /\ Remote(a) = l
  BY DEF SearchLeaf, Remote
<1>2. /\ o.key \in Keys /\ l \in Leaves /\ Sorted(l)
      /\ contain(l, o.key) <=> o.key \in KeysOf(l)
      /\ Called(o, "search", buf[a[1]], models[ModelOf(o.key)], leaves)
  BY <1>1, CallFacts
<1>3. CASE contain(l, o.key)
  <2>1. reply' = [ok |-> TRUE, val |-> search(l, o.key)]
    BY <1>1, <1>3 DEF SearchLeaf, Return
  <2>2. search(l, o.key) # NoVal
    BY <1>2, <1>3, AnswerLemma
  <2> QED
    BY <2>1, <2>2
<1>4. CASE ~ contain(l, o.key)
  <2>1. NextLeaf(a)
    BY <1>1, <1>4 DEF SearchLeaf
  <2>2. o.at = 1
    <3>1. pc = [b \in Actors |-> pc[b]]
      BY DEF CacheInv, CallsInv
    <3> QED
      BY <1>1, <2>1, <3>1 DEF NextLeaf
  <2>3. PICK x \in o.held : TRUE
    OBVIOUS
  <2>4. /\ x \in 1 .. hi(models[ModelOf(o.key)], o.key) - lo(models[ModelOf(o.key)], o.key) + 1
        /\ o.key \in KeysOf(leaves[o.leaves[x]]) /\ x <= o.at
    BY <1>2, <2>3 DEF Called
  <2>5. x = 1
    BY <2>2, <2>4
  <2> QED
    BY <1>2, <1>4, <2>2, <2>4, <2>5
<1> QED
  BY <1>3, <1>4

LEMMA ResumeFound ==
  ASSUME CacheInv, NEW a \in Actors, Resume(a), 1 \in op[a].held, op[a].lone
  PROVE  reply'.ok /\ reply'.val # NoVal
<1> DEFINE o == op[a]
           l == buf[a[1]]
<1>1. pc[a] = "ready"
  BY DEF Resume
<1>2. Called(o, "ready", l, models[ModelOf(o.key)], leaves)
  BY <1>1, CallFacts
<1>3. o.key \in KeysOf(l)
  BY <1>2 DEF Called
<1>4. contain(l, o.key) /\ search(l, o.key) # NoVal
  BY <1>1, <1>3, BufferAnswer
<1>5. reply' = [ok |-> TRUE, val |-> search(l, o.key)]
  BY <1>4 DEF Resume, Return
<1> QED
  BY <1>4, <1>5

\* LearnedCache::search finds every key that was in a leaf of its window from the
\* call to the return, although the leaves are read one by one while the server
\* and other nodes write them; search_asyn finds it if it was in the first leaf
\* and no other coroutine's leaf came into the one buffer meanwhile.
THEOREM CacheSearches ==
  ASSUME N % 2 = 0
  PROVE  CacheSpec => CacheSearchFinds
<1> DEFINE A == \A a \in Actors :
                  op[a].kind \in {"search", "search_asyn"} /\ pc'[a] = "idle" =>
                    LET found == reply'.ok /\ reply'.val # NoVal
                    IN  IF op[a].kind = "search" THEN op[a].held # {} => found
                        ELSE 1 \in op[a].held /\ op[a].lone => found
<1>1. ASSUME CacheInv, CacheNext PROVE A
  <2> SUFFICES ASSUME NEW a \in Actors, op[a].kind \in {"search", "search_asyn"},
                      pc'[a] = "idle"
               PROVE  LET found == reply'.ok /\ reply'.val # NoVal
                      IN  IF op[a].kind = "search" THEN op[a].held # {} => found
                          ELSE 1 \in op[a].held /\ op[a].lone => found
    OBVIOUS
  <2>1. SearchLeaf(a) \/ Resume(a)
    BY <1>1, SearchReturns
  <2>2. CASE SearchLeaf(a)
    <3>1. pc[a] = "search"
      BY <2>2 DEF SearchLeaf
    <3>2. Kinds(op[a], pc[a])
      BY <1>1, <3>1, CallFacts
    <3>3. op[a].kind = "search"
      BY <3>1, <3>2 DEF Kinds
    <3> QED
      BY <1>1, <2>2, <3>3, SearchFound
  <2>3. CASE Resume(a)
    <3>1. op[a].kind = "search_asyn"
      BY <2>3 DEF Resume
    <3> QED
      BY <1>1, <2>3, <3>1, ResumeFound
  <2> QED
    BY <2>1, <2>2, <2>3
<1>2. CacheInv /\ [CacheNext]_vars => [A]_vars
  BY <1>1
<1>3. CacheSpec => []CacheInv
  BY CacheInvariant
<1>4. CacheSearchFinds <=> [][A]_vars
  BY DEF CacheSearchFinds
<1> HIDE DEF A
<1>5. CacheSpec => [][A]_vars
  BY <1>2, <1>3, PTL DEF CacheSpec
<1> QED
  BY <1>4, <1>5
-----------------------------------------------------------------------------
\* The first n keys of the training are in submodels.
Served(ms, n) ==
  \A i \in 1 .. n : \E j \in DOMAIN ms : \E x \in 1 .. ms[j].capacity :
    keys[i] = ms[j].keys[x]

KeysInv == aborted = "no" \/ phase = "serving" => Served(models, first)

LEMMA AppendServed ==
  ASSUME NodeInv, KeysInv, aborted = "no", first < taken, AppendModel, aborted' = "no"
  PROVE  Served(models', taken)
<1> DEFINE m == Fresh
           ms == Append(models, m)
<1>1. models' = ms
  BY DEF AppendModel
<1>2. /\ Counted /\ SegmentInv /\ IsSeq(models)
      /\ first \in 0 .. Len(keys) /\ taken \in first .. Len(keys) /\ load \in DOMAIN Loads
  BY DEF NodeInv, Counted, ModelsOK
<1>3. m.capacity = taken - first /\ \A i \in 1 .. taken - first : m.keys[i] = keys[first + i]
  BY <1>2, FreshTrained
<1>4. Len(keys) \in Nat
  BY <1>2, LoadFacts
<1> HIDE DEF m
<1>5. /\ DOMAIN ms = 1 .. Len(models) + 1 /\ ms[Len(models) + 1] = m
      /\ \A j \in 1 .. Len(models) : ms[j] = models[j]
      /\ DOMAIN models = 1 .. Len(models) /\ Len(models) \in Nat
  BY <1>2, AppendFacts, SeqFacts
<1> HIDE DEF ms
<1>6. ASSUME NEW i \in 1 .. taken
      PROVE  \E j \in DOMAIN ms : \E x \in 1 .. ms[j].capacity : keys[i] = ms[j].keys[x]
  <2>1. CASE i <= first
    <3>1. i \in 1 .. first
      BY <1>2, <1>4, <2>1
    <3>2. PICK j \in DOMAIN models : \E x \in 1 .. models[j].capacity : keys[i] = models[j].keys[x]
      BY <3>1 DEF KeysInv, Served
    <3>3. j \in DOMAIN ms /\ ms[j] = models[j]
      BY <1>5
    <3> QED
      BY <3>2, <3>3
  <2>2. CASE i > first
    <3> DEFINE x == i - first
    <3>1. x \in 1 .. taken - first /\ first + x = i
      BY <1>2, <1>4, <2>2
    <3> HIDE DEF x
    <3>2. m.keys[x] = keys[i] /\ x \in 1 .. m.capacity
      BY <1>3, <3>1
    <3>3. Len(models) + 1 \in DOMAIN ms
      BY <1>5
    <3> QED
      BY <1>5, <3>2, <3>3
  <2> QED
    BY <1>2, <1>4, <2>1, <2>2
<1> QED
  BY <1>1, <1>6 DEF Served

\* The same models, or the same but for their synonym leaves
LEMMA ServedKept ==
  ASSUME NEW ms, NEW ns, SameBases(ms, ns), NEW u, NEW mem, ModelsOK(ms, mem, u),
         NEW n, Served(ms, n)
  PROVE  Served(ns, n)
<1>1. ASSUME NEW i \in 1 .. n
      PROVE  \E j \in DOMAIN ns : \E x \in 1 .. ns[j].capacity : keys[i] = ns[j].keys[x]
  <2>1. PICK j \in DOMAIN ms : \E x \in 1 .. ms[j].capacity : keys[i] = ms[j].keys[x]
    BY DEF Served
  <2>2. j \in DOMAIN ns /\ ns[j] = [ms[j] EXCEPT !.lt = ns[j].lt]
    BY DEF SameBases
  <2>3. IsModel(ms[j], Fetched(u))
    BY DEF ModelsOK
  <2>4. ns[j].capacity = ms[j].capacity /\ ns[j].keys = ms[j].keys
    <3> DEFINE m == ms[j]
               lt == ns[j].lt
               r == [m EXCEPT !.lt = lt]
    <3> HIDE DEF m, lt
    <3>1. r.capacity = m.capacity /\ r.keys = m.keys
      BY <2>3, ReplacedModel DEF m
    <3>2. ns[j] = r
      BY <2>2 DEF m, lt
    <3> QED
      BY <3>1, <3>2 DEF m
  <2> QED
    BY <2>1, <2>2, <2>4
<1> QED
  BY <1>1 DEF Served

LEMMA KeysStep ==
  ASSUME N % 2 = 0
  PROVE  CacheInv /\ KeysInv /\ [CacheNext]_vars => KeysInv'
<1> SUFFICES ASSUME CacheInv, KeysInv, [CacheNext]_vars
             PROVE  KeysInv'
  OBVIOUS
<1>1. NodeInv
  BY DEF CacheInv
<1>2. load' = load => keys' = keys
  BY DEF keys
<1>3. ASSUME load' = load, models' = models, first' = first,
             aborted' = "no" \/ phase' = "serving" => aborted = "no" \/ phase = "serving"
      PROVE  KeysInv'
  BY <1>2, <1>3 DEF KeysInv, Served
<1>4. ASSUME first < taken, aborted = "no", AppendModel, first' = taken, load' = load,
             phase = "train", phase' = phase
      PROVE  KeysInv'
  <2>1. aborted' = "no" => Served(models', taken)
    BY <1>1, <1>4, AppendServed
  <2>2. Served(models, first)' <=> Served(models', taken)
    BY <1>2, <1>4 DEF Served
  <2> QED
    BY <1>4, <2>1, <2>2 DEF KeysInv
<1>5. CASE Create
  <2>1. load' = load /\ models' = models /\ first' = first /\ aborted = "no"
    BY <1>5 DEF Create
  <2> QED
    BY <1>3, <2>1
<1>6. CASE AddKey
  <2>1. load' = load /\ models' = models /\ first' = first /\ aborted = "no"
    BY <1>6 DEF AddKey
  <2> QED
    BY <1>3, <2>1
<1>7. CASE CloseSegment
  <2>1. /\ aborted = "no" /\ phase = "train" /\ AppendModel /\ first' = taken
        /\ load' = load /\ phase' = phase /\ taken < Len(keys)
        /\ ~ Takes(opt, keys[taken + 1], taken - first, Epsilon - 1)
    BY <1>7 DEF CloseSegment
  <2>2. Counted /\ SegmentInv /\ first \in Int /\ taken \in Int /\ first <= taken
    BY <1>1, LoadFacts DEF NodeInv, Counted
  <2>3. first # taken
    BY <2>1, <2>2, KeyTaken
  <2>4. first < taken
    BY <2>2, <2>3
  <2> QED
    BY <1>4, <2>1, <2>4
<1>8. CASE FinishTraining
  <2>1. /\ aborted = "no" /\ phase = "train" /\ AppendModel /\ first' = taken
        /\ load' = load /\ phase' = phase /\ first < taken
    BY <1>8 DEF FinishTraining
  <2> QED
    BY <1>4, <2>1
<1>9. CASE StartDaemon
  <2>1. load' = load /\ models' = models /\ first' = first /\ aborted = "no"
    BY <1>9 DEF StartDaemon
  <2> QED
    BY <1>3, <2>1
<1>10. ASSUME NEW k \in Loads[load].puts, PutKey(k) PROVE KeysInv'
  <2>1. SameBases(models, models') /\ phase = "serving"
    BY <1>1, <1>10, PutKeyStep
  <2>2. load' = load /\ first' = first
    BY <1>10 DEF PutKey
  <2>3. ModelsOK(models, leaves, used) /\ Served(models, first)
    BY <1>1, <2>1 DEF NodeInv, KeysInv
  <2>4. Served(models', first)
    BY <2>1, <2>3, ServedKept
  <2>5. Served(models, first)' <=> Served(models', first)
    BY <1>2, <2>2 DEF Served
  <2> QED
    BY <2>4, <2>5 DEF KeysInv
<1>11. ASSUME load' = load, models' = models, first' = first, aborted' = aborted, phase' = phase
       PROVE  KeysInv'
  BY <1>3, <1>11
<1>12. CASE Node
  BY <1>5, <1>6, <1>7, <1>8, <1>9, <1>10, <1>12 DEF Node, StartNext
<1>13. CASE \E n \in Nodes : Connect(n) \/ NicRead(n)
  BY <1>11, <1>13 DEF Connect, NicRead, nodeVars
<1>14. ASSUME NEW a \in Actors, NEW call, Begin(a, call[1], call[2]) PROVE KeysInv'
  BY <1>11, <1>14 DEF Begin, nodeVars
<1>15. ASSUME NEW a \in Actors,
             \/ SearchLeaf(a) \/ InsertLeaf(a) \/ WriteBack(a) \/ FetchAdd(a)
             \/ Resume(a) \/ NotDone(a)
       PROVE  KeysInv'
  <2>1. /\ load' = load /\ models' = models /\ first' = first
        /\ aborted' = aborted /\ phase' = phase
    BY <1>15 DEF SearchLeaf, InsertLeaf, WriteBack, FetchAdd, Resume, NotDone, nodeVars
  <2> QED
    BY <1>11, <2>1
<1>16. CASE UNCHANGED vars
  BY <1>11, <1>16 DEF vars, nodeVars
<1> QED
  BY <1>12, <1>13, <1>14, <1>15, <1>16 DEF CacheNext

LEMMA ServingInvariant ==
  ASSUME N % 2 = 0
  PROVE  CacheSpec => [](CacheInv /\ KeysInv)
<1>1. CacheInit => KeysInv
  BY DEF CacheInit, Init, KeysInv, Served
<1>2. CacheInv /\ KeysInv /\ [CacheNext]_vars => KeysInv'
  BY KeysStep
<1>3. CacheSpec => []CacheInv
  BY CacheInvariant
<1> QED
  BY <1>1, <1>2, <1>3, PTL DEF CacheSpec

\* The entry of a window whose leaf takes a key, when the later ones were trained to
\* begin above it: an insert and a search go there.
LEMMA EntryIs ==
  ASSUME NEW m, NEW T, IsModel(m, T), NEW mem, NEW k \in Keys,
         \A d \in DOMAIN m.lt.table : /\ mem[Base(m, d)] \in Leaves
                                      /\ Headed(m, d, mem[Base(m, d)]),
         NEW e \in lo(m, k) .. hi(m, k), insertHere(mem[Base(m, e)], k),
         \A d \in e + 1 .. hi(m, k) : k < FirstKey(m, d)
  PROVE  Entry(m.lt, mem, k, lo(m, k), hi(m, k)) = e
<1> DEFINE a == lo(m, k)
           b == hi(m, k)
           f == Entry(m.lt, mem, k, a, b)
<1>1. /\ k \in Nat
      /\ DOMAIN m.lt.table = 0 .. TrainedLeaves(m) - 1 /\ TrainedLeaves(m) \in Nat
  <2>1. k \in Nat
    BY LeafAssumption DEF Keys
  <2>2. DOMAIN m.lt.table = 0 .. TrainedLeaves(m) - 1
    BY DEF IsModel
  <2>3. TrainedLeaves(m) \in Nat
    BY ModelFacts
  <2> QED
    BY <2>1, <2>2, <2>3
<1>2. Trained(m)
  BY DEF IsModel
<1>3. a \in Nat /\ b \in Nat /\ a <= b /\ b <= TrainedLeaves(m) - 1
  BY <1>1, <1>2, WindowLemma
<1>4. e \in a .. b /\ e \in Nat
  BY <1>3
<1>5. \A d \in e + 1 .. b : k < FirstKey(m, d)
  OBVIOUS
<1> HIDE DEF a, b
<1>6. ASSUME NEW d \in e + 1 .. b
      PROVE  ~ insertHere(mem[m.lt.table[d].leaf_num], k)
  <2> DEFINE h == mem[m.lt.table[d].leaf_num][0].key
  <2>1. d \in DOMAIN m.lt.table /\ d \in Nat /\ e < d
    BY <1>1, <1>3, <1>4
  <2>2. FirstKey(m, d) \in Nat /\ k < FirstKey(m, d)
    BY <1>5, <2>1, FirstKeyFacts
  <2>3. h <= FirstKey(m, d) /\ (h = FirstKey(m, d) \/ lo(m, h) >= d)
    BY <2>1 DEF Headed, Base
  <2>4. insertHere(mem[m.lt.table[d].leaf_num], k) <=> k >= h
    BY DEF insertHere
  <2>5. h \in 0 .. InvalidKey /\ InvalidKey \in Nat /\ FirstKey(m, d) \in Keys
    BY <2>1, FirstKeyFacts, SlotLemma DEF Base
  <2> HIDE DEF h
  <2>6. CASE h = FirstKey(m, d)
    BY <1>1, <2>2, <2>4, <2>6
  <2>7. CASE h # FirstKey(m, d)
    <3>1. lo(m, h) >= d /\ h \in Keys /\ h \in Nat
      BY <2>2, <2>3, <2>5, <2>7 DEF Keys
    <3>2. h <= k => lo(m, h) <= a
      BY <1>1, <1>2, <3>1, WindowOrder DEF a
    <3>3. lo(m, h) \in Nat
      BY <1>2, <3>1, WindowLemma
    <3>4. ~ (h <= k)
      BY <1>3, <1>4, <2>1, <3>1, <3>2, <3>3
    <3> QED
      BY <1>1, <2>4, <3>1, <3>4
  <2> QED
    BY <2>6, <2>7
<1>7. insertHere(mem[m.lt.table[e].leaf_num], k)
  BY DEF Base
<1>8. /\ f \in a .. b
      /\ f = a \/ insertHere(mem[m.lt.table[f].leaf_num], k)
      /\ \A d \in f + 1 .. b : ~ insertHere(mem[m.lt.table[d].leaf_num], k)
  BY <1>3, EntryLemma
<1> HIDE DEF f
<1>9. f = e
  <2>1. ~ (f > e)
    <3> SUFFICES ASSUME f > e PROVE FALSE
      OBVIOUS
    <3>1. f \in e + 1 .. b /\ f # a
      BY <1>3, <1>4, <1>8
    <3> QED
      BY <1>6, <1>8, <3>1
  <2>2. ~ (f < e)
    <3> SUFFICES ASSUME f < e PROVE FALSE
      OBVIOUS
    <3>1. e \in f + 1 .. b
      BY <1>3, <1>4, <1>8
    <3> QED
      BY <1>7, <1>8, <3>1
  <2> QED
    BY <1>3, <1>4, <1>8, <2>1, <2>2
<1> QED
  BY <1>9 DEF f, a, b

\* A key of the training is looked for in the entry it was put in.
LEMMA EntryOfTrained ==
  ASSUME NEW m, NEW T, IsModel(m, T), NEW mem, Stocked(m, mem), NEW x \in 1 .. m.capacity,
         \A d \in DOMAIN m.lt.table : mem[Base(m, d)] \in Leaves
  PROVE  Entry(m.lt, mem, m.keys[x], lo(m, m.keys[x]), hi(m, m.keys[x])) = (x - 1) \div N
<1> DEFINE k == m.keys[x]
           e == (x - 1) \div N
<1>1. /\ e \in DOMAIN m.lt.table /\ e \in Nat /\ k \in Keys /\ k \in Nat
      /\ DOMAIN m.lt.table = 0 .. TrainedLeaves(m) - 1 /\ TrainedLeaves(m) \in Nat
  BY ModelFacts DEF IsModel
<1>2. Trained(m)
  BY DEF IsModel
<1>3. hi(m, k) \in Nat /\ hi(m, k) <= TrainedLeaves(m) - 1
  BY <1>1, <1>2, WindowLemma
<1>4. e \in lo(m, k) .. hi(m, k)
  BY <1>2, TrainedWindow
<1>5. \A d \in DOMAIN m.lt.table : Headed(m, d, mem[Base(m, d)])
  BY DEF Stocked
<1>6. \A d \in e + 1 .. hi(m, k) : k < FirstKey(m, d)
  <2> SUFFICES ASSUME NEW d \in e + 1 .. hi(m, k) PROVE k < FirstKey(m, d)
    OBVIOUS
  <2> HIDE DEF e
  <2>1. d \in DOMAIN m.lt.table /\ e < d
    BY <1>1, <1>3
  <2> QED
    BY <2>1, FirstKeyFacts DEF e
<1>7. insertHere(mem[Base(m, e)], k)
  <2> DEFINE h == mem[Base(m, e)][0].key
  <2>1. h <= FirstKey(m, e) /\ FirstKey(m, e) \in Nat /\ h \in 0 .. InvalidKey /\ InvalidKey \in Nat
    BY <1>1, <1>5, FirstKeyFacts, SlotLemma DEF Headed
  <2>2. FirstKey(m, e) <= k
    BY <1>1, FirstKeyFacts
  <2>3. insertHere(mem[Base(m, e)], k) <=> k >= h
    BY DEF insertHere
  <2> HIDE DEF h
  <2> QED
    BY <1>1, <2>1, <2>2, <2>3
<1> HIDE DEF e, k
<1>8. Entry(m.lt, mem, k, lo(m, k), hi(m, k)) = e
  BY <1>1, <1>4, <1>5, <1>6, <1>7, EntryIs
<1> QED
  BY <1>8 DEF e, k

\* A key in a leaf of its entry is found.
LEMMA FoundInEntry ==
  ASSUME NEW lt, Sound(lt), NEW mem, NEW k \in Keys, NEW a, NEW b,
         Entry(lt, mem, k, a, b) \in DOMAIN lt.table,
         \A p \in 0 .. Len(Chain(lt, Entry(lt, mem, k, a, b))) :
           LET l == mem[LeafNum(lt, Entry(lt, mem, k, a, b), p)]
           IN  l \in Leaves /\ Sorted(l),
         \E p \in 0 .. Len(Chain(lt, Entry(lt, mem, k, a, b))) :
           k \in KeysOf(mem[LeafNum(lt, Entry(lt, mem, k, a, b), p)])
  PROVE  Search(lt, mem, k, a, b) # NoVal
<1> DEFINE i == Entry(lt, mem, k, a, b)
           c == Chain(lt, i)
           hits == {p \in DOMAIN c : contain(mem[lt.syn[c[p]].leaf_num], k)}
           base == mem[lt.table[i].leaf_num]
<1>1. Search(lt, mem, k, a, b) =
        IF contain(base, k) THEN search(base, k)
        ELSE IF hits = {} THEN NoVal
        ELSE search(mem[lt.syn[c[Greatest(hits)]].leaf_num], k)
  BY DEF Search
<1> HIDE DEF i
<1>2. c \in Seq(1 .. lt.next - 1) /\ Len(c) \in Nat /\ i \in DOMAIN lt.table
  BY ChainLemma DEF i
<1>3. \A p \in 0 .. Len(c) : mem[LeafNum(lt, i, p)] \in Leaves /\ Sorted(mem[LeafNum(lt, i, p)])
  BY DEF i
<1>4. PICK q \in 0 .. Len(c) : k \in KeysOf(mem[LeafNum(lt, i, q)])
  BY DEF i
<1> HIDE DEF c
<1>5. DOMAIN c = 1 .. Len(c)
  BY <1>2
<1>6. /\ LeafNum(lt, i, 0) = lt.table[i].leaf_num
      /\ \A p \in 1 .. Len(c) : p # 0 /\ LeafNum(lt, i, p) = lt.syn[c[p]].leaf_num
  BY DEF LeafNum, c
<1>7. base \in Leaves /\ Sorted(base)
  BY <1>2, <1>3, <1>6
<1>8. \A p \in 1 .. Len(c) : /\ mem[lt.syn[c[p]].leaf_num] \in Leaves
                             /\ Sorted(mem[lt.syn[c[p]].leaf_num])
  BY <1>2, <1>3, <1>6
<1>9. CASE contain(base, k)
  <2>1. k \in KeysOf(base)
    BY <1>7, <1>9, FoundLemma
  <2>2. search(base, k) # NoVal
    BY <1>7, <2>1, AnswerLemma
  <2> QED
    BY <1>1, <1>9, <2>2
<1>10. CASE ~ contain(base, k)
  <2>1. k \notin KeysOf(base)
    BY <1>7, <1>10, FoundLemma
  <2>2. q # 0
    BY <1>4, <1>6, <2>1
  <2>3. q \in 1 .. Len(c)
    BY <1>2, <2>2
  <2>4. contain(mem[lt.syn[c[q]].leaf_num], k)
    BY <1>4, <1>6, <1>8, <2>3, FoundLemma
  <2>5. q \in hits
    BY <1>5, <2>3, <2>4
  <2>6. Greatest(hits) \in hits
    <3> DEFINE z == Len(c)
    <3>1. hits \in SUBSET Int /\ hits # {} /\ z \in Int
      BY <1>2, <1>5, <2>5
    <3>2. \A y \in hits : y <= z
      BY <1>2, <1>5
    <3> HIDE DEF hits, z
    <3> QED
      BY <3>1, <3>2, GreatestLemma
  <2>7. Greatest(hits) \in 1 .. Len(c) /\ contain(mem[lt.syn[c[Greatest(hits)]].leaf_num], k)
    BY <1>5, <2>6
  <2> DEFINE g == Greatest(hits)
             l == mem[lt.syn[c[g]].leaf_num]
  <2>8. l \in Leaves /\ Sorted(l) /\ contain(l, k)
    BY <1>8, <2>7
  <2>9. k \in KeysOf(l)
    <3> HIDE DEF l
    <3> QED
      BY <2>8, FoundLemma
  <2>10. search(l, k) # NoVal
    BY <2>8, <2>9, AnswerLemma
  <2> QED
    BY <1>1, <1>10, <2>5, <2>10
<1> QED
  BY <1>9, <1>10

\* Each key of a submodel is routed to this submodel.
LEMMA RoutedBack ==
  ASSUME NodeInv, phase = "serving", NEW j \in DOMAIN models,
         NEW x \in 1 .. models[j].capacity
  PROVE  ModelOf(models[j].keys[x]) = j
<1> DEFINE m == models[j]
           k == m.keys[x]
           g == ModelOf(k)
<1>1. IsModel(m, Fetched(used)) /\ Ordered(models)
  BY DEF NodeInv, ModelsOK
<1>2. /\ k \in Keys /\ k \in Nat /\ m.capacity \in Nat \ {0}
      /\ last_key(m) = m.keys[m.capacity] /\ last_key(m) \in Nat
      /\ \A p, q \in 1 .. m.capacity : p < q => m.keys[p] < m.keys[q]
      /\ m.keys[1] \in Nat
  BY <1>1, ModelFacts
<1>3. /\ Len(models) \in Nat /\ DOMAIN models = 1 .. Len(models) /\ g \in DOMAIN models
      /\ \A i \in 1 .. Len(models) - 1 : last_key(models[i]) < k <=> i < g
  BY <1>2, ServingModels
<1>4. k <= last_key(m) /\ m.keys[1] <= k
  <2>0. x \in 1 .. m.capacity
    OBVIOUS
  <2> HIDE DEF m
  <2>1. 1 \in 1 .. m.capacity /\ m.capacity \in 1 .. m.capacity /\ x \in 1 .. m.capacity
    BY <1>2, <2>0
  <2>2. x = m.capacity \/ k < m.keys[m.capacity]
    BY <1>2, <2>1
  <2>3. x = 1 \/ m.keys[1] < k
    BY <1>2, <2>1
  <2> HIDE DEF k
  <2> QED
    BY <1>2, <2>2, <2>3 DEF k
<1>5. ~ (j < g)
  <2> SUFFICES ASSUME j < g PROVE FALSE
    OBVIOUS
  <2>1. j \in 1 .. Len(models) - 1
    BY <1>3
  <2>2. last_key(m) < k
    BY <1>3, <2>1
  <2> HIDE DEF m, k
  <2> QED
    BY <1>2, <1>4, <2>2
<1>6. ~ (g < j)
  <2> SUFFICES ASSUME g < j PROVE FALSE
    OBVIOUS
  <2>1. g \in 1 .. Len(models) - 1
    BY <1>3
  <2>2. ~ (last_key(models[g]) < k)
    <3> HIDE DEF g
    <3> QED
      BY <1>3, <2>1
  <2>3. last_key(models[g]) < m.keys[1]
    BY <1>1, <1>3 DEF Ordered
  <2>4. last_key(models[g]) \in Nat
    <3>1. IsModel(models[g], Fetched(used))
      BY <1>3 DEF NodeInv, ModelsOK
    <3> QED
      BY <3>1, ModelFacts
  <2> HIDE DEF g, m, k
  <2> QED
    BY <1>2, <1>4, <2>2, <2>3, <2>4
<1>7. g \in Int /\ j \in Int
  BY <1>3
<1> HIDE DEF g
<1> QED
  BY <1>5, <1>6, <1>7 DEF g

LEMMA TrainedFound ==
  ASSUME NodeInv, phase = "serving", NEW j \in DOMAIN models,
         NEW x \in 1 .. models[j].capacity
  PROVE  Lookup(models[j].keys[x]) # NoVal
<1> DEFINE m == models[j]
           k == m.keys[x]
           e == (x - 1) \div N
<1>1. ModelOf(k) = j
  BY RoutedBack
<1>2. Lookup(k) = Search(m.lt, leaves, k, lo(m, k), hi(m, k))
  BY <1>1 DEF Lookup
<1>3. IsModel(m, Fetched(used)) /\ Stocked(m, leaves) /\ Loaded(leaves)
  BY DEF NodeInv, ModelsOK
<1>4. /\ e \in DOMAIN m.lt.table /\ k \in Keys /\ Sound(m.lt)
      /\ \A d \in DOMAIN m.lt.table : Base(m, d) \in Fetched(used)
  BY <1>3, ModelFacts DEF IsModel
<1>5. \A n \in Fetched(used) : leaves[n] \in Leaves /\ Sorted(leaves[n])
  BY <1>3 DEF Loaded, Fetched
<1>6. \A d \in DOMAIN m.lt.table : leaves[Base(m, d)] \in Leaves
  BY <1>4, <1>5
<1> HIDE DEF m
<1>7. Entry(m.lt, leaves, k, lo(m, k), hi(m, k)) = e
  BY <1>3, <1>6, EntryOfTrained DEF m
<1>8. InEntry(m, leaves, e, 0, k)
  BY <1>3 DEF Stocked, m
<1>9. \A p \in 0 .. Len(Chain(m.lt, e)) : LeafNum(m.lt, e, p) \in Fetched(used)
  BY <1>3, <1>4, NumberLemma
<1> HIDE DEF e, k
<1>10. Search(m.lt, leaves, k, lo(m, k), hi(m, k)) # NoVal
  BY <1>4, <1>5, <1>7, <1>8, <1>9, FoundInEntry DEF InEntry
<1> QED
  BY <1>2, <1>10 DEF m, k

LEMMA TrainedKept ==
  CacheInv /\ KeysInv => TrainedInWindow
<1> SUFFICES ASSUME CacheInv, KeysInv, phase = "serving"
             PROVE  /\ \A j \in DOMAIN models :
                         /\ Trained(models[j])
                         /\ \A i \in 1 .. models[j].capacity :
                              LET k == models[j].keys[i]
                              IN  /\ ModelOf(k) = j
                                  /\ (i - 1) \div N \in lo(models[j], k) .. hi(models[j], k)
                    /\ \A i \in DOMAIN keys : Lookup(keys[i]) # NoVal
  BY DEF TrainedInWindow
<1>1. NodeInv /\ Served(models, Len(keys)) /\ load \in DOMAIN Loads
  BY DEF CacheInv, NodeInv, KeysInv, Counted
<1>2. ASSUME NEW j \in DOMAIN models
      PROVE  Trained(models[j])
  BY <1>1 DEF NodeInv, ModelsOK, IsModel
<1>3. ASSUME NEW j \in DOMAIN models, NEW i \in 1 .. models[j].capacity
      PROVE  LET k == models[j].keys[i]
             IN  /\ ModelOf(k) = j
                 /\ (i - 1) \div N \in lo(models[j], k) .. hi(models[j], k)
  BY <1>1, <1>2, RoutedBack, TrainedWindow
<1>4. ASSUME NEW i \in DOMAIN keys
      PROVE  Lookup(keys[i]) # NoVal
  <2>1. i \in 1 .. Len(keys)
    BY <1>1, LoadFacts
  <2>2. PICK j \in DOMAIN models : \E x \in 1 .. models[j].capacity : keys[i] = models[j].keys[x]
    BY <1>1, <2>1 DEF Served
  <2> QED
    BY <1>1, <2>2, TrainedFound
<1> QED
  BY <1>2, <1>3, <1>4

\* Rolex::train and SubModel::predict: once the memory node serves, every key of
\* the training is routed to the submodel that was trained on it, its window has
\* the leaf it was put in, and a search finds it, whatever the server has put and
\* the compute nodes have written since.
THEOREM TrainingServed ==
  ASSUME N % 2 = 0
  PROVE  CacheSpec => []TrainedInWindow
<1>1. CacheSpec => [](CacheInv /\ KeysInv)
  BY ServingInvariant
<1>2. CacheInv /\ KeysInv => TrainedInWindow
  BY TrainedKept
<1> QED
  BY <1>1, <1>2, PTL
-----------------------------------------------------------------------------
\* Two states of the leaves between which the first keys of the entries are the same
LEMMA EntrySame ==
  ASSUME NEW lt, NEW mem, NEW new, NEW k, NEW a, NEW b,
         \A d \in a + 1 .. b :
           new[lt.table[d].leaf_num][0].key = mem[lt.table[d].leaf_num][0].key
  PROVE  Entry(lt, new, k, a, b) = Entry(lt, mem, k, a, b)
<1>1. {i \in a + 1 .. b : insertHere(new[lt.table[i].leaf_num], k)}
        = {i \in a + 1 .. b : insertHere(mem[lt.table[i].leaf_num], k)}
  BY DEF insertHere
<1> QED
  BY <1>1 DEF Entry

\* A search comes to the same when the entry answers the same and its synonym leaves
\* were left alone.
LEMMA SearchSame ==
  ASSUME NEW lt, Sound(lt), NEW mem, NEW new, NEW k, NEW a, NEW b, NEW i \in DOMAIN lt.table,
         Entry(lt, mem, k, a, b) = i, Entry(lt, new, k, a, b) = i,
         contain(new[lt.table[i].leaf_num], k) <=> contain(mem[lt.table[i].leaf_num], k),
         search(new[lt.table[i].leaf_num], k) = search(mem[lt.table[i].leaf_num], k),
         \A p \in 1 .. Len(Chain(lt, i)) : new[LeafNum(lt, i, p)] = mem[LeafNum(lt, i, p)]
  PROVE  Search(lt, new, k, a, b) = Search(lt, mem, k, a, b)
<1> DEFINE c == Chain(lt, i)
           hits(v) == {p \in DOMAIN c : contain(v[lt.syn[c[p]].leaf_num], k)}
           base == lt.table[i].leaf_num
<1>1. DOMAIN c = 1 .. Len(c)
  BY ChainLemma
<1>2. \A p \in 1 .. Len(c) : p # 0 /\ LeafNum(lt, i, p) = lt.syn[c[p]].leaf_num
  BY DEF LeafNum
<1>3. \A p \in DOMAIN c : new[lt.syn[c[p]].leaf_num] = mem[lt.syn[c[p]].leaf_num]
  BY <1>1, <1>2
<1>4. hits(new) = hits(mem)
  BY <1>3
<1>5. /\ Search(lt, mem, k, a, b) =
           IF contain(mem[base], k) THEN search(mem[base], k)
           ELSE IF hits(mem) = {} THEN NoVal
           ELSE search(mem[lt.syn[c[Greatest(hits(mem))]].leaf_num], k)
      /\ Search(lt, new, k, a, b) =
           IF contain(new[base], k) THEN search(new[base], k)
           ELSE IF hits(new) = {} THEN NoVal
           ELSE search(new[lt.syn[c[Greatest(hits(new))]].leaf_num], k)
  BY DEF Search
<1>6. hits(mem) # {} => Greatest(hits(mem)) \in DOMAIN c
  <2> SUFFICES ASSUME hits(mem) # {} PROVE Greatest(hits(mem)) \in DOMAIN c
    OBVIOUS
  <2> DEFINE n == Len(c)
             S == hits(mem)
  <2>1. n \in Int
    BY ChainLemma
  <2>2. S \in SUBSET Int /\ S # {} /\ \A y \in S : y <= n
    BY <1>1, <2>1
  <2>3. S \subseteq DOMAIN c
    OBVIOUS
  <2> HIDE DEF n, S
  <2>4. Greatest(S) \in S
    BY <2>1, <2>2, GreatestLemma
  <2> QED
    BY <2>3, <2>4 DEF S
<1> HIDE DEF hits, c, base
<1>7. hits(mem) # {} =>
        new[lt.syn[c[Greatest(hits(mem))]].leaf_num] = mem[lt.syn[c[Greatest(hits(mem))]].leaf_num]
  BY <1>3, <1>6
<1>8. /\ contain(new[base], k) <=> contain(mem[base], k)
      /\ search(new[base], k) = search(mem[base], k)
  BY DEF base
<1> QED
  BY <1>4, <1>5, <1>7, <1>8

\* The leaf of a write-back is found where the insert had looked for it.
LEMMA WriteBackEntry ==
  ASSUME CacheInv, NEW a \in Actors, NEW j, NEW e, NEW w, Writing(a, j, e, w),
         leaves[Base(models[j], e)] = op[a].copy
  PROVE  LET m == models[j]
             k == op[a].key
         IN  Entry(m.lt, leaves, k, lo(m, k), hi(m, k)) = e
<1> DEFINE m == models[j]
           k == op[a].key
<1>1. /\ k \in Keys /\ j \in DOMAIN models /\ IsModel(m, Fetched(used))
      /\ e \in lo(m, k) .. hi(m, k) /\ insertHere(op[a].copy, k)
      /\ \A d \in e + 1 .. hi(m, k) : k < FirstKey(m, d)
      /\ phase = "serving"
  BY DEF Writing
<1>2. Stocked(m, leaves) /\ Loaded(leaves)
  BY <1>1 DEF CacheInv, NodeInv, ModelsOK
<1>3. \A d \in DOMAIN m.lt.table : /\ leaves[Base(m, d)] \in Leaves
                                   /\ Headed(m, d, leaves[Base(m, d)])
  BY <1>1, <1>2 DEF IsModel, Fetched, Loaded, Stocked
<1>4. insertHere(leaves[Base(m, e)], k)
  BY <1>1
<1> HIDE DEF m, k
<1>5. Entry(m.lt, leaves, k, lo(m, k), hi(m, k)) = e
  BY <1>1, <1>3, <1>4, EntryIs
<1> QED
  BY <1>5 DEF m, k

\* What the write-back makes of a search
LEMMA WriteBackFound ==
  ASSUME CacheInv, NEW a \in Actors, NEW j, NEW e, NEW w, Writing(a, j, e, w),
         leaves[Base(models[j], e)] = op[a].copy, NEW q \in Keys
  PROVE  LET k == op[a].key
             l == Base(models[j], e)
             mem == [leaves EXCEPT ![l] = w]
             m == models[ModelOf(q)]
         IN  Search(m.lt, mem, q, lo(m, q), hi(m, q)) =
               IF q = k /\ ~ contain(leaves[l], k) THEN CacheVal ELSE Lookup(q)
<1> DEFINE k == op[a].key
           c == op[a].copy
           g == ModelOf(q)
           m == models[g]
           lt == m.lt
           l == Base(models[j], e)
           mem == [leaves EXCEPT ![l] = w]
           lo_q == lo(m, q)
           hi_q == hi(m, q)
           i == Entry(lt, leaves, q, lo_q, hi_q)
           base == lt.table[i].leaf_num
<1>1. /\ phase = "serving" /\ k \in Keys /\ j = ModelOf(k) /\ j \in DOMAIN models
      /\ e \in DOMAIN models[j].lt.table /\ l \in DOMAIN leaves
      /\ c \in Leaves /\ Sorted(c) /\ w \in Leaves /\ Sorted(w) /\ w[0].key = c[0].key
      /\ \A x : x \in KeysOf(w) <=> x \in KeysOf(c) \/ x = k
      /\ k \in KeysOf(c) => w = c
      /\ k \notin KeysOf(c) => Content(w) = Content(c) \cup {[key |-> k, val |-> CacheVal]}
      /\ IsModel(models[j], Fetched(used))
  BY DEF Writing
<1>2. NodeInv
  BY DEF CacheInv
<1>3. /\ g \in DOMAIN models
      /\ \A d \in DOMAIN models : IsModel(models[d], Fetched(used)) /\ Sound(models[d].lt)
  BY <1>1, <1>2, ServingModels
<1>4. /\ lo_q \in Nat /\ hi_q \in Nat /\ lo_q <= hi_q
      /\ \A d \in lo_q .. hi_q : d \in DOMAIN lt.table
  <2>1. Trained(m) /\ DOMAIN lt.table = 0 .. TrainedLeaves(m) - 1
    BY <1>3 DEF IsModel
  <2> HIDE DEF m
  <2>2. lo_q \in Nat /\ hi_q \in Nat /\ lo_q <= hi_q /\ hi_q <= TrainedLeaves(m) - 1
        /\ TrainedLeaves(m) \in Nat
    BY <2>1, WindowLemma
  <2> QED
    BY <2>1, <2>2
<1>5. /\ leaves[l] = c /\ mem[l] = w /\ \A x : x # l => mem[x] = leaves[x]
  BY <1>1
<1> HIDE DEF mem
<1>6. Entry(lt, mem, q, lo_q, hi_q) = i
  <2>1. \A d \in lo_q + 1 .. hi_q :
          mem[lt.table[d].leaf_num][0].key = leaves[lt.table[d].leaf_num][0].key
    BY <1>1, <1>5
  <2> HIDE DEF lt, lo_q, hi_q
  <2>2. Entry(lt, mem, q, lo_q, hi_q) = Entry(lt, leaves, q, lo_q, hi_q)
    BY <2>1, EntrySame
  <2> QED
    BY <2>2
<1>7. i \in DOMAIN lt.table
  <2>1. i \in lo_q .. hi_q
    <3> HIDE DEF lt, lo_q, hi_q
    <3> QED
      BY <1>4, EntryLemma
  <2> QED
    BY <1>4, <2>1
<1>8. /\ LeafNum(lt, i, 0) = base
      /\ \A p \in 0 .. Len(Chain(lt, i)) : LeafNum(lt, i, p) = l => g = j /\ i = e /\ p = 0
  <2>1. Numbered(models, Fetched(used))
    BY <1>2, <1>3 DEF NodeInv, ModelsOK, Numbered
  <2>2. LeafNum(models[j].lt, e, 0) = l /\ 0 \in 0 .. Len(Chain(models[j].lt, e))
    <3>1. Len(Chain(models[j].lt, e)) \in Nat /\ LeafNum(models[j].lt, e, 0) = Base(models[j], e)
      BY <1>1, NumberLemma
    <3> QED
      BY <3>1
  <2> HIDE DEF l, i
  <2>3. \A x \in DOMAIN models : \A d \in DOMAIN models[x].lt.table :
          \A p \in 0 .. Len(Chain(models[x].lt, d)) :
            LeafNum(models[x].lt, d, p) = l => x = j /\ d = e /\ p = 0
    BY <1>1, <2>1, <2>2, OnlyPlace
  <2>4. LeafNum(lt, i, 0) = base
    BY DEF LeafNum
  <2> QED
    BY <1>3, <1>7, <2>3, <2>4
<1>9. Len(Chain(lt, i)) \in Nat
  BY <1>3, <1>7, ChainLemma
<1>10. \A p \in 1 .. Len(Chain(lt, i)) : mem[LeafNum(lt, i, p)] = leaves[LeafNum(lt, i, p)]
  <2> SUFFICES ASSUME NEW p \in 1 .. Len(Chain(lt, i))
               PROVE  mem[LeafNum(lt, i, p)] = leaves[LeafNum(lt, i, p)]
    OBVIOUS
  <2>1. p \in 0 .. Len(Chain(lt, i)) /\ p # 0
    BY <1>9
  <2> QED
    BY <1>5, <1>8, <2>1
<1>11. Lookup(q) = Search(lt, leaves, q, lo_q, hi_q)
  BY DEF Lookup
<1>12. contain(leaves[l], k) <=> k \in KeysOf(c)
  BY <1>1, <1>5, FoundLemma
<1>13. q = k => base = l /\ i = e
  <2> SUFFICES ASSUME q = k PROVE base = l /\ i = e
    OBVIOUS
  <2>1. g = j
    BY <1>1
  <2>2. i = e
    BY <2>1, WriteBackEntry
  <2> QED
    BY <2>1, <2>2 DEF Base
<1>14. Sound(lt)
  BY <1>3
<1>15. ASSUME contain(mem[base], q) <=> contain(leaves[base], q),
              search(mem[base], q) = search(leaves[base], q)
       PROVE  Search(lt, mem, q, lo_q, hi_q) = Lookup(q)
  <2> HIDE DEF lt, lo_q, hi_q, i
  <2> QED
    BY <1>6, <1>7, <1>10, <1>11, <1>14, <1>15, SearchSame DEF i
<1>16. ASSUME q = k, ~ contain(leaves[l], k)
       PROVE  Search(lt, mem, q, lo_q, hi_q) = CacheVal
  <2>1. k \notin KeysOf(c) /\ base = l
    BY <1>12, <1>13, <1>16
  <2>2. [key |-> k, val |-> CacheVal] \in Content(w) /\ k \in KeysOf(w)
    BY <1>1, <2>1
  <2>3. search(w, k) = CacheVal /\ contain(w, k)
    BY <1>1, <2>2, FoundLemma
  <2>4. Search(lt, mem, q, lo_q, hi_q) = search(mem[base], q)
    <3>1. contain(mem[lt.table[Entry(lt, mem, q, lo_q, hi_q)].leaf_num], q)
      BY <1>5, <1>6, <1>16, <2>1, <2>3
    <3>2. Search(lt, mem, q, lo_q, hi_q)
            = search(mem[lt.table[Entry(lt, mem, q, lo_q, hi_q)].leaf_num], q)
      <4> HIDE DEF lt, lo_q, hi_q
      <4> QED
        BY <3>1 DEF Search
    <3> QED
      BY <1>6, <3>2
  <2>5. mem[base] = w
    BY <1>5, <2>1
  <2>6. search(mem[base], q) = CacheVal
    BY <1>16, <2>3, <2>5
  <2> QED
    BY <2>4, <2>6
<1>17. ASSUME ~ (q = k /\ ~ contain(leaves[l], k))
       PROVE  Search(lt, mem, q, lo_q, hi_q) = Lookup(q)
  <2>1. CASE base # l
    BY <1>5, <1>15, <2>1
  <2>2. CASE base = l /\ k \in KeysOf(c)
    <3>1. mem[base] = leaves[base]
      BY <1>1, <1>5, <2>2
    <3> QED
      BY <1>15, <3>1
  <2>3. CASE base = l /\ k \notin KeysOf(c)
    <3>1. q # k
      BY <1>12, <1>17, <2>3
    <3>2. mem[base] = w /\ leaves[base] = c
      BY <1>5, <2>3
    <3>3. q \in KeysOf(w) <=> q \in KeysOf(c)
      BY <1>1, <3>1
    <3>4. contain(w, q) <=> contain(c, q)
      BY <1>1, <3>3, FoundLemma
    <3>5. search(w, q) = search(c, q)
      <4>1. CASE q \in KeysOf(c)
        <5>1. PICK x \in Content(c) : x.key = q
          BY <1>1, <4>1, KeysLemma
        <5>2. x \in Content(w)
          BY <1>1, <2>3, <5>1
        <5> QED
          BY <1>1, <5>1, <5>2, FoundLemma
      <4>2. CASE q \notin KeysOf(c)
        BY <1>1, <3>3, <4>2, FoundLemma
      <4> QED
        BY <4>1, <4>2
    <3> QED
      BY <1>15, <3>2, <3>4, <3>5
  <2> QED
    BY <2>1, <2>2, <2>3
<1> QED
  BY <1>16, <1>17 DEF mem

\* A call that is about to write a leaf back goes on with that.
LEMMA WriteReturns ==
  ASSUME CacheInv, NEW a \in Actors, pc[a] = "write", CacheNext, pc'[a] = "idle"
  PROVE  WriteBack(a)
<1>1. pc = [b \in Actors |-> pc[b]]
  BY DEF CacheInv, CallsInv
<1>2. pc' # pc
  OBVIOUS
<1>3. ~ Node
  BY <1>2 DEF Node
<1>4. ASSUME NEW n \in Nodes, Connect(n) \/ NicRead(n) PROVE FALSE
  <2>1. ~ Connect(n)
    BY <1>2 DEF Connect
  <2>2. pc' = [pc EXCEPT ![wire[n][1]] = "ready"]
    BY <1>4, <2>1 DEF NicRead
  <2>3. pc'[a] = pc[a] \/ pc'[a] = "ready"
    BY <1>1, <2>2
  <2> QED
    BY <2>3
<1>5. ASSUME NEW b \in Actors, NEW call, Begin(b, call[1], call[2]) PROVE FALSE
  <2>1. pc[b] = "idle" /\ \E c : pc' = pc \/ pc' = [pc EXCEPT ![b] = c]
    BY <1>5 DEF Begin, Enter
  <2>2. pc'[a] = pc[a]
    BY <1>1, <2>1
  <2> QED
    BY <2>2
<1>6. ASSUME NEW b \in Actors,
             \/ SearchLeaf(b) \/ InsertLeaf(b) \/ WriteBack(b) \/ FetchAdd(b)
             \/ Resume(b) \/ NotDone(b)
      PROVE  WriteBack(a)
  <2>1. \E c : pc' = pc \/ pc' = [pc EXCEPT ![b] = c]
    BY <1>6 DEF SearchLeaf, InsertLeaf, WriteBack, FetchAdd, Resume, NotDone, NextLeaf, Return
  <2>2. b = a
    BY <1>1, <2>1
  <2> QED
    BY <1>6, <2>2 DEF SearchLeaf, InsertLeaf, FetchAdd, Resume, NotDone
<1> QED
  BY <1>3, <1>4, <1>5, <1>6 DEF CacheNext

\* LearnedCache::insert: the write-back of a leaf that nobody else wrote since it was
\* read gives the memory node the new key with its value, and Rolex::search answers
\* for every other key of every submodel as before.
THEOREM CacheInserts ==
  ASSUME N % 2 = 0
  PROVE  CacheSpec => CacheInsertKept
<1> DEFINE A == \A a \in Actors :
                  LET k == op[a].key
                      l == op[a].leaves[op[a].at]
                  IN  pc[a] = "write" /\ pc'[a] = "idle" /\ leaves[l] = op[a].copy =>
                        \A j \in Keys :
                          Lookup(j)' = IF j = k /\ ~ contain(leaves[l], k)
                                         THEN CacheVal ELSE Lookup(j)
<1>1. ASSUME CacheInv, CacheNext PROVE A
  <2> SUFFICES ASSUME NEW a \in Actors, pc[a] = "write", pc'[a] = "idle",
                      leaves[op[a].leaves[op[a].at]] = op[a].copy, NEW q \in Keys
               PROVE  Lookup(q)' = IF q = op[a].key
                                        /\ ~ contain(leaves[op[a].leaves[op[a].at]], op[a].key)
                                     THEN CacheVal ELSE Lookup(q)
    OBVIOUS
  <2> DEFINE k == op[a].key
             l == op[a].leaves[op[a].at]
             w == insert_not_full(op[a].copy, k, CacheVal)
             j == ModelOf(k)
             e == EntryAt(models[j], k, op[a].at)
             mem == [leaves EXCEPT ![l] = w]
             m == models[ModelOf(q)]
  <2>1. WriteBack(a)
    BY <1>1, WriteReturns
  <2>2. leaves' = mem /\ models' = models
    BY <2>1 DEF WriteBack
  <2>3. Writing(a, j, e, w)
    BY <1>1, WritingFacts
  <2>4. l = Base(models[j], e)
    BY <2>3 DEF Writing
  <2>5. ModelOf(q)' = ModelOf(q)
    BY <2>2 DEF ModelOf, model_keys
  <2>6. Lookup(q)' = Search(m.lt, mem, q, lo(m, q), hi(m, q))
    BY <2>2, <2>5 DEF Lookup
  <2> HIDE DEF j, e, w, k
  <2>7. Search(m.lt, mem, q, lo(m, q), hi(m, q))
          = IF q = k /\ ~ contain(leaves[l], k) THEN CacheVal ELSE Lookup(q)
    BY <1>1, <2>3, <2>4, WriteBackFound DEF k
  <2> QED
    BY <2>6, <2>7 DEF k
<1>2. CacheInv /\ [CacheNext]_vars => [A]_vars
  BY <1>1
<1>3. CacheSpec => []CacheInv
  BY CacheInvariant
<1>4. CacheInsertKept <=> [][A]_vars
  BY DEF CacheInsertKept
<1> HIDE DEF A
<1>5. CacheSpec => [][A]_vars
  BY <1>2, <1>3, PTL DEF CacheSpec
<1> QED
  BY <1>4, <1>5
-----------------------------------------------------------------------------
\* The submodels of an index as serialize() writes them, one behind the other
Frame(idx, i) ==
  LET w == serialize(idx.models[i])
  IN  <<idx.keys[i], Len(w)>> \o w

\* An index of n submodels whose words are integers
Framed(idx, n) ==
  /\ n \in Nat /\ IsSeq(idx.models) /\ Len(idx.models) = n
  /\ \A i \in 1 .. n : idx.keys[i] \in Int /\ serialize(idx.models[i]) \in Seq(Int)

\* Frame f is key k and the words w behind their length.
FrameOf(f, k, w) ==
  /\ f \in Seq(Int) /\ w \in Seq(Int) /\ Len(w) \in Nat /\ Len(f) = Len(w) + 2
  /\ f[1] = k /\ f[2] = Len(w)
  /\ \A x \in 1 .. Len(w) : f[2 + x] = w[x]

LEMMA FrameFacts ==
  ASSUME NEW idx, NEW n, Framed(idx, n), NEW i \in 1 .. n
  PROVE  FrameOf(Frame(idx, i), idx.keys[i], serialize(idx.models[i]))
<1> DEFINE w == serialize(idx.models[i])
           h == <<idx.keys[i], Len(w)>>
           f == Frame(idx, i)
<1>1. w \in Seq(Int) /\ idx.keys[i] \in Int
  BY DEF Framed
<1> HIDE DEF w
<1>2. Len(w) \in Nat
  BY <1>1
<1>3. h \in Seq(Int) /\ Len(h) = 2 /\ h[1] = idx.keys[i] /\ h[2] = Len(w)
  BY <1>1, <1>2
<1>4. f = h \o w
  BY DEF Frame, w
<1> HIDE DEF h, f
<1>5. /\ h \o w \in Seq(Int) /\ Len(h \o w) = Len(h) + Len(w)
      /\ \A x \in 1 .. Len(h) : (h \o w)[x] = h[x]
      /\ \A x \in 1 .. Len(w) : (h \o w)[Len(h) + x] = w[x]
  <2>1. h \in Seq(Int) /\ w \in Seq(Int)
    BY <1>1, <1>3
  <2> QED
    BY <2>1, ConcatFacts
<1>6. 1 \in 1 .. Len(h) /\ 2 \in 1 .. Len(h)
  BY <1>3
<1> QED
  BY <1>1, <1>2, <1>3, <1>4, <1>5, <1>6 DEF f, w, FrameOf

\* What comes out when the submodels are put together one by one
Joined(idx, n, p) ==
  p = [i \in 0 .. n |-> IF i = 0 THEN <<>> ELSE p[i - 1] \o Frame(idx, i)]

LEMMA JoinedExists ==
  ASSUME NEW idx, NEW n \in Nat
  PROVE  \E p : Joined(idx, n, p)
<1> DEFINE bad == {i \in 0 .. n : ~ \E p : Joined(idx, i, p)}
<1>1. SUFFICES ASSUME bad # {} PROVE FALSE
  <2>1. n \in 0 .. n
    OBVIOUS
  <2> QED
    BY <2>1
<1>2. PICK i \in bad : \A j \in bad : i <= j
  <2>1. bad \in SUBSET Nat
    OBVIOUS
  <2> HIDE DEF bad
  <2> QED
    BY <1>1, <2>1, LeastNumber
<1>3. i \in 0 .. n /\ ~ \E p : Joined(idx, i, p)
  BY <1>2
<1>4. i # 0
  <2>1. Joined(idx, 0, [x \in 0 .. 0 |-> <<>>])
    BY DEF Joined
  <2> QED
    BY <1>3, <2>1
<1>5. i - 1 \in 0 .. n /\ i - 1 \notin bad
  BY <1>2, <1>3, <1>4
<1>6. PICK q : Joined(idx, i - 1, q)
  BY <1>5
<1> DEFINE f == Frame(idx, i)
           p == [x \in 0 .. i |-> IF x = i THEN q[i - 1] \o f ELSE q[x]]
<1>7. q = [x \in 0 .. i - 1 |-> IF x = 0 THEN <<>> ELSE q[x - 1] \o Frame(idx, x)]
  BY <1>6 DEF Joined
<1>8. \A x \in 0 .. i - 1 : q[x] = IF x = 0 THEN <<>> ELSE q[x - 1] \o Frame(idx, x)
  BY <1>7
<1>9. \A x \in 0 .. i : p[x] = IF x = 0 THEN <<>> ELSE p[x - 1] \o Frame(idx, x)
  <2> SUFFICES ASSUME NEW x \in 0 .. i
               PROVE  p[x] = IF x = 0 THEN <<>> ELSE p[x - 1] \o Frame(idx, x)
    OBVIOUS
  <2>1. CASE x = i
    <3>1. x - 1 \in 0 .. i /\ x - 1 # i /\ x # 0
      BY <1>3, <1>4, <2>1
    <3> QED
      BY <2>1, <3>1
  <2>2. CASE x # i /\ x = 0
    <3>1. x \in 0 .. i - 1
      BY <1>3, <2>2
    <3> QED
      BY <1>8, <2>2, <3>1
  <2>3. CASE x # i /\ x # 0
    <3>1. x \in 0 .. i - 1 /\ x - 1 \in 0 .. i /\ x - 1 # i
      BY <1>3, <2>3
    <3>2. p[x] = q[x] /\ p[x - 1] = q[x - 1]
      BY <2>3, <3>1
    <3> QED
      BY <1>8, <2>3, <3>1, <3>2
  <2> QED
    BY <2>1, <2>2, <2>3
<1>10. p = [x \in 0 .. i |-> p[x]]
  OBVIOUS
<1> HIDE DEF p
<1>11. Joined(idx, i, p)
  BY <1>9, <1>10 DEF Joined
<1> QED
  BY <1>3, <1>11

Parts(idx) ==
  CHOOSE f : f = [i \in 0 .. Len(idx.models) |->
                    IF i = 0 THEN <<>> ELSE f[i - 1] \o Frame(idx, i)]

LEMMA SerializedParts ==
  ASSUME NEW idx, NEW n, Framed(idx, n)
  PROVE  /\ Joined(idx, n, Parts(idx))
         /\ serialize_index(idx) = <<Len(Parts(idx)[n])>> \o Parts(idx)[n]
<1>1. n \in Nat /\ n = Len(idx.models)
  BY DEF Framed
<1>2. \E f : f = [i \in 0 .. Len(idx.models) |->
                    IF i = 0 THEN <<>> ELSE f[i - 1] \o Frame(idx, i)]
  BY <1>1, JoinedExists DEF Joined
<1>3. Parts(idx) = [i \in 0 .. Len(idx.models) |->
                      IF i = 0 THEN <<>> ELSE Parts(idx)[i - 1] \o Frame(idx, i)]
  BY <1>2 DEF Parts
<1>4. serialize_index(idx)
        = <<Len(Parts(idx)[Len(idx.models)])>> \o Parts(idx)[Len(idx.models)]
  BY DEF serialize_index, Parts, Frame
<1> QED
  BY <1>1, <1>3, <1>4 DEF Joined

\* Where the submodels are: each is behind the ones before it, which stay where they
\* were.
Behind(idx, n, p) ==
  /\ p[0] = <<>>
  /\ \A i \in 0 .. n : p[i] \in Seq(Int) /\ Len(p[i]) \in Nat
  /\ \A i \in 1 .. n : Len(p[i]) = Len(p[i - 1]) + Len(serialize(idx.models[i])) + 2
  /\ \A i \in 0 .. n : \A j \in 0 .. i : /\ Len(p[j]) <= Len(p[i])
                                         /\ \A x \in 1 .. Len(p[j]) : p[i][x] = p[j][x]
  /\ \A i \in 1 .. n : \A x \in 1 .. Len(Frame(idx, i)) :
       p[i][Len(p[i - 1]) + x] = Frame(idx, i)[x]

LEMMA JoinedFacts ==
  ASSUME NEW idx, NEW n, Framed(idx, n), NEW p, Joined(idx, n, p)
  PROVE  Behind(idx, n, p)
<1>1. n \in Nat
  BY DEF Framed
<1>2. \A i \in 0 .. n : p[i] = IF i = 0 THEN <<>> ELSE p[i - 1] \o Frame(idx, i)
  BY DEF Joined
<1> DEFINE Good(i) ==
             /\ p[i] \in Seq(Int) /\ Len(p[i]) \in Nat
             /\ i # 0 => /\ Len(p[i]) = Len(p[i - 1]) + Len(serialize(idx.models[i])) + 2
                         /\ \A x \in 1 .. Len(Frame(idx, i)) :
                              p[i][Len(p[i - 1]) + x] = Frame(idx, i)[x]
             /\ \A j \in 0 .. i : /\ Len(p[j]) <= Len(p[i])
                                  /\ \A x \in 1 .. Len(p[j]) : p[i][x] = p[j][x]
           bad == {i \in 0 .. n : ~ Good(i)}
<1>3. bad = {}
  <2> HIDE DEF Good
  <2> SUFFICES ASSUME bad # {} PROVE FALSE
    OBVIOUS
  <2>1. PICK i \in bad : \A j \in bad : i <= j
    <3>1. bad \in SUBSET Nat
      OBVIOUS
    <3> HIDE DEF bad
    <3> QED
      BY <3>1, LeastNumber
  <2>2. i \in 0 .. n /\ ~ Good(i)
    BY <2>1
  <2> HIDE DEF bad
  <2>3. CASE i = 0
    <3>1. p[0] = <<>>
      BY <1>2, <2>2, <2>3
    <3>2. Good(0)
      <4>1. p[0] \in Seq(Int) /\ Len(p[0]) = 0
        BY <3>1
      <4>2. \A j \in 0 .. 0 : j = 0
        OBVIOUS
      <4> QED
        BY <4>1, <4>2 DEF Good
    <3> QED
      BY <2>2, <2>3, <3>2
  <2>4. CASE i # 0
    <3> DEFINE h == i - 1
               s == p[h]
               f == Frame(idx, i)
               w == serialize(idx.models[i])
    <3>1. h \in 0 .. n /\ h \in Nat /\ i \in 1 .. n /\ i = h + 1 /\ h \notin bad
      <4>1. h \in 0 .. n /\ h \in Nat /\ i \in 1 .. n /\ i = h + 1 /\ ~ (i <= h)
        BY <1>1, <2>2, <2>4
      <4> HIDE DEF h
      <4> QED
        BY <2>1, <4>1
    <3>2. Good(h)
      BY <3>1 DEF bad
    <3>3. /\ s \in Seq(Int) /\ Len(s) \in Nat
          /\ \A j \in 0 .. h : /\ Len(p[j]) <= Len(s)
                               /\ \A x \in 1 .. Len(p[j]) : s[x] = p[j][x]
      BY <3>2 DEF Good
    <3>4. f \in Seq(Int) /\ Len(w) \in Nat /\ Len(f) = Len(w) + 2
      BY <3>1, FrameFacts DEF FrameOf
    <3>5. p[i] = s \o f
      BY <1>2, <2>2, <2>4
    <3> HIDE DEF s, f, w
    <3>6. /\ s \o f \in Seq(Int) /\ Len(s \o f) = Len(s) + Len(f)
          /\ \A x \in 1 .. Len(s) : (s \o f)[x] = s[x]
          /\ \A x \in 1 .. Len(f) : (s \o f)[Len(s) + x] = f[x]
      <4>1. s \in Seq(Int) /\ f \in Seq(Int)
        BY <3>3, <3>4
      <4> QED
        BY <4>1, ConcatFacts
    <3>7. Len(p[i]) = Len(s) + Len(w) + 2 /\ Len(p[i]) \in Nat /\ p[i] \in Seq(Int)
      BY <3>3, <3>4, <3>5, <3>6
    <3>8. \A x \in 1 .. Len(f) : p[i][Len(s) + x] = f[x]
      BY <3>5, <3>6
    <3>9. ASSUME NEW j \in 0 .. i
          PROVE  Len(p[j]) <= Len(p[i]) /\ \A x \in 1 .. Len(p[j]) : p[i][x] = p[j][x]
      <4>1. CASE j = i
        BY <3>7, <4>1
      <4>2. CASE j # i
        <5>1. j \in 0 .. h
          BY <3>1, <4>2
        <5>2. Len(p[j]) <= Len(s) /\ \A x \in 1 .. Len(p[j]) : s[x] = p[j][x]
          BY <3>3, <5>1
        <5>3. Len(p[j]) \in Nat
          <6>1. j \in 0 .. n /\ j \notin bad
            BY <1>1, <2>1, <3>1, <5>1
          <6> QED
            BY <6>1 DEF Good, bad
        <5>4. \A x \in 1 .. Len(p[j]) : x \in 1 .. Len(s)
          BY <3>3, <5>2, <5>3
        <5>5. Len(p[j]) <= Len(p[i])
          BY <3>3, <3>4, <3>7, <5>2, <5>3
        <5> QED
          BY <3>5, <3>6, <5>2, <5>4, <5>5
      <4> QED
        BY <4>1, <4>2
    <3>10. Good(i)
      BY <3>7, <3>8, <3>9 DEF Good, s, f, w
    <3> QED
      BY <2>2, <3>10
  <2> QED
    BY <2>3, <2>4
<1>4. \A i \in 0 .. n : Good(i)
  BY <1>3
<1>5. p[0] = <<>>
  BY <1>1, <1>2
<1>6. \A i \in 1 .. n : i \in 0 .. n /\ i # 0
  BY <1>1
<1> QED
  BY <1>4, <1>5, <1>6 DEF Behind

\* An index in words: where each submodel begins, with its key, its length and its
\* words.
InWords(idx, n, w, off) ==
  /\ \A i \in 0 .. n : off[i] \in Nat
  /\ off[0] = 2 /\ w \in Seq(Int) /\ Len(w) \in Nat /\ off[n] = Len(w) + 1
  /\ \A i \in 1 .. n :
       LET b == serialize(idx.models[i])
           at == off[i - 1]
       IN  /\ b \in Seq(Int) /\ Len(b) \in Nat /\ at \in Nat /\ at > 1
           /\ off[i] = at + 2 + Len(b) /\ off[i] <= Len(w) + 1
           /\ w[at] = idx.keys[i] /\ w[at + 1] = Len(b)
           /\ \A x \in 1 .. Len(b) : w[at + 1 + x] = b[x]

LEMMA SerializedWords ==
  ASSUME NEW idx, NEW n, Framed(idx, n)
  PROVE  \E off : InWords(idx, n, serialize_index(idx), off)
<1> DEFINE p == Parts(idx)
           all == p[n]
           head == <<Len(all)>>
           w == serialize_index(idx)
           off == [i \in 0 .. n |-> Len(p[i]) + 2]
<1>1. n \in Nat
  BY DEF Framed
<1>2. Joined(idx, n, p) /\ w = head \o all
  BY SerializedParts
<1> HIDE DEF p, w
<1>3. /\ p[0] = <<>>
      /\ \A i \in 0 .. n : p[i] \in Seq(Int) /\ Len(p[i]) \in Nat
      /\ \A i \in 1 .. n : Len(p[i]) = Len(p[i - 1]) + Len(serialize(idx.models[i])) + 2
      /\ \A i \in 0 .. n : \A j \in 0 .. i : /\ Len(p[j]) <= Len(p[i])
                                             /\ \A x \in 1 .. Len(p[j]) : p[i][x] = p[j][x]
      /\ \A i \in 1 .. n : \A x \in 1 .. Len(Frame(idx, i)) :
           p[i][Len(p[i - 1]) + x] = Frame(idx, i)[x]
  <2>1. Behind(idx, n, p)
    BY <1>2, JoinedFacts
  <2> HIDE DEF all
  <2> QED
    BY <2>1 DEF Behind
<1>4. all \in Seq(Int) /\ Len(all) \in Nat /\ n \in 0 .. n /\ 0 \in 0 .. n
  BY <1>1, <1>3
<1> HIDE DEF all
<1>5. head \in Seq(Int) /\ Len(head) = 1
  BY <1>4
<1> HIDE DEF head
<1>6. /\ head \o all \in Seq(Int) /\ Len(head \o all) = Len(head) + Len(all)
      /\ \A x \in 1 .. Len(all) : (head \o all)[Len(head) + x] = all[x]
  <2>1. head \in Seq(Int) /\ all \in Seq(Int)
    BY <1>4, <1>5
  <2> QED
    BY <2>1, ConcatFacts
<1>7. /\ w \in Seq(Int) /\ Len(w) = Len(all) + 1 /\ Len(w) \in Nat
      /\ \A x \in 1 .. Len(all) : w[1 + x] = all[x]
  BY <1>2, <1>4, <1>5, <1>6
<1>8. \A i \in 0 .. n : off[i] = Len(p[i]) + 2 /\ off[i] \in Nat
  BY <1>3
<1> HIDE DEF off
<1>9. off[0] = 2 /\ off[n] = Len(w) + 1
  BY <1>3, <1>4, <1>7, <1>8 DEF all
<1>10. ASSUME NEW i \in 1 .. n
       PROVE  LET b == serialize(idx.models[i])
                  at == off[i - 1]
              IN  /\ b \in Seq(Int) /\ Len(b) \in Nat /\ at \in Nat /\ at > 1
                  /\ off[i] = at + 2 + Len(b) /\ off[i] <= Len(w) + 1
                  /\ w[at] = idx.keys[i] /\ w[at + 1] = Len(b)
                  /\ \A x \in 1 .. Len(b) : w[at + 1 + x] = b[x]
  <2> DEFINE b == serialize(idx.models[i])
             f == Frame(idx, i)
             s == Len(p[i - 1])
             at == off[i - 1]
  <2>1. i \in 0 .. n /\ i - 1 \in 0 .. n /\ i \in Int
    BY <1>1
  <2>3. FrameOf(f, idx.keys[i], b)
    BY FrameFacts
  <2>4. /\ Len(p[i]) = s + Len(b) + 2 /\ s \in Nat /\ Len(p[i]) \in Nat
        /\ at = s + 2 /\ off[i] = Len(p[i]) + 2
    BY <1>3, <1>8, <2>1
  <2>5. /\ Len(p[i]) <= Len(all)
        /\ \A x \in 1 .. Len(p[i]) : all[x] = p[i][x]
    BY <1>3, <1>4, <2>1 DEF all
  <2>6. \A x \in 1 .. Len(f) : p[i][s + x] = f[x]
    BY <1>3
  <2> HIDE DEF b, f, s, at
  <2>2. /\ f \in Seq(Int) /\ Len(b) \in Nat /\ Len(f) = Len(b) + 2
        /\ f[1] = idx.keys[i] /\ f[2] = Len(b)
        /\ \A x \in 1 .. Len(b) : f[2 + x] = b[x]
    BY <2>3 DEF FrameOf
  <2>7. ASSUME NEW x \in 1 .. Len(f) PROVE w[at - 1 + x] = f[x]
    <3> DEFINE y == s + x
    <3>1. y \in 1 .. Len(p[i]) /\ y \in 1 .. Len(all) /\ at - 1 + x = 1 + y
      <4> DEFINE g == Len(f)
                 z == Len(p[i])
                 t == Len(all)
      <4>1. x \in 1 .. g /\ g = Len(b) + 2 /\ Len(b) \in Nat /\ s \in Nat
        BY <2>2, <2>4
      <4>2. z = s + g /\ z <= t /\ t \in Nat /\ at = s + 2
        BY <1>4, <2>2, <2>4, <2>5
      <4> HIDE DEF g, z, t
      <4>3. y \in 1 .. z /\ y \in 1 .. t /\ at - 1 + x = 1 + y
        BY <4>1, <4>2
      <4> QED
        BY <4>3 DEF z, t
    <3>2. p[i][y] = f[x]
      BY <2>6
    <3> HIDE DEF y
    <3> QED
      BY <1>7, <2>5, <3>1, <3>2
  <2>8. 1 \in 1 .. Len(f) /\ 2 \in 1 .. Len(f)
    BY <2>2
  <2>9. w[at - 1 + 1] = f[1] /\ w[at - 1 + 2] = f[2]
    BY <2>7, <2>8
  <2>10. at - 1 + 1 = at /\ at - 1 + 2 = at + 1 /\ at \in Nat /\ at > 1
    BY <2>4
  <2>11. \A x \in 1 .. Len(b) : w[at + 1 + x] = b[x]
    <3> SUFFICES ASSUME NEW x \in 1 .. Len(b) PROVE w[at + 1 + x] = b[x]
      OBVIOUS
    <3> DEFINE y == 2 + x
    <3>1. y \in 1 .. Len(f) /\ at - 1 + y = at + 1 + x
      BY <2>2, <2>10
    <3>2. f[y] = b[x]
      BY <2>2
    <3> HIDE DEF y
    <3> QED
      BY <2>7, <3>1, <3>2
  <2>12. off[i] = at + 2 + Len(b) /\ off[i] <= Len(w) + 1
    BY <1>4, <1>7, <2>2, <2>4, <2>5
  <2>13. w[at] = idx.keys[i] /\ w[at + 1] = Len(b)
    BY <2>2, <2>9, <2>10
  <2> QED
    BY <2>2, <2>3, <2>10, <2>11, <2>12, <2>13 DEF b, at, FrameOf
<1>11. InWords(idx, n, w, off)
  BY <1>7, <1>8, <1>9, <1>10 DEF InWords
<1> QED
  BY <1>11 DEF w

\* The first words of the submodels, as deserialize_index finds them one from the other
Starts(w) ==
  CHOOSE f : f = [i \in 1 .. Len(w) |->
                    IF i = 1 THEN 2
                    ELSE LET at == f[i - 1]
                         IN  IF at > Len(w) THEN at ELSE at + 2 + w[at + 1]]

LEMMA WordsLong ==
  ASSUME NEW idx, NEW n \in Nat, NEW w, NEW off, InWords(idx, n, w, off)
  PROVE  n + n + 1 <= Len(w) /\ Len(w) \in Nat
<1> DEFINE bad == {i \in 0 .. n : ~ (off[i] >= 2 + i + i)}
<1>1. /\ \A i \in 0 .. n : off[i] \in Nat
      /\ off[0] = 2 /\ Len(w) \in Nat /\ off[n] = Len(w) + 1
      /\ \A i \in 1 .. n : Len(serialize(idx.models[i])) \in Nat
                           /\ off[i] = off[i - 1] + 2 + Len(serialize(idx.models[i]))
  BY DEF InWords
<1>2. bad = {}
  <2> SUFFICES ASSUME bad # {} PROVE FALSE
    OBVIOUS
  <2>1. PICK i \in bad : \A j \in bad : i <= j
    <3>1. bad \in SUBSET Nat
      OBVIOUS
    <3> HIDE DEF bad
    <3> QED
      BY <3>1, LeastNumber
  <2>2. i \in 0 .. n /\ ~ (off[i] >= 2 + i + i) /\ i # 0
    BY <1>1, <2>1
  <2> DEFINE h == i - 1
  <2>3. h \in 0 .. n /\ h \in Nat /\ i \in 1 .. n /\ i = h + 1 /\ ~ (i <= h)
    BY <2>2
  <2> HIDE DEF h
  <2>4. h \notin bad
    BY <2>1, <2>3
  <2>5. off[h] >= 2 + h + h /\ off[h] \in Nat
    BY <1>1, <2>3, <2>4
  <2>6. off[i] = off[h] + 2 + Len(serialize(idx.models[i])) /\ Len(serialize(idx.models[i])) \in Nat
    BY <1>1, <2>3 DEF h
  <2> QED
    BY <2>2, <2>3, <2>5, <2>6
<1>3. n \in 0 .. n
  OBVIOUS
<1>4. off[n] >= 2 + n + n
  BY <1>2, <1>3
<1> QED
  BY <1>1, <1>4

LEMMA StartFacts ==
  ASSUME NEW idx, NEW n \in Nat, NEW w, NEW off, InWords(idx, n, w, off)
  PROVE  \A i \in 1 .. Len(w) :
           Starts(w)[i] = IF i <= n THEN off[i - 1] ELSE Len(w) + 1
<1> DEFINE f == Starts(w)
           g == [i \in 1 .. Len(w) |-> IF i <= n THEN off[i - 1] ELSE Len(w) + 1]
           Next1(i, at) == IF i = 1 THEN 2 ELSE IF at > Len(w) THEN at ELSE at + 2 + w[at + 1]
<1>1. n + n + 1 <= Len(w) /\ Len(w) \in Nat
  BY WordsLong
<1>2. /\ \A i \in 0 .. n : off[i] \in Nat
      /\ off[0] = 2 /\ off[n] = Len(w) + 1
      /\ \A i \in 1 .. n : /\ Len(serialize(idx.models[i])) \in Nat
                           /\ off[i] = off[i - 1] + 2 + Len(serialize(idx.models[i]))
                           /\ off[i] <= Len(w) + 1
                           /\ w[off[i - 1] + 1] = Len(serialize(idx.models[i]))
  BY DEF InWords
<1>3. ASSUME NEW i \in 1 .. Len(w) PROVE g[i] = Next1(i, g[i - 1])
  <2>1. CASE i = 1
    BY <1>1, <1>2, <2>1
  <2>2. ASSUME i # 1 PROVE g[i] = Next1(i, g[i - 1])
    <3> DEFINE h == i - 1
               e == i - 2
    <3>1. h \in 1 .. Len(w) /\ h \in Nat /\ i = h + 1 /\ h - 1 = e /\ i - 1 = h
      BY <1>1, <2>2
    <3>2. g[h] = IF h <= n THEN off[e] ELSE Len(w) + 1
      BY <3>1
    <3>3. g[i] = IF i <= n THEN off[h] ELSE Len(w) + 1
      OBVIOUS
    <3> HIDE DEF g
    <3>4. CASE h <= n
      <4>1. h \in 1 .. n /\ e \in 0 .. n
        BY <3>1, <3>4
      <4>2. /\ off[e] \in Nat /\ Len(serialize(idx.models[h])) \in Nat
            /\ off[h] = off[e] + 2 + Len(serialize(idx.models[h]))
            /\ off[h] <= Len(w) + 1 /\ w[off[e] + 1] = Len(serialize(idx.models[h]))
        BY <1>2, <3>1, <4>1
      <4>3. ~ (off[e] > Len(w)) /\ off[h] = off[e] + 2 + w[off[e] + 1]
        BY <1>1, <4>2
      <4>4. g[i] = off[h]
        <5>1. CASE i <= n
          BY <3>3, <5>1
        <5>2. CASE ~ (i <= n)
          <6>1. h = n
            BY <3>1, <3>4, <5>2
          <6> QED
            BY <1>2, <3>3, <5>2, <6>1
        <5> QED
          BY <5>1, <5>2
      <4>5. g[i - 1] = off[e]
        BY <3>1, <3>2, <3>4
      <4> HIDE DEF h, e
      <4> QED
        BY <2>2, <4>3, <4>4, <4>5
    <3>5. CASE ~ (h <= n)
      <4>1. g[i - 1] = Len(w) + 1 /\ g[i] = Len(w) + 1
        BY <3>1, <3>2, <3>3, <3>5
      <4>2. Len(w) + 1 > Len(w)
        BY <1>1
      <4> QED
        BY <2>2, <4>1, <4>2
    <3> QED
      BY <3>4, <3>5
  <2> QED
    BY <2>1, <2>2
<1>4. g = [i \in 1 .. Len(w) |-> Next1(i, g[i - 1])]
  BY <1>3
<1>5. g = [i \in 1 .. Len(w) |->
             IF i = 1 THEN 2
             ELSE LET at == g[i - 1]
                  IN  IF at > Len(w) THEN at ELSE at + 2 + w[at + 1]]
  <2> HIDE DEF g
  <2> QED
    BY <1>4
<1>6. f = [i \in 1 .. Len(w) |-> Next1(i, f[i - 1])]
  <2> HIDE DEF g
  <2>1. \E h : h = [i \in 1 .. Len(w) |->
                      IF i = 1 THEN 2
                      ELSE LET at == h[i - 1]
                           IN  IF at > Len(w) THEN at ELSE at + 2 + w[at + 1]]
    BY <1>5
  <2>2. f = [i \in 1 .. Len(w) |->
               IF i = 1 THEN 2
               ELSE LET at == f[i - 1]
                    IN  IF at > Len(w) THEN at ELSE at + 2 + w[at + 1]]
    BY <2>1 DEF Starts
  <2> HIDE DEF f
  <2> QED
    BY <2>2
<1>7. ASSUME NEW i \in 1 .. Len(w) PROVE f[i] = Next1(i, f[i - 1])
  <2> HIDE DEF f, Next1
  <2> QED
    BY <1>6
<1> DEFINE bad == {i \in 1 .. Len(w) : f[i] # g[i]}
<1>8. bad = {}
  <2> HIDE DEF f, g, Next1
  <2> SUFFICES ASSUME bad # {} PROVE FALSE
    OBVIOUS
  <2>1. PICK i \in bad : \A j \in bad : i <= j
    <3>1. bad \in SUBSET Nat
      BY <1>1
    <3> HIDE DEF bad
    <3> QED
      BY <3>1, LeastNumber
  <2>2. i \in 1 .. Len(w) /\ f[i] # g[i] /\ i \in Nat
    BY <1>1, <2>1
  <2>3. i # 1
    BY <1>3, <1>7, <2>2 DEF Next1
  <2> DEFINE h == i - 1
  <2>4. h \in 1 .. Len(w) /\ ~ (i <= h)
    BY <1>1, <2>2, <2>3
  <2> HIDE DEF h
  <2>5. f[h] = g[h]
    BY <2>1, <2>4
  <2>6. f[i] = Next1(i, f[h]) /\ g[i] = Next1(i, g[h])
    BY <1>3, <1>7, <2>2 DEF h
  <2> QED
    BY <2>2, <2>5, <2>6
<1>9. \A i \in 1 .. Len(w) : f[i] = g[i]
  BY <1>8
<1> QED
  BY <1>9

LEMMA WordsRead ==
  ASSUME NEW idx, NEW n, Framed(idx, n), NEW w, NEW off, InWords(idx, n, w, off)
  PROVE  deserialize_index(w)
           = [keys   |-> [i \in 1 .. n |-> idx.keys[i]],
              models |-> [i \in 1 .. n |-> deserialize(serialize(idx.models[i]))]]
<1> DEFINE s == Starts(w)
           rounds == {i \in 1 .. Len(w) : s[i] <= Len(w)}
           part(at) == SubSeq(w, at + 2, at + 1 + w[at + 1])
<1>1. n \in Nat
  BY DEF Framed
<1>2. n + n + 1 <= Len(w) /\ Len(w) \in Nat
  BY <1>1, WordsLong
<1>3. \A i \in 1 .. Len(w) : s[i] = IF i <= n THEN off[i - 1] ELSE Len(w) + 1
  BY <1>1, StartFacts
<1>4. deserialize_index(w) = [keys   |-> [i \in rounds |-> w[s[i]]],
                              models |-> [i \in rounds |-> deserialize(part(s[i]))]]
  BY DEF deserialize_index, Starts
<1> HIDE DEF s
<1>5. ASSUME NEW i \in 1 .. n
      PROVE  /\ i \in rounds /\ w[s[i]] = idx.keys[i]
             /\ part(s[i]) = serialize(idx.models[i])
  <2> DEFINE b == serialize(idx.models[i])
             at == off[i - 1]
  <2>1. /\ b \in Seq(Int) /\ Len(b) \in Nat /\ at \in Nat /\ at > 1
        /\ off[i] = at + 2 + Len(b) /\ off[i] <= Len(w) + 1
        /\ w[at] = idx.keys[i] /\ w[at + 1] = Len(b)
        /\ \A x \in 1 .. Len(b) : w[at + 1 + x] = b[x]
        /\ w \in Seq(Int)
    BY DEF InWords
  <2>2. i \in 1 .. Len(w) /\ s[i] = at
    BY <1>1, <1>2, <1>3
  <2> HIDE DEF b, at
  <2>3. at <= Len(w) /\ at + 2 \in Nat \ {0} /\ at + 1 + Len(b) \in Nat
        /\ at + 2 <= (at + 1 + Len(b)) + 1 /\ at + 1 + Len(b) <= Len(w)
        /\ (at + 1 + Len(b)) - (at + 2) + 1 = Len(b)
    <3>1. /\ at \in Nat /\ Len(b) \in Nat /\ Len(w) \in Nat
          /\ at + 2 + Len(b) <= Len(w) + 1
      BY <1>2, <2>1
    <3> DEFINE x == Len(b)
               y == Len(w)
    <3>2. at \in Nat /\ x \in Nat /\ y \in Nat /\ at + 2 + x <= y + 1
      BY <3>1
    <3> HIDE DEF x, y
    <3>3. at <= y /\ at + 2 \in Nat \ {0} /\ at + 1 + x \in Nat
          /\ at + 2 <= (at + 1 + x) + 1 /\ at + 1 + x <= y
          /\ (at + 1 + x) - (at + 2) + 1 = x
      BY <3>2
    <3> QED
      BY <3>3 DEF x, y
  <2> DEFINE m == at + 2
             e == at + 1 + Len(b)
             p == SubSeq(w, m, e)
  <2>4. part(at) = p
    BY <2>1
  <2>5. m \in Nat \ {0} /\ e \in Nat /\ m <= e + 1 /\ e <= Len(w) /\ e - m + 1 = Len(b)
    BY <2>3
  <2>6. \A x \in 1 .. Len(b) : m + x - 1 = at + 1 + x
    BY <2>1
  <2> HIDE DEF m, e
  <2>7. /\ p \in Seq(Int) /\ Len(p) = e - m + 1
        /\ \A x \in 1 .. e - m + 1 : p[x] = w[m + x - 1]
    <3>1. w \in Seq(Int)
      BY <2>1
    <3> QED
      BY <2>5, <3>1, SubSeqFacts
  <2> HIDE DEF p, part
  <2>8. Len(p) = Len(b) /\ \A x \in 1 .. Len(b) : p[x] = b[x]
    BY <2>1, <2>5, <2>6, <2>7
  <2>9. p = [x \in 1 .. Len(p) |-> p[x]] /\ b = [x \in 1 .. Len(b) |-> b[x]]
    BY <2>1, <2>7, SeqFacts DEF IsSeq
  <2>10. p = b
    BY <2>8, <2>9
  <2> QED
    BY <2>1, <2>2, <2>3, <2>4, <2>10 DEF b
<1>6. rounds = 1 .. n
  <2>1. ASSUME NEW i \in rounds PROVE i \in 1 .. n
    BY <1>1, <1>2, <1>3
  <2> QED
    BY <1>5, <2>1
<1> HIDE DEF rounds, part
<1>7. [i \in rounds |-> w[s[i]]] = [i \in 1 .. n |-> idx.keys[i]]
  BY <1>5, <1>6
<1>8. [i \in rounds |-> deserialize(part(s[i]))]
        = [i \in 1 .. n |-> deserialize(serialize(idx.models[i]))]
  BY <1>5, <1>6
<1> QED
  BY <1>4, <1>7, <1>8

\* An index that a compute node writes out and reads again is the same.
LEMMA SnapshotWords ==
  ASSUME NEW ms, NEW mem, NEW u, ModelsOK(ms, mem, u)
  PROVE  deserialize_index(serialize_index(Snapshot(ms))) = Snapshot(ms)
<1> DEFINE idx == Snapshot(ms)
           n == Len(ms)
<1>1. IsSeq(ms) /\ n \in Nat /\ DOMAIN ms = 1 .. n
  BY SeqFacts DEF ModelsOK
<1>2. /\ idx = [keys |-> idx.keys, models |-> idx.models]
      /\ idx.keys = [j \in 1 .. n |-> last_key(ms[j])]
      /\ idx.models = [j \in 1 .. n |-> Shot(ms[j])]
  BY DEF Snapshot
<1> HIDE DEF idx, n
<1>3. ASSUME NEW j \in 1 .. n
      PROVE  /\ idx.keys[j] = last_key(ms[j]) /\ last_key(ms[j]) \in Int
             /\ idx.models[j] = Shot(ms[j])
             /\ serialize(idx.models[j]) \in Seq(Int)
             /\ deserialize(serialize(idx.models[j])) = Shot(ms[j])
  <2>1. IsModel(ms[j], Fetched(u))
    BY <1>1 DEF ModelsOK
  <2>2. Fetched(u) \subseteq Nat
    BY DEF Fetched
  <2>3. last_key(ms[j]) \in Int
    BY <2>1, ModelFacts
  <2>4. Blob(ms[j]) \in Seq(Int) /\ deserialize(Blob(ms[j])) = Shot(ms[j])
    BY <2>1, <2>2, BlobFacts
  <2>5. idx.keys[j] = last_key(ms[j]) /\ idx.models[j] = Shot(ms[j])
    BY <1>2
  <2> QED
    BY <2>3, <2>4, <2>5 DEF Blob
<1>4. IsSeq(idx.models) /\ Len(idx.models) = n
  <2> DEFINE S == {Shot(ms[j]) : j \in 1 .. n}
  <2>1. idx.models \in [1 .. n -> S]
    BY <1>2
  <2>2. idx.models \in Seq(S) /\ Len(idx.models) = n
    <3> HIDE DEF S
    <3> QED
      BY <1>1, <2>1
  <2> QED
    BY <2>2 DEF IsSeq
<1>5. Framed(idx, n)
  BY <1>1, <1>3, <1>4 DEF Framed
<1>6. PICK off : InWords(idx, n, serialize_index(idx), off)
  BY <1>5, SerializedWords
<1>7. deserialize_index(serialize_index(idx))
        = [keys   |-> [i \in 1 .. n |-> idx.keys[i]],
           models |-> [i \in 1 .. n |-> deserialize(serialize(idx.models[i]))]]
  BY <1>5, <1>6, WordsRead
<1>8. [i \in 1 .. n |-> idx.keys[i]] = idx.keys
  BY <1>2, <1>3
<1>9. [i \in 1 .. n |-> deserialize(serialize(idx.models[i]))] = idx.models
  BY <1>2, <1>3
<1> QED
  BY <1>2, <1>7, <1>8, <1>9 DEF idx

\* What a node that is connected has, next to what the memory node has
LEMMA SnapshotOfModels ==
  ASSUME CacheInv
  PROVE  SnapshotFaithful
<1> SUFFICES ASSUME NEW n \in Nodes, index[n] # NoIndex
             PROVE  /\ index[n].keys = model_keys
                    /\ \A j \in DOMAIN models :
                         LET m == models[j]
                             c == index[n].models[j]
                         IN  /\ c.icd = m.icd /\ \A k \in Keys : pos(c, k) = pos(m, k)
                             /\ \A k \in Keys : lo(c, k) = lo(m, k) /\ hi(c, k) = hi(m, k)
                             /\ DOMAIN c.lt.table = DOMAIN m.lt.table
                             /\ \A i \in DOMAIN m.lt.table :
                                  c.lt.table[i].leaf_num = m.lt.table[i].leaf_num
                             /\ c.lt.next = 1 /\ c.lt.syn = <<>>
                    /\ deserialize_index(serialize_index(index[n])) = index[n]
  BY DEF SnapshotFaithful
<1>1. phase = "serving" /\ index[n] = Snapshot(models) /\ NodeInv
  BY DEF CacheInv, IndexInv
<1>2. ModelsOK(models, leaves, used)
  BY <1>1 DEF NodeInv
<1>3. deserialize_index(serialize_index(index[n])) = index[n]
  BY <1>1, <1>2, SnapshotWords
<1>4. DOMAIN models = 1 .. Len(models)
  BY <1>2, SeqFacts DEF ModelsOK
<1>5. /\ index[n].keys = [j \in 1 .. Len(models) |-> last_key(models[j])]
      /\ \A j \in DOMAIN models : index[n].models[j] = Shot(models[j])
  BY <1>1, <1>4 DEF Snapshot
<1>6. model_keys = [j \in 1 .. Len(models) |-> last_key(models[j])]
  BY <1>4 DEF model_keys
<1>7. ASSUME NEW j \in DOMAIN models
      PROVE  LET m == models[j]
                 c == index[n].models[j]
             IN  /\ c.icd = m.icd /\ \A k \in Keys : pos(c, k) = pos(m, k)
                 /\ \A k \in Keys : lo(c, k) = lo(m, k) /\ hi(c, k) = hi(m, k)
                 /\ DOMAIN c.lt.table = DOMAIN m.lt.table
                 /\ \A i \in DOMAIN m.lt.table :
                      c.lt.table[i].leaf_num = m.lt.table[i].leaf_num
                 /\ c.lt.next = 1 /\ c.lt.syn = <<>>
  <2> DEFINE m == models[j]
             c == index[n].models[j]
  <2>1. c = Shot(m)
    BY <1>5
  <2> HIDE DEF m, c
  <2>2. /\ c.num = m.num /\ c.den = m.den /\ c.icn = m.icn /\ c.icd = m.icd
        /\ c.capacity = m.capacity /\ c.lt = Bare(m.lt)
    BY <2>1 DEF Shot
  <2>3. /\ DOMAIN c.lt.table = DOMAIN m.lt.table
        /\ \A i \in DOMAIN m.lt.table : c.lt.table[i].leaf_num = m.lt.table[i].leaf_num
        /\ c.lt.next = 1 /\ c.lt.syn = <<>>
    BY <2>2 DEF Bare, TE
  <2>4. \A k : pos(c, k) = pos(m, k)
    BY <2>2 DEF pos
  <2>5. \A k : lo(c, k) = lo(m, k) /\ hi(c, k) = hi(m, k)
    BY <2>2, <2>3, <2>4 DEF lo, hi, Above, Below
  <2> QED
    BY <2>2, <2>3, <2>4, <2>5 DEF m, c
<1> QED
  BY <1>3, <1>5, <1>6, <1>7

\* The index in the cache of a compute node is the one of the memory node: the same
\* keys, lines, error bounds and leaves before any insert, whatever PUTs the server
\* has applied since, and serialize() followed by the constructor that reads its
\* words gives it back (rolex.hpp, model_allocator.hpp, learned_cache.hpp).
THEOREM CacheSnapshots ==
  ASSUME N % 2 = 0
  PROVE  CacheSpec => []SnapshotFaithful
<1>1. CacheInv => SnapshotFaithful
  BY SnapshotOfModels
<1>2. CacheSpec => []CacheInv
  BY CacheInvariant
<1> QED
  BY <1>1, <1>2, PTL
-----------------------------------------------------------------------------
\* The keys from s on up to e, with their positions in a segment
Segm(s, e) == [i \in 1 .. e - s |-> <<keys[s + i], i - 1>>]

\* The submodels are of the keys from s[1] on, s[2] on and so on: each has a line
\* within the bound of its keys, and has none for the next key too.
FittedBy(ms, s) ==
  /\ s[1] = 0
  /\ \A j \in 1 .. Len(ms) :
       /\ s[j + 1] = s[j] + ms[j].capacity
       /\ Fits(Segm(s[j], s[j + 1]), Epsilon - 1)
       /\ s[j + 1] < Len(keys) => ~ Fits(Segm(s[j], s[j + 1] + 1), Epsilon - 1)

FitInv ==
  \E s : /\ FittedBy(models, s)
         /\ aborted = "no" \/ phase = "serving" => s[Len(models) + 1] = first

LEMMA SegmentFacts ==
  ASSUME Counted, SegmentInv
  PROVE  /\ Fits(Segm(first, taken), Epsilon - 1)
         /\ taken < Len(keys) /\ ~ Takes(opt, keys[taken + 1], taken - first, Epsilon - 1)
              => ~ Fits(Segm(first, taken + 1), Epsilon - 1)
<1> DEFINE E == Epsilon - 1
           n == taken - first
           xs == Rest(first)
<1>1. load \in DOMAIN Loads /\ first \in 0 .. Len(keys) /\ taken \in first .. Len(keys)
  BY DEF Counted
<1>2. Len(keys) \in Nat /\ E \in Nat
  BY <1>1, LoadFacts
<1>3. n \in Nat /\ first \in Nat /\ taken \in Nat /\ taken = first + n
      /\ (taken + 1) - first = n + 1 /\ taken <= Len(keys)
  BY <1>1, <1>2
<1>4. /\ Increasing(xs) /\ Len(xs) = Len(keys) - first
      /\ \A i \in 1 .. Len(keys) - first : xs[i] = keys[first + i]
  BY <1>1, RestFacts
<1>5. CASE first < Len(keys)
  <2>1. SegmentOf(xs, E, n, opt)
    BY <1>5 DEF SegmentInv
  <2> HIDE DEF xs, E
  <2>2. Segm(first, taken) = PointsOf(xs, n)
    <3>1. \A i \in 1 .. n : i \in 1 .. Len(keys) - first
      BY <1>2, <1>3
    <3>2. \A i \in 1 .. n : <<keys[first + i], i - 1>> = <<xs[i], i - 1>>
      BY <1>4, <3>1
    <3> QED
      BY <3>2 DEF Segm, PointsOf
  <2>3. Fits(Segm(first, taken), E)
    BY <1>2, <1>3, <1>4, <2>1, <2>2, SegmentFits
  <2>4. ASSUME taken < Len(keys), ~ Takes(opt, keys[taken + 1], n, E)
        PROVE  ~ Fits(Segm(first, taken + 1), E)
    <3>1. n < Len(xs) /\ n + 1 \in 1 .. Len(keys) - first /\ first + (n + 1) = taken + 1
      BY <1>2, <1>3, <1>4, <2>4
    <3>2. xs[n + 1] = keys[taken + 1]
      BY <1>4, <3>1
    <3>3. ~ Fits(PointsOf(xs, n + 1), E)
      BY <1>2, <1>3, <1>4, <2>1, <2>4, <3>1, <3>2, RefusedUnfit
    <3>4. Segm(first, taken + 1) = PointsOf(xs, n + 1)
      <4>1. \A i \in 1 .. n + 1 : i \in 1 .. Len(keys) - first
        BY <1>2, <1>3, <2>4
      <4>2. \A i \in 1 .. n + 1 : <<keys[first + i], i - 1>> = <<xs[i], i - 1>>
        BY <1>4, <4>1
      <4> QED
        BY <1>3, <4>2 DEF Segm, PointsOf
    <3> QED
      BY <3>3, <3>4
  <2> QED
    BY <2>3, <2>4 DEF E
<1>6. CASE ~ (first < Len(keys))
  <2>1. n = 0 /\ ~ (taken < Len(keys))
    BY <1>1, <1>2, <1>3, <1>6
  <2>2. DOMAIN Segm(first, taken) = {}
    BY <2>1 DEF Segm
  <2>3. Fits(Segm(first, taken), E)
    BY <2>2 DEF Fits
  <2> QED
    BY <2>1, <2>3
<1> QED
  BY <1>5, <1>6

LEMMA AppendFitted ==
  ASSUME NodeInv, NEW s, FittedBy(models, s), s[Len(models) + 1] = first, first < taken,
         AppendModel, aborted' = "no",
         taken < Len(keys) => ~ Takes(opt, keys[taken + 1], taken - first, Epsilon - 1)
  PROVE  \E t : FittedBy(models', t) /\ t[Len(models') + 1] = taken
<1> DEFINE m == Fresh
           ms == Append(models, m)
           L == Len(models)
           E == Epsilon - 1
           t == [j \in 1 .. L + 2 |-> IF j = L + 2 THEN taken ELSE s[j]]
<1>1. models' = ms
  BY DEF AppendModel
<1>2. /\ Counted /\ SegmentInv /\ IsSeq(models)
      /\ first \in 0 .. Len(keys) /\ taken \in first .. Len(keys) /\ load \in DOMAIN Loads
  BY DEF NodeInv, Counted, ModelsOK
<1>3. m.capacity = taken - first
  BY <1>2, FreshTrained
<1>4. Len(keys) \in Nat
  BY <1>2, LoadFacts
<1>5. /\ Fits(Segm(first, taken), E)
      /\ taken < Len(keys) => ~ Fits(Segm(first, taken + 1), E)
  BY <1>2, SegmentFacts
<1> HIDE DEF m
<1>6. /\ Len(ms) = L + 1 /\ ms[L + 1] = m /\ L \in Nat
      /\ \A j \in 1 .. L : ms[j] = models[j]
  BY <1>2, AppendFacts, SeqFacts
<1> HIDE DEF ms, L, E
<1>7. /\ s[1] = 0 /\ s[L + 1] = first
      /\ \A j \in 1 .. L :
           /\ s[j + 1] = s[j] + models[j].capacity
           /\ Fits(Segm(s[j], s[j + 1]), E)
           /\ s[j + 1] < Len(keys) => ~ Fits(Segm(s[j], s[j + 1] + 1), E)
  BY DEF FittedBy, L, E
<1>8. /\ t[L + 2] = taken /\ \A j \in 1 .. L + 1 : t[j] = s[j]
  BY <1>6
<1> HIDE DEF t
<1>9. ASSUME NEW j \in 1 .. L + 1
      PROVE  /\ t[j + 1] = t[j] + ms[j].capacity
             /\ Fits(Segm(t[j], t[j + 1]), E)
             /\ t[j + 1] < Len(keys) => ~ Fits(Segm(t[j], t[j + 1] + 1), E)
  <2>1. CASE j = L + 1
    <3>1. j + 1 = L + 2 /\ j \in 1 .. L + 1 /\ taken = first + (taken - first)
      BY <1>2, <1>4, <1>6, <2>1
    <3>2. t[j + 1] = taken /\ t[j] = first /\ ms[j] = m
      BY <1>6, <1>7, <1>8, <2>1, <3>1
    <3> QED
      BY <1>3, <1>5, <3>1, <3>2
  <2>2. CASE j # L + 1
    <3>1. j \in 1 .. L /\ j + 1 \in 1 .. L + 1
      BY <1>6, <2>2
    <3>2. t[j + 1] = s[j + 1] /\ t[j] = s[j] /\ ms[j] = models[j]
      BY <1>6, <1>8, <3>1
    <3> QED
      BY <1>7, <3>1, <3>2
  <2> QED
    BY <2>1, <2>2
<1>10. t[1] = 0
  BY <1>6, <1>7, <1>8
<1>11. FittedBy(ms, t)
  BY <1>6, <1>9, <1>10 DEF FittedBy, E
<1>12. Len(ms) + 1 = L + 2
  BY <1>6
<1> QED
  BY <1>1, <1>8, <1>11, <1>12

LEMMA FittedKept ==
  ASSUME NEW ms, NEW ns, SameBases(ms, ns), NEW u, NEW mem, ModelsOK(ms, mem, u),
         NEW s, FittedBy(ms, s)
  PROVE  FittedBy(ns, s) /\ Len(ns) = Len(ms)
<1>1. IsSeq(ms) /\ DOMAIN ms = 1 .. Len(ms)
  BY SeqFacts DEF ModelsOK
<1>2. Len(ns) = Len(ms)
  BY SameSnapshot
<1>3. ASSUME NEW j \in DOMAIN ms PROVE ns[j].capacity = ms[j].capacity
  <2> DEFINE m == ms[j]
             lt == ns[j].lt
             r == [m EXCEPT !.lt = lt]
  <2>1. IsModel(ms[j], Fetched(u))
    BY DEF ModelsOK
  <2>2. ns[j] = r
    BY DEF SameBases
  <2> HIDE DEF m, lt
  <2>3. r.capacity = m.capacity
    BY <2>1, ReplacedModel DEF m
  <2> QED
    BY <2>2, <2>3 DEF m
<1> QED
  BY <1>1, <1>2, <1>3 DEF FittedBy

LEMMA FitStep ==
  ASSUME N % 2 = 0
  PROVE  CacheInv /\ FitInv /\ [CacheNext]_vars => FitInv'
<1> SUFFICES ASSUME CacheInv, FitInv, [CacheNext]_vars
             PROVE  FitInv'
  OBVIOUS
<1> DEFINE Done == aborted = "no" \/ phase = "serving"
<1>1. NodeInv /\ Counted /\ SegmentInv
  BY DEF CacheInv, NodeInv
<1>2. ASSUME load' = load, NEW s
      PROVE  FittedBy(models, s)' <=> FittedBy(models', s)
  <2>1. keys' = keys
    BY <1>2 DEF keys
  <2> QED
    BY <2>1 DEF FittedBy, Segm
<1>3. ASSUME load' = load, models' = models, first' = first, Done' => Done
      PROVE  FitInv'
  <2>1. PICK s : FittedBy(models, s) /\ (Done => s[Len(models) + 1] = first)
    BY DEF FitInv
  <2>2. FittedBy(models, s)'
    BY <1>2, <1>3, <2>1
  <2> QED
    BY <1>3, <2>1, <2>2 DEF FitInv
<1>4. ASSUME first < taken, aborted = "no", AppendModel, first' = taken, load' = load,
             phase = "train", phase' = phase,
             taken < Len(keys) => ~ Takes(opt, keys[taken + 1], taken - first, Epsilon - 1)
      PROVE  FitInv'
  <2>1. PICK s : FittedBy(models, s) /\ s[Len(models) + 1] = first
    BY <1>4 DEF FitInv
  <2>2. CASE aborted' = "no"
    <3>1. PICK t : FittedBy(models', t) /\ t[Len(models') + 1] = taken
      BY <1>1, <1>4, <2>1, <2>2, AppendFitted
    <3>2. FittedBy(models, t)'
      BY <1>2, <1>4, <3>1
    <3> QED
      BY <1>4, <3>1, <3>2 DEF FitInv
  <2>3. CASE aborted' # "no"
    <3>1. models' = models /\ phase' # "serving"
      BY <1>4, <2>3 DEF AppendModel
    <3>2. FittedBy(models, s)'
      BY <1>2, <1>4, <2>1, <3>1
    <3> QED
      BY <2>3, <3>1, <3>2 DEF FitInv
  <2> QED
    BY <2>2, <2>3
<1>5. CASE Create
  <2>1. load' = load /\ models' = models /\ first' = first /\ aborted = "no"
    BY <1>5 DEF Create
  <2> QED
    BY <1>3, <2>1
<1>6. CASE AddKey
  <2>1. load' = load /\ models' = models /\ first' = first /\ aborted = "no"
    BY <1>6 DEF AddKey
  <2> QED
    BY <1>3, <2>1
<1>7. CASE CloseSegment
  <2>1. /\ aborted = "no" /\ phase = "train" /\ AppendModel /\ first' = taken
        /\ load' = load /\ phase' = phase /\ taken < Len(keys)
        /\ ~ Takes(opt, keys[taken + 1], taken - first, Epsilon - 1)
    BY <1>7 DEF CloseSegment
  <2>2. first \in Int /\ taken \in Int /\ first <= taken
    BY <1>1, LoadFacts DEF Counted
  <2>3. first # taken
    BY <1>1, <2>1, <2>2, KeyTaken
  <2>4. first < taken
    BY <2>2, <2>3
  <2> QED
    BY <1>4, <2>1, <2>4
<1>8. CASE FinishTraining
  <2>1. /\ aborted = "no" /\ phase = "train" /\ AppendModel /\ first' = taken
        /\ load' = load /\ phase' = phase /\ first < taken /\ taken = Len(keys)
    BY <1>8 DEF FinishTraining
  <2>2. ~ (taken < Len(keys))
    BY <1>1, <2>1, LoadFacts DEF Counted
  <2> QED
    BY <1>4, <2>1, <2>2
<1>9. CASE StartDaemon
  <2>1. load' = load /\ models' = models /\ first' = first /\ aborted = "no"
    BY <1>9 DEF StartDaemon
  <2> QED
    BY <1>3, <2>1
<1>10. ASSUME NEW k \in Loads[load].puts, PutKey(k) PROVE FitInv'
  <2>1. SameBases(models, models') /\ phase = "serving"
    BY <1>1, <1>10, PutKeyStep
  <2>2. load' = load /\ first' = first
    BY <1>10 DEF PutKey
  <2>3. PICK s : FittedBy(models, s) /\ s[Len(models) + 1] = first
    BY <2>1 DEF FitInv
  <2>4. ModelsOK(models, leaves, used)
    BY <1>1 DEF NodeInv
  <2>5. FittedBy(models', s) /\ Len(models') = Len(models)
    BY <2>1, <2>3, <2>4, FittedKept
  <2>6. FittedBy(models, s)'
    BY <1>2, <2>2, <2>5
  <2> QED
    BY <2>2, <2>3, <2>5, <2>6 DEF FitInv
<1>11. ASSUME load' = load, models' = models, first' = first, aborted' = aborted, phase' = phase
       PROVE  FitInv'
  BY <1>3, <1>11
<1>12. CASE Node
  BY <1>5, <1>6, <1>7, <1>8, <1>9, <1>10, <1>12 DEF Node, StartNext
<1>13. CASE \E n \in Nodes : Connect(n) \/ NicRead(n)
  BY <1>11, <1>13 DEF Connect, NicRead, nodeVars
<1>14. ASSUME NEW a \in Actors, NEW call, Begin(a, call[1], call[2]) PROVE FitInv'
  BY <1>11, <1>14 DEF Begin, nodeVars
<1>15. ASSUME NEW a \in Actors,
             \/ SearchLeaf(a) \/ InsertLeaf(a) \/ WriteBack(a) \/ FetchAdd(a)
             \/ Resume(a) \/ NotDone(a)
       PROVE  FitInv'
  <2>1. /\ load' = load /\ models' = models /\ first' = first
        /\ aborted' = aborted /\ phase' = phase
    BY <1>15 DEF SearchLeaf, InsertLeaf, WriteBack, FetchAdd, Resume, NotDone, nodeVars
  <2> QED
    BY <1>11, <2>1
<1>16. CASE UNCHANGED vars
  BY <1>11, <1>16 DEF vars, nodeVars
<1> QED
  BY <1>12, <1>13, <1>14, <1>15, <1>16 DEF CacheNext

\* start of SegmentsOptimal: where the segment of each submodel begins
Begins(ms) ==
  CHOOSE f : f = [j \in 1 .. Len(ms) + 1 |->
                    IF j = 1 THEN 0 ELSE f[j - 1] + ms[j - 1].capacity]

LEMMA BeginsFacts ==
  ASSUME NEW ms, IsSeq(ms), \A j \in 1 .. Len(ms) : ms[j].capacity \in Nat,
         NEW s, FittedBy(ms, s)
  PROVE  \A j \in 1 .. Len(ms) + 1 : Begins(ms)[j] = s[j]
<1> DEFINE L == Len(ms)
           B(f) == [j \in 1 .. L + 1 |-> IF j = 1 THEN 0 ELSE f[j - 1] + ms[j - 1].capacity]
           g == [j \in 1 .. L + 1 |-> s[j]]
           h == Begins(ms)
<1>1. L \in Nat
  BY SeqFacts
<1>2. /\ s[1] = 0 /\ \A j \in 1 .. L : s[j + 1] = s[j] + ms[j].capacity
  BY DEF FittedBy
<1> HIDE DEF L
<1>3. ASSUME NEW j \in 1 .. L + 1, j # 1
      PROVE  j - 1 \in 1 .. L /\ j - 1 \in 1 .. L + 1 /\ (j - 1) + 1 = j
  BY <1>1, <1>3
<1>4. g = B(g)
  <2>1. ASSUME NEW j \in 1 .. L + 1
        PROVE  s[j] = IF j = 1 THEN 0 ELSE g[j - 1] + ms[j - 1].capacity
    <3>1. CASE j = 1
      BY <1>2, <3>1
    <3>2. CASE j # 1
      <4> DEFINE i == j - 1
      <4>1. i \in 1 .. L /\ i \in 1 .. L + 1 /\ i + 1 = j
        BY <1>3, <3>2
      <4> HIDE DEF i
      <4>2. s[i + 1] = s[i] + ms[i].capacity /\ g[i] = s[i]
        BY <1>2, <4>1
      <4>3. s[j] = g[i] + ms[i].capacity
        BY <4>1, <4>2
      <4> QED
        BY <3>2, <4>3 DEF i
    <3> QED
      BY <3>1, <3>2
  <2> HIDE DEF g
  <2>2. [j \in 1 .. L + 1 |-> s[j]] = B(g)
    BY <2>1
  <2> QED
    BY <2>2 DEF g
<1>5. h = B(h)
  BY <1>4 DEF Begins, L
<1> HIDE DEF h
<1>6. \A j \in 1 .. L + 1 : h[j] = IF j = 1 THEN 0 ELSE h[j - 1] + ms[j - 1].capacity
  BY <1>5
<1> HIDE DEF B, g
<1> DEFINE Bad == {j \in 1 .. L + 1 : h[j] # s[j]}
<1>7. ASSUME Bad # {}
      PROVE  FALSE
  <2>1. Bad \subseteq Nat
    BY <1>1
  <2> HIDE DEF Bad
  <2>2. PICK b \in Bad : \A c \in Bad : b <= c
    BY <1>7, <2>1, LeastNumber
  <2>3. b \in 1 .. L + 1 /\ h[b] # s[b] /\ b \in Int
    BY <1>1, <2>2 DEF Bad
  <2>4. b # 1
    BY <1>1, <1>2, <1>6, <2>3
  <2> DEFINE c == b - 1
  <2>5. c \in 1 .. L /\ c \in 1 .. L + 1 /\ c + 1 = b
    BY <1>3, <2>3, <2>4
  <2>6. ~ (b <= c)
    BY <2>3
  <2>7. h[b] = h[c] + ms[c].capacity
    BY <1>6, <2>3, <2>4
  <2> HIDE DEF c
  <2>8. c \notin Bad
    BY <2>2, <2>6
  <2>9. h[c] = s[c]
    BY <2>5, <2>8 DEF Bad
  <2>10. s[b] = s[c] + ms[c].capacity
    BY <1>2, <2>5
  <2> QED
    BY <2>3, <2>7, <2>9, <2>10
<1> QED
  BY <1>7 DEF h, L

LEMMA OptimalOfFitted ==
  ASSUME CacheInv, FitInv
  PROVE  SegmentsOptimal
<1> DEFINE L == Len(models)
           E == Epsilon - 1
           b == Begins(models)
           points(s, e) == [i \in 1 .. e - s |-> <<keys[s + i], i - 1>>]
<1>1. NodeInv /\ Counted /\ SegmentInv /\ ModelsOK(models, leaves, used)
  BY DEF CacheInv, NodeInv
<1>2. IsSeq(models) /\ DOMAIN models = 1 .. L /\ L \in Nat
  BY <1>1, SeqFacts DEF ModelsOK
<1>3. \A j \in 1 .. L : models[j].capacity \in Nat
  <2> SUFFICES ASSUME NEW j \in 1 .. L PROVE models[j].capacity \in Nat
    OBVIOUS
  <2>1. IsModel(models[j], Fetched(used))
    BY <1>1, <1>2 DEF ModelsOK
  <2> QED
    BY <2>1, ModelFacts
<1>4. PICK s : FittedBy(models, s)
  BY DEF FitInv
<1>5. \A j \in 1 .. L + 1 : b[j] = s[j]
  BY <1>2, <1>3, <1>4, BeginsFacts
<1>6. Fits(Segm(first, taken), E)
  BY <1>1, SegmentFacts
<1>7. \A x, e : points(x, e) = Segm(x, e)
  BY DEF Segm
<1> HIDE DEF L, E, b, points
<1>8. ASSUME NEW j \in DOMAIN models
      PROVE  /\ Fits(points(b[j], b[j + 1]), E)
             /\ b[j + 1] < Len(keys) => ~ Fits(points(b[j], b[j + 1] + 1), E)
  <2>1. j \in 1 .. L /\ j \in 1 .. L + 1 /\ j + 1 \in 1 .. L + 1
    BY <1>2
  <2>2. b[j] = s[j] /\ b[j + 1] = s[j + 1]
    BY <1>5, <2>1
  <2>3. /\ Fits(Segm(s[j], s[j + 1]), E)
        /\ s[j + 1] < Len(keys) => ~ Fits(Segm(s[j], s[j + 1] + 1), E)
    BY <1>4, <2>1 DEF FittedBy, L, E
  <2> QED
    BY <1>7, <2>2, <2>3
<1>9. Fits(points(first, taken), E)
  BY <1>6, <1>7
<1> QED
  BY <1>8, <1>9 DEF SegmentsOptimal, Begins, L, E, b, points

\* The segments that training cuts the keys into are as long as they can be: each
\* has a line within the error bound of all its keys, and has none with the next
\* key added (plr.hpp: add_point keeps the two hulls and the four corners;
\* rolex.hpp: train).
THEOREM CacheSegments ==
  ASSUME N % 2 = 0
  PROVE  CacheSpec => []SegmentsOptimal
<1>1. CacheInit => FitInv
  <2> SUFFICES ASSUME CacheInit PROVE FitInv
    OBVIOUS
  <2> DEFINE s == [j \in 1 .. 1 |-> 0]
  <2>1. models = <<>> /\ first = 0
    BY DEF CacheInit, Init
  <2>2. Len(models) = 0 /\ s[1] = 0 /\ s[Len(models) + 1] = first
    BY <2>1
  <2> HIDE DEF s
  <2>3. FittedBy(models, s)
    BY <2>2 DEF FittedBy
  <2> QED
    BY <2>2, <2>3 DEF FitInv
<1>2. CacheInv /\ FitInv /\ [CacheNext]_vars => FitInv'
  BY FitStep
<1>3. CacheInv /\ FitInv => SegmentsOptimal
  BY OptimalOfFitted
<1>4. CacheSpec => []CacheInv
  BY CacheInvariant
<1> QED
  BY <1>1, <1>2, <1>3, <1>4, PTL DEF CacheSpec
=============================================================================
