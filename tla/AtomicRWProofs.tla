---------------------------- MODULE AtomicRWProofs ----------------------------
(***************************************************************************)
(* What atomic_read returns was the payload at some moment of the call: the*)
(* theorem ReadIsAtomic, for objects, sequence numbers, orders and writes  *)
(* of any size and number.                                                 *)
(*                                                                         *)
(* Write number n leaves the sequence number (base + n) % SeqMod behind,   *)
(* where base is what seq_check was at the start. An atomic_read that saw  *)
(* a valid number before the payload and one after it has its copy between *)
(* the two writes they stand for; fewer than SeqMod writes apart, equal    *)
(* numbers are the same write.                                             *)
(***************************************************************************)
EXTENDS AtomicRW, FiniteSetTheorems, TLAPS

\* The sequence number of an object after its n-th write
Number(base, n) == (base + n) % SeqMod

Types ==
  /\ o \in [Words -> Nat]
  /\ wpc \in {"idle", "begun", "write", "done"}
  /\ ret \in Nat /\ left \subseteq 1 .. W
  /\ begun \in Nat /\ done \in Nat
  /\ inited \in BOOLEAN
  /\ rpc \in [Readers -> {"idle", "read", "copy", "got", "failed"}]
  /\ order \in [Readers -> Orders]
  /\ at \in [Readers -> 0 .. W + 2]
  /\ copy \in [Readers -> [Words -> Nat]]
  /\ since \in [Readers -> [call : Nat, read : Nat]]

\* Whether the object had both its numbers from a write or from init()
Whole(n) == inited \/ n > 0

\* What begin_write and done_write leave in the object: the number of the last
\* write, or an invalid one while the payload is neither the old nor the new.
Written(base) ==
  /\ begun = IF wpc = "idle" THEN done ELSE done + 1
  /\ wpc # "idle" => ret = Number(base, done) /\ o[W + 1] = kInvalidSeq
  /\ wpc = "idle" => o[W + 1] = Number(base, done)
  /\ wpc \in {"idle", "begun"} /\ Whole(done) => o[0] = Number(base, done)
  /\ wpc = "write" => o[0] = kInvalidSeq
  /\ wpc = "done" => o[0] = Number(base, begun)
  /\ \A i \in 1 .. W :
       o[i] = IF wpc \in {"idle", "begun"} \/ (wpc = "write" /\ i \in left)
                THEN done ELSE begun

First(r) == copy[r][order[r][1]]
Last(r) == copy[r][order[r][W + 2]]

\* The words of the payload that the operation has copied
Copied(r) == {i \in 1 .. W : \E j \in 1 .. at[r] : order[r][j] = i}

\* The number copied first stands for a write that no word of the payload is from
\* before, and none of the copied words is ahead of the object.
Opened(base, r) ==
  \E n \in since[r].read .. begun :
    /\ First(r) = Number(base, n)
    /\ \A i \in 1 .. W : n <= o[i]
    /\ \A i \in Copied(r) : n <= copy[r][i] /\ copy[r][i] <= o[i]

\* The number copied last stands for a write that no copied word is ahead of.
Closed(base, r) ==
  \E m, n \in since[r].read .. begun :
    /\ m <= n
    /\ First(r) = Number(base, m) /\ Last(r) = Number(base, n)
    /\ \A i \in 1 .. W : m <= copy[r][i] /\ copy[r][i] <= n

Reading(base, r) ==
  /\ rpc[r] # "idle" => since[r].call <= done
  /\ rpc[r] \in {"copy", "got"} =>
       /\ since[r].call <= since[r].read /\ since[r].read <= done
       /\ Bracketed(r) /\ Whole(since[r].read) =>
            /\ at[r] \in 1 .. W + 1 /\ First(r) # kInvalidSeq => Opened(base, r)
            /\ at[r] = W + 2 /\ First(r) # kInvalidSeq /\ Last(r) # kInvalidSeq
                 => Closed(base, r)
  /\ rpc[r] = "got" => at[r] = W + 2 /\ consistent(copy[r])

RWInv ==
  /\ Types
  /\ \E base \in 0 .. SeqMod - 1 : Written(base) /\ \A r \in Readers : Reading(base, r)
-----------------------------------------------------------------------------
\* The remainder that sequence numbers wrap around with, in terms of a quotient.
LEMMA Division ==
  ASSUME NEW m \in Nat \ {0}, NEW a \in Nat
  PROVE  /\ a \div m \in Nat /\ a % m \in 0 .. m - 1
         /\ a = m * (a \div m) + (a % m)
BY SMT

\* A number that is written as a multiple of SeqMod and a rest has that rest.
LEMMA Remainder ==
  ASSUME NEW m \in Nat \ {0}, NEW q \in Int, NEW r \in 0 .. m - 1
  PROVE  (m * q + r) % m = r
BY SMT

\* Two multiples of SeqMod are at least SeqMod apart.
LEMMA Multiples ==
  ASSUME NEW m \in Nat \ {0}, NEW p \in Int, NEW q \in Int, p < q
  PROVE  m * p + m <= m * q
<1>1. m * (q - p) >= m
  BY SMT
<1> QED
  BY <1>1

\* done_write: the number after the next write is the successor of this one's.
LEMMA NumberNext ==
  ASSUME NEW base \in Nat, NEW n \in Nat
  PROVE  /\ Number(base, n) \in 0 .. SeqMod - 1
         /\ (Number(base, n) + 1) % SeqMod = Number(base, n + 1)
<1> DEFINE a == base + n
           q == a \div SeqMod
           r == a % SeqMod
<1>1. SeqMod \in Nat \ {0} /\ SeqMod > 1
  BY AtomicRWAssumption
<1>2. q \in Nat /\ r \in 0 .. SeqMod - 1 /\ a = SeqMod * q + r
  <2>1. a \in Nat
    OBVIOUS
  <2> HIDE DEF a
  <2> QED
    BY <1>1, <2>1, Division
<1>3. Number(base, n) = r /\ Number(base, n + 1) = (a + 1) % SeqMod
  BY DEF Number
<1>4. a \in Nat
  OBVIOUS
<1> HIDE DEF a, q, r
<1>5. CASE r + 1 \in 0 .. SeqMod - 1
  <2>1. a + 1 = SeqMod * q + (r + 1)
    BY <1>1, <1>2
  <2>2. (a + 1) % SeqMod = r + 1
    BY <1>1, <1>2, <1>5, <2>1, Remainder
  <2>3. (r + 1) % SeqMod = r + 1
    BY <1>1, <1>5
  <2> QED
    BY <1>2, <1>3, <2>2, <2>3
<1>6. CASE r + 1 = SeqMod
  <2>1. a + 1 = SeqMod * (q + 1) + 0 /\ r + 1 = SeqMod * 1 + 0
    BY <1>1, <1>2, <1>6
  <2>2. (SeqMod * (q + 1) + 0) % SeqMod = 0 /\ (SeqMod * 1 + 0) % SeqMod = 0
    BY <1>1, <1>2, Remainder
  <2> QED
    BY <1>2, <1>3, <2>1, <2>2
<1> QED
  BY <1>1, <1>2, <1>5, <1>6

\* Fewer than SeqMod writes apart, equal sequence numbers are those of one write.
LEMMA SameNumber ==
  ASSUME NEW base \in Nat, NEW m \in Nat, NEW n \in Nat,
         m <= n, n - m < SeqMod, Number(base, m) = Number(base, n)
  PROVE  m = n
<1> DEFINE p == (base + m) \div SeqMod
           q == (base + n) \div SeqMod
           r == (base + n) % SeqMod
<1>1. SeqMod \in Nat \ {0}
  BY AtomicRWAssumption
<1>2. p \in Nat /\ q \in Nat /\ r \in 0 .. SeqMod - 1
      /\ base + m = SeqMod * p + r /\ base + n = SeqMod * q + r
  <2>1. ASSUME NEW a \in Nat
        PROVE  a \div SeqMod \in Nat /\ a % SeqMod \in 0 .. SeqMod - 1
               /\ a = SeqMod * (a \div SeqMod) + (a % SeqMod)
    BY <1>1, Division
  <2>2. base + m \in Nat /\ base + n \in Nat /\ (base + m) % SeqMod = r
    BY DEF Number
  <2> QED
    BY <2>1, <2>2
<1> HIDE DEF p, q, r
<1>3. ~ (p < q)
  <2>1. ASSUME p < q PROVE SeqMod * p + SeqMod <= SeqMod * q
    BY <1>1, <1>2, <2>1, Multiples
  <2> QED
    BY <1>1, <1>2, <2>1
<1>4. ~ (q < p)
  <2>1. ASSUME q < p PROVE SeqMod * q + SeqMod <= SeqMod * p
    BY <1>1, <1>2, <2>1, Multiples
  <2> QED
    BY <1>1, <1>2, <2>1
<1> QED
  BY <1>1, <1>2, <1>3, <1>4

\* A read operation copies every word of the object.
LEMMA OrderCovers ==
  ASSUME NEW f \in Orders
  PROVE  /\ f \in [1 .. W + 2 -> Words]
         /\ \A i, j \in 1 .. W + 2 : f[i] = f[j] => i = j
         /\ \A w \in Words : \E j \in 1 .. W + 2 : f[j] = w
<1>1. /\ f \in [1 .. W + 2 -> Words]
      /\ \A i, j \in 1 .. W + 2 : f[i] = f[j] => i = j
  BY AtomicRWAssumption
<1>2. W + 2 \in Int /\ W + 1 \in Int /\ W \in Nat
  BY AtomicRWAssumption
<1>3. f \in Injection(1 .. W + 2, Words)
  BY <1>1 DEF Injection, IsInjective
<1>4. IsFiniteSet(Words) /\ Cardinality(Words) = W + 2
      /\ IsFiniteSet(1 .. W + 2) /\ Cardinality(1 .. W + 2) = W + 2
  BY <1>2, FS_Interval DEF Words
<1>5. f \in Surjection(1 .. W + 2, Words)
  BY <1>3, <1>4, FS_Injection
<1> QED
  BY <1>1, <1>5 DEF Surjection
-----------------------------------------------------------------------------
\* The places of the two sequence numbers and of the payload
LEMMA WordsLemma ==
  /\ W \in Nat \ {0} /\ 0 \in Words /\ W + 1 \in Words /\ 0 # W + 1
  /\ \A i \in 1 .. W : i \in Words /\ i # 0 /\ i # W + 1
  /\ \A i \in Words : i \in 1 .. W \/ i = 0 \/ i = W + 1
  /\ kInvalidSeq \in Nat
BY AtomicRWAssumption DEF Words, kInvalidSeq

\* An object that was just made has the sequence number of no write.
LEMMA InitRW == Init => RWInv
<1> SUFFICES ASSUME Init PROVE RWInv
  OBVIOUS
<1>1. PICK check \in 0 .. SeqMod - 1 :
        /\ inited => check = kInvalidSeq + 1
        /\ o = [i \in Words |-> IF i = 0 THEN kInvalidSeq + 1
                                ELSE IF i = W + 1 THEN check ELSE 0]
  BY DEF Init
<1>2. SeqMod \in Nat \ {0} /\ check \in Nat
  BY AtomicRWAssumption
<1>3. o \in [Words -> Nat] /\ o[0] = 1 /\ o[W + 1] = check
      /\ \A i \in 1 .. W : o[i] = 0
  BY <1>1, <1>2, WordsLemma DEF kInvalidSeq
<1>4. Types
  <2>1. copy \in [Readers -> [Words -> Nat]]
    BY WordsLemma DEF Init, Blank, kInvalidSeq
  <2>2. since \in [Readers -> [call : Nat, read : Nat]]
    BY DEF Init, NoRead
  <2>3. at \in [Readers -> 0 .. W + 2]
    BY AtomicRWAssumption DEF Init
  <2> QED
    BY <1>3, <2>1, <2>2, <2>3 DEF Init, Types
<1>5. Written(check)
  <2>1. Number(check, 0) = check
    <3>1. check % SeqMod = check /\ check + 0 = check
      BY <1>2
    <3> QED
      BY <3>1 DEF Number
  <2>2. Whole(0) => check = 1
    BY <1>1 DEF Whole, kInvalidSeq
  <2> QED
    BY <1>3, <2>1, <2>2 DEF Init, Written
<1>6. ASSUME NEW r \in Readers PROVE Reading(check, r)
  BY DEF Init, Reading
<1> QED
  BY <1>4, <1>5, <1>6 DEF RWInv

\* Every step of the writer and of a reader keeps the types.
LEMMA NextTypes == Types /\ [Next]_vars => Types'
<1> SUFFICES ASSUME Types, [Next]_vars PROVE Types'
  OBVIOUS
<1>1. /\ o \in [Words -> Nat] /\ ret \in Nat /\ left \subseteq 1 .. W
      /\ begun \in Nat /\ done \in Nat
      /\ rpc \in [Readers -> {"idle", "read", "copy", "got", "failed"}]
      /\ at \in [Readers -> 0 .. W + 2]
      /\ copy \in [Readers -> [Words -> Nat]]
      /\ since \in [Readers -> [call : Nat, read : Nat]]
  BY DEF Types
<1>2. CASE BeginWrite
  BY <1>1, <1>2, WordsLemma DEF Types, BeginWrite, reader
<1>3. CASE InvalidateSeq
  BY <1>1, <1>3, WordsLemma DEF Types, InvalidateSeq, reader
<1>4. CASE WriteWord
  BY <1>1, <1>4, WordsLemma DEF Types, WriteWord, reader
<1>5. CASE DoneWrite
  <2>1. (ret + 1) % SeqMod \in Nat
    BY <1>1, AtomicRWAssumption, Division
  <2>2. o' \in [Words -> Nat]
    BY <1>1, <1>5, <2>1 DEF DoneWrite
  <2> QED
    BY <1>5, <2>2 DEF Types, DoneWrite, reader
<1>6. CASE SetCheck
  <2>1. o' \in [Words -> Nat]
    BY <1>1, <1>6, WordsLemma DEF SetCheck
  <2> QED
    BY <1>6, <2>1 DEF Types, SetCheck, reader
<1>7. ASSUME NEW r \in Readers, Call(r) PROVE Types'
  <2>1. since' \in [Readers -> [call : Nat, read : Nat]]
    BY <1>1, <1>7 DEF Call
  <2> QED
    BY <1>7, <2>1 DEF Types, Call, writer
<1>8. ASSUME NEW r \in Readers, Read(r) PROVE Types'
  <2>1. since' \in [Readers -> [call : Nat, read : Nat]]
    BY <1>1, <1>8 DEF Read
  <2>2. Blank \in [Words -> Nat] /\ 0 \in 0 .. W + 2
    BY WordsLemma DEF Blank
  <2> QED
    BY <1>8, <2>1, <2>2 DEF Types, Read, writer
<1>9. ASSUME NEW r \in Readers, CopyWord(r) PROVE Types'
  <2>1. order[r] \in [1 .. W + 2 -> Words]
    BY OrderCovers DEF Types
  <2>2. at[r] \in 0 .. W + 2 /\ at[r] < W + 2 /\ W \in Nat
    BY <1>1, <1>9, WordsLemma DEF CopyWord
  <2>3. at[r] + 1 \in 1 .. W + 2 /\ at[r] + 1 \in 0 .. W + 2
    BY <2>2
  <2>4. order[r][at[r] + 1] \in Words
    BY <2>1, <2>3
  <2>5. copy' \in [Readers -> [Words -> Nat]]
    BY <1>1, <1>9, <2>4 DEF CopyWord
  <2> QED
    BY <1>9, <2>3, <2>5 DEF Types, CopyWord, writer
<1>10. ASSUME NEW r \in Readers, Check(r) PROVE Types'
  BY <1>10 DEF Types, Check, writer
<1>11. ASSUME NEW r \in Readers, Return(r) PROVE Types'
  <2>1. Blank \in [Words -> Nat] /\ NoRead \in [call : Nat, read : Nat]
        /\ 0 \in 0 .. W + 2
    BY WordsLemma DEF Blank, NoRead
  <2> QED
    BY <1>11, <2>1 DEF Types, Return, writer
<1>12. CASE UNCHANGED vars
  BY <1>12 DEF Types, vars, writer, reader
<1> QED
  BY <1>2, <1>3, <1>4, <1>5, <1>6, <1>7, <1>8, <1>9, <1>10, <1>11, <1>12
  DEF Next, WriterStep, ReaderStep
-----------------------------------------------------------------------------
\* begin_write and done_write keep the number of the last write in the object, or
\* an invalid one.
LEMMA WrittenKeeps ==
  ASSUME Types, NEW base \in Nat, Written(base), Next
  PROVE  Written(base)'
<1>1. /\ o \in [Words -> Nat] /\ ret \in Nat /\ left \subseteq 1 .. W
      /\ begun \in Nat /\ done \in Nat
  BY DEF Types
<1>2. CASE BeginWrite
  <2>1. /\ wpc = "idle" /\ wpc' = "begun" /\ ret' = o[W + 1]
        /\ begun' = begun + 1 /\ UNCHANGED <<left, done, inited>>
        /\ o'[W + 1] = kInvalidSeq
        /\ \A i \in Words : i # W + 1 => o'[i] = o[i]
    BY <1>1, <1>2, WordsLemma DEF BeginWrite
  <2> QED
    BY <1>1, <2>1, WordsLemma DEF Written, Whole
<1>3. CASE InvalidateSeq
  <2>1. /\ wpc = "begun" /\ wpc' = "write" /\ left' = 1 .. W
        /\ UNCHANGED <<ret, begun, done, inited>>
        /\ o'[0] = kInvalidSeq
        /\ \A i \in Words : i # 0 => o'[i] = o[i]
    BY <1>1, <1>3, WordsLemma DEF InvalidateSeq
  <2> QED
    BY <1>1, <2>1, WordsLemma DEF Written, Whole
<1>4. CASE WriteWord
  <2>1. PICK i \in left : o' = [o EXCEPT ![i] = begun] /\ left' = left \ {i}
    BY <1>4 DEF WriteWord
  <2>2. /\ wpc = "write" /\ UNCHANGED <<wpc, ret, begun, done, inited>>
        /\ o'[i] = begun /\ i \in 1 .. W
        /\ \A j \in Words : i # j => o'[j] = o[j]
    BY <1>1, <1>4, <2>1, WordsLemma DEF WriteWord
  <2> QED
    BY <1>1, <2>1, <2>2, WordsLemma DEF Written, Whole
<1>5. CASE DoneWrite
  <2>1. /\ wpc = "write" /\ left = {} /\ wpc' = "done"
        /\ UNCHANGED <<ret, left, begun, done, inited>>
        /\ o'[0] = (ret + 1) % SeqMod
        /\ \A j \in Words : j # 0 => o'[j] = o[j]
    BY <1>1, <1>5, WordsLemma DEF DoneWrite
  <2>2. begun = done + 1 /\ ret = Number(base, done)
    BY <2>1 DEF Written
  <2>3. o'[0] = Number(base, begun)
    BY <1>1, <2>1, <2>2, NumberNext
  <2> QED
    BY <1>1, <2>1, <2>2, <2>3, WordsLemma DEF Written, Whole
<1>6. CASE SetCheck
  <2>1. /\ wpc = "done" /\ wpc' = "idle" /\ done' = done + 1
        /\ UNCHANGED <<left, begun, inited>>
        /\ o'[W + 1] = o[0]
        /\ \A j \in Words : j # W + 1 => o'[j] = o[j]
    BY <1>1, <1>6, WordsLemma DEF SetCheck
  <2> QED
    BY <1>1, <2>1, WordsLemma DEF Written, Whole
<1>7. CASE \E r \in Readers : Call(r) \/ ReaderStep(r)
  <2>1. UNCHANGED <<o, writer, inited>>
    BY <1>7 DEF Call, ReaderStep, Read, CopyWord, Check, Return
  <2> QED
    BY <2>1 DEF Written, Whole, writer
<1> QED
  BY <1>2, <1>3, <1>4, <1>5, <1>6, <1>7 DEF Next, WriterStep

\* The writer goes forward: no word of the payload, and neither count, gets smaller.
LEMMA PayloadGrows ==
  ASSUME Types, NEW base \in Nat, Written(base), BeginWrite \/ WriterStep
  PROVE  /\ UNCHANGED <<inited, reader>>
         /\ done <= done' /\ begun <= begun'
         /\ \A i \in 1 .. W : o[i] <= o'[i]
<1>1. /\ o \in [Words -> Nat] /\ left \subseteq 1 .. W
      /\ begun \in Nat /\ done \in Nat
  BY DEF Types
<1>2. CASE WriteWord
  <2>1. PICK i \in left : o' = [o EXCEPT ![i] = begun]
    BY <1>2 DEF WriteWord
  <2>2. o[i] = done /\ begun = done + 1 /\ o'[i] = begun
        /\ \A j \in Words : i # j => o'[j] = o[j]
    BY <1>1, <1>2, <2>1, WordsLemma DEF WriteWord, Written
  <2> QED
    BY <1>1, <1>2, <2>2, WordsLemma DEF WriteWord
<1>3. CASE BeginWrite \/ InvalidateSeq \/ DoneWrite \/ SetCheck
  <2>1. \A i \in 1 .. W : o'[i] = o[i]
    BY <1>1, <1>3, WordsLemma DEF BeginWrite, InvalidateSeq, DoneWrite, SetCheck
  <2> QED
    BY <1>1, <1>3, <2>1, WordsLemma
    DEF BeginWrite, InvalidateSeq, DoneWrite, SetCheck
<1> QED
  BY <1>2, <1>3 DEF WriterStep

\* Whoever sees a valid sequence number sees the object between two writes, or the
\* new payload already.
LEMMA NumberShows ==
  ASSUME Types, NEW base \in Nat, Written(base), Whole(done),
         NEW i \in {0, W + 1}, o[i] # kInvalidSeq
  PROVE  \E n \in done .. begun : /\ o[i] = Number(base, n)
                                  /\ \A k \in 1 .. W : o[k] = n
<1>1. begun \in Nat /\ done \in Nat
  BY DEF Types
<1>2. CASE wpc = "idle"
  BY <1>1, <1>2 DEF Written
<1>3. CASE wpc = "begun" /\ i = 0
  BY <1>1, <1>3 DEF Written
<1>4. CASE wpc = "done" /\ i = 0
  BY <1>1, <1>4 DEF Written
<1>5. wpc = "idle" \/ (wpc \in {"begun", "done"} /\ i = 0)
  BY DEF Types, Written
<1> QED
  BY <1>2, <1>3, <1>4, <1>5
-----------------------------------------------------------------------------
\* What the writer does while an operation copies leaves what it saw in order.
LEMMA WriterKeepsReading ==
  ASSUME Types, NEW base \in Nat, Written(base), BeginWrite \/ WriterStep, Types',
         NEW r \in Readers, Reading(base, r)
  PROVE  Reading(base, r)'
<1>1. /\ o \in [Words -> Nat] /\ o' \in [Words -> Nat]
      /\ begun \in Nat /\ done \in Nat /\ begun' \in Nat /\ done' \in Nat
      /\ since[r].call \in Nat /\ since[r].read \in Nat
      /\ copy[r] \in [Words -> Nat]
  BY DEF Types
<1>2. /\ UNCHANGED <<inited, rpc, order, at, copy, since>>
      /\ done <= done' /\ begun <= begun'
      /\ \A i \in 1 .. W : o[i] <= o'[i]
  BY PayloadGrows DEF reader
<1>3. Copied(r)' = Copied(r) /\ First(r)' = First(r) /\ Last(r)' = Last(r)
      /\ Copied(r) \subseteq 1 .. W
  BY <1>2 DEF Copied, First, Last
<1>4. ASSUME Opened(base, r) PROVE Opened(base, r)'
  <2>1. PICK n \in since[r].read .. begun :
          /\ First(r) = Number(base, n)
          /\ \A i \in 1 .. W : n <= o[i]
          /\ \A i \in Copied(r) : n <= copy[r][i] /\ copy[r][i] <= o[i]
    BY <1>4 DEF Opened
  <2>2. n \in since'[r].read .. begun'
    BY <1>1, <1>2, <2>1
  <2>3. \A i \in 1 .. W : n <= o'[i]
    BY <1>1, <1>2, <2>1, WordsLemma
  <2>4. \A i \in Copied(r) : n <= copy'[r][i] /\ copy'[r][i] <= o'[i]
    BY <1>1, <1>2, <1>3, <2>1, WordsLemma
  <2> QED
    BY <1>3, <2>1, <2>2, <2>3, <2>4 DEF Opened, Number
<1>5. ASSUME Closed(base, r) PROVE Closed(base, r)'
  <2>1. since[r].read .. begun \subseteq since'[r].read .. begun'
    BY <1>1, <1>2
  <2> QED
    BY <1>2, <1>3, <1>5, <2>1 DEF Closed, Number
<1>6. rpc[r] # "idle" => since'[r].call <= done'
  BY <1>1, <1>2 DEF Reading
<1>7. rpc[r] \in {"copy", "got"} =>
        since'[r].call <= since'[r].read /\ since'[r].read <= done'
  BY <1>1, <1>2 DEF Reading
<1>8. Bracketed(r)' = Bracketed(r) /\ Whole(since[r].read)' = Whole(since[r].read)
  BY <1>2 DEF Bracketed, Whole
<1> QED
  BY <1>2, <1>3, <1>4, <1>5, <1>6, <1>7, <1>8 DEF Reading

\* A reader works on a copy of its own.
LEMMA OthersKeepReading ==
  ASSUME Types, NEW base \in Nat, NEW q \in Readers, Call(q) \/ ReaderStep(q),
         NEW r \in Readers \ {q}, Reading(base, r)
  PROVE  Reading(base, r)'
<1>1. /\ UNCHANGED <<o, begun, done, inited>>
      /\ rpc'[r] = rpc[r] /\ order'[r] = order[r] /\ at'[r] = at[r]
      /\ copy'[r] = copy[r] /\ since'[r] = since[r]
  BY DEF Types, Call, ReaderStep, Read, CopyWord, Check, Return, writer
<1>2. Copied(r)' = Copied(r) /\ First(r)' = First(r) /\ Last(r)' = Last(r)
      /\ Bracketed(r)' = Bracketed(r)
  BY <1>1 DEF Copied, First, Last, Bracketed
<1>3. Opened(base, r)' = Opened(base, r) /\ Closed(base, r)' = Closed(base, r)
  BY <1>1, <1>2 DEF Opened, Closed, Number
<1> QED
  BY <1>1, <1>2, <1>3 DEF Reading, Whole

\* A call and the start of an operation: nothing is copied yet.
LEMMA StartKeepsReading ==
  ASSUME Types, NEW base \in Nat, Written(base),
         NEW r \in Readers, Reading(base, r), Call(r) \/ Read(r) \/ Return(r)
  PROVE  Reading(base, r)'
<1>1. /\ done \in Nat /\ since[r].call \in Nat /\ since[r].read \in Nat
      /\ since \in [Readers -> [call : Nat, read : Nat]]
      /\ at \in [Readers -> 0 .. W + 2]
      /\ rpc \in [Readers -> {"idle", "read", "copy", "got", "failed"}]
  BY DEF Types
<1>2. CASE Call(r)
  <2>1. rpc'[r] = "read" /\ since'[r].call = done /\ done' = done
    BY <1>1, <1>2 DEF Call, writer
  <2> QED
    BY <1>1, <2>1 DEF Reading
<1>3. CASE Read(r)
  <2>1. /\ rpc[r] = "read" /\ rpc'[r] = "copy" /\ at'[r] = 0 /\ done' = done
        /\ since'[r].call = since[r].call /\ since'[r].read = done
    BY <1>1, <1>3 DEF Read, writer
  <2>2. since[r].call <= done
    BY <2>1 DEF Reading
  <2>3. at'[r] \notin 1 .. W + 1 /\ at'[r] # W + 2
    BY <2>1, WordsLemma
  <2> QED
    BY <1>1, <2>1, <2>2, <2>3 DEF Reading
<1>4. CASE Return(r)
  <2>1. rpc'[r] = "idle"
    BY <1>1, <1>4 DEF Return
  <2> QED
    BY <2>1 DEF Reading
<1> QED
  BY <1>2, <1>3, <1>4

\* The check returns a copy with equal and valid sequence numbers only.
LEMMA CheckKeepsReading ==
  ASSUME Types, NEW base \in Nat,
         NEW r \in Readers, Reading(base, r), Check(r)
  PROVE  Reading(base, r)'
<1>1. /\ UNCHANGED <<o, begun, done, inited, order, at, copy, since>>
      /\ rpc[r] = "copy" /\ at[r] = W + 2
      /\ \/ rpc'[r] = "got" /\ consistent(copy[r])
         \/ rpc'[r] \in {"failed", "read"}
  BY DEF Types, Check, writer
<1>2. Copied(r)' = Copied(r) /\ First(r)' = First(r) /\ Last(r)' = Last(r)
      /\ Bracketed(r)' = Bracketed(r) /\ consistent(copy[r])' = consistent(copy[r])
  BY <1>1 DEF Copied, First, Last, Bracketed, consistent
<1>3. Opened(base, r)' = Opened(base, r) /\ Closed(base, r)' = Closed(base, r)
  BY <1>1, <1>2 DEF Opened, Closed, Number
<1> QED
  BY <1>1, <1>2, <1>3 DEF Reading, Whole
\* A word that is copied: the first sequence number, a word of the payload, or the
\* last sequence number, which by then comes after every word of the payload.
LEMMA CopyKeepsReading ==
  ASSUME Types, NEW base \in Nat, Written(base),
         NEW r \in Readers, Reading(base, r), CopyWord(r)
  PROVE  Reading(base, r)'
<1> DEFINE i == order[r][at[r] + 1]
           e == order[r][1]
           f == order[r][W + 2]
<1>1. /\ o \in [Words -> Nat] /\ copy[r] \in [Words -> Nat]
      /\ begun \in Nat /\ done \in Nat /\ at[r] \in 0 .. W + 2
      /\ since[r].call \in Nat /\ since[r].read \in Nat
  BY DEF Types
<1>2. /\ order[r] \in [1 .. W + 2 -> Words]
      /\ \A j, k \in 1 .. W + 2 : order[r][j] = order[r][k] => j = k
      /\ \A w \in Words : \E j \in 1 .. W + 2 : order[r][j] = w
  BY OrderCovers DEF Types
<1>3. /\ UNCHANGED <<o, begun, done, inited, rpc, order, since>>
      /\ rpc[r] = "copy" /\ at[r] < W + 2 /\ at'[r] = at[r] + 1
      /\ copy'[r] = [copy[r] EXCEPT ![i] = o[i]]
  BY <1>1 DEF Types, CopyWord, writer
<1>4. at[r] + 1 \in 1 .. W + 2 /\ 1 \in 1 .. W + 2 /\ W + 2 \in 1 .. W + 2
  BY <1>1, <1>3, WordsLemma
<1>5. i \in Words /\ e \in Words /\ f \in Words
  BY <1>2, <1>4
<1>6. copy'[r][i] = o[i] /\ \A j \in Words : j # i => copy'[r][j] = copy[r][j]
  BY <1>1, <1>3, <1>5
<1>7. First(r) = copy[r][e] /\ First(r)' = copy'[r][e] /\ Last(r)' = copy'[r][f]
  BY <1>3 DEF First, Last
<1>8. at[r] = 0 <=> i = e
  <2>1. i = e <=> at[r] + 1 = 1
    BY <1>2, <1>4
  <2> QED
    BY ONLY <1>1, <2>1, WordsLemma
<1>9. at[r] = W + 1 <=> i = f
  <2>1. i = f <=> at[r] + 1 = W + 2
    BY <1>2, <1>4
  <2> QED
    BY ONLY <1>1, <2>1, WordsLemma
<1>10. since[r].call <= since[r].read /\ since[r].read <= done
  BY <1>3 DEF Reading
<1> HIDE DEF i, e, f
<1>11. SUFFICES ASSUME Bracketed(r), Whole(since[r].read), First(r)' # kInvalidSeq
                PROVE  /\ at'[r] \in 1 .. W + 1 => Opened(base, r)'
                       /\ at'[r] = W + 2 /\ Last(r)' # kInvalidSeq => Closed(base, r)'
  <2>1. Bracketed(r)' = Bracketed(r) /\ Whole(since[r].read)' = Whole(since[r].read)
    BY <1>3 DEF Bracketed, Whole
  <2> QED
    BY <1>3, <1>10, <1>11, <2>1 DEF Reading
<1>12. {e, f} = {0, W + 1} /\ e # f
  BY <1>11, WordsLemma DEF Bracketed, e, f
<1>13. Whole(done)
  BY <1>1, <1>10, <1>11 DEF Whole
<1>14. Copied(r)' = {k \in 1 .. W : k \in Copied(r) \/ k = i}
  <2>1. ASSUME NEW k \in 1 .. W
        PROVE  (\E j \in 1 .. at'[r] : order[r][j] = k)
                 <=> (\E j \in 1 .. at[r] : order[r][j] = k) \/ k = i
    BY <1>1, <1>3 DEF i
  <2> QED
    BY <1>3, <2>1 DEF Copied
<1>15. CASE at[r] = 0
  <2>1. i = e /\ o[e] # kInvalidSeq /\ at'[r] = 1
    BY <1>3, <1>6, <1>7, <1>8, <1>11, <1>15
  <2>2. PICK n \in done .. begun : o[e] = Number(base, n) /\ \A k \in 1 .. W : o[k] = n
    BY <1>12, <1>13, <2>1, NumberShows
  <2>3. Copied(r)' = {}
    BY <1>12, <1>14, <1>15, <2>1, WordsLemma DEF Copied
  <2>4. First(r)' = Number(base, n)
    BY <1>6, <1>7, <2>1, <2>2
  <2>5. n \in since'[r].read .. begun' /\ \A k \in 1 .. W : n <= o'[k]
    BY <1>1, <1>3, <1>10, <2>2
  <2>6. Opened(base, r)'
    BY <2>3, <2>4, <2>5 DEF Opened, Number
  <2> QED
    BY <2>1, <2>6, WordsLemma
<1>16. CASE at[r] \in 1 .. W
  <2>1. i # e /\ i # f /\ i \in 1 .. W /\ at'[r] \in 1 .. W + 1 /\ at[r] \in 1 .. W + 1
    BY <1>1, <1>3, <1>5, <1>8, <1>9, <1>12, <1>16, WordsLemma
  <2>2. First(r)' = First(r)
    BY <1>5, <1>6, <1>7, <2>1
  <2>3. Opened(base, r)
    BY <1>3, <1>11, <2>1, <2>2 DEF Reading
  <2>4. PICK n \in since[r].read .. begun :
          /\ First(r) = Number(base, n)
          /\ \A k \in 1 .. W : n <= o[k]
          /\ \A k \in Copied(r) : n <= copy[r][k] /\ copy[r][k] <= o[k]
    BY <2>3 DEF Opened
  <2>5. ASSUME NEW k \in Copied(r)' PROVE n <= copy'[r][k] /\ copy'[r][k] <= o[k]
    BY <1>1, <1>6, <1>14, <2>1, <2>4, <2>5, WordsLemma
  <2>6. Opened(base, r)'
    BY <1>3, <2>2, <2>4, <2>5 DEF Opened, Number
  <2> QED
    BY <2>1, <2>6, <1>1, WordsLemma
<1>17. CASE at[r] = W + 1
  <2>1. i = f /\ i # e /\ at'[r] = W + 2 /\ at[r] \in 1 .. W + 1
    BY <1>3, <1>9, <1>12, <1>17, WordsLemma
  <2>2. SUFFICES ASSUME Last(r)' # kInvalidSeq PROVE Closed(base, r)'
    BY <2>1, WordsLemma
  <2>3. First(r)' = First(r) /\ Last(r)' = o[f]
    BY <1>5, <1>6, <1>7, <2>1
  <2>4. Opened(base, r)
    BY <1>3, <1>11, <2>1, <2>3 DEF Reading
  <2>5. PICK m \in since[r].read .. begun :
          /\ First(r) = Number(base, m)
          /\ \A k \in 1 .. W : m <= o[k]
          /\ \A k \in Copied(r) : m <= copy[r][k] /\ copy[r][k] <= o[k]
    BY <2>4 DEF Opened
  <2>6. PICK n \in done .. begun : o[f] = Number(base, n) /\ \A k \in 1 .. W : o[k] = n
    BY <1>12, <1>13, <2>2, <2>3, NumberShows
  <2>7. ASSUME NEW k \in 1 .. W PROVE k \in Copied(r)
    <3>1. PICK j \in 1 .. W + 2 : order[r][j] = k
      BY <1>2, WordsLemma
    <3>2. j # W + 2
      BY <1>12, <3>1, WordsLemma DEF f
    <3>3. j \in 1 .. at[r]
      BY <1>17, <3>2, WordsLemma
    <3> QED
      BY <3>1, <3>3 DEF Copied
  <2>8. ASSUME NEW k \in 1 .. W PROVE m <= copy'[r][k] /\ copy'[r][k] <= n
    <3>1. k # i /\ k \in Words
      BY <1>12, <2>1, WordsLemma
    <3>2. copy'[r][k] = copy[r][k]
      BY <1>6, <3>1
    <3> QED
      BY <2>5, <2>6, <2>7, <3>2
  <2>9. m <= n
    <3>1. 1 \in 1 .. W
      BY WordsLemma
    <3> QED
      BY <2>5, <2>6, <3>1
  <2>10. m \in since'[r].read .. begun' /\ n \in since'[r].read .. begun'
    BY <1>1, <1>3, <1>10, <2>5, <2>6
  <2> QED
    BY <2>3, <2>5, <2>6, <2>8, <2>9, <2>10 DEF Closed, Number
<1> QED
  BY <1>1, <1>3, <1>15, <1>16, <1>17, WordsLemma

\* Every step of the writer and of the readers keeps the invariant.
LEMMA NextRW == RWInv /\ [Next]_vars => RWInv'
<1> SUFFICES ASSUME RWInv, [Next]_vars PROVE RWInv'
  OBVIOUS
<1>1. Types /\ Types'
  BY NextTypes DEF RWInv
<1>2. PICK base \in 0 .. SeqMod - 1 :
        Written(base) /\ \A r \in Readers : Reading(base, r)
  BY DEF RWInv
<1>3. base \in Nat
  BY <1>2
<1>4. SUFFICES Written(base)' /\ \A r \in Readers : Reading(base, r)'
  BY <1>1, <1>2 DEF RWInv
<1>5. CASE UNCHANGED vars
  BY <1>2, <1>5 DEF vars, writer, reader, Written, Whole, Number, Reading, Bracketed,
     Opened, Closed, First, Last, Copied, consistent
<1>6. CASE Next
  <2>1. Written(base)'
    BY <1>1, <1>2, <1>3, <1>6, WrittenKeeps
  <2>2. ASSUME NEW r \in Readers PROVE Reading(base, r)'
    <3>1. CASE BeginWrite \/ WriterStep
      BY <1>1, <1>2, <1>3, <3>1, WriterKeepsReading
    <3>2. ASSUME NEW q \in Readers, Call(q) \/ ReaderStep(q)
          PROVE  Reading(base, r)'
      <4>1. CASE q # r
        BY <1>1, <1>2, <1>3, <3>2, <4>1, OthersKeepReading
      <4>2. CASE q = r
        BY <1>1, <1>2, <1>3, <3>2, <4>2, StartKeepsReading, CheckKeepsReading,
           CopyKeepsReading DEF ReaderStep
      <4> QED
        BY <4>1, <4>2
    <3> QED
      BY <1>6, <3>1, <3>2 DEF Next
  <2> QED
    BY <2>1, <2>2
<1> QED
  BY <1>5, <1>6

\* What atomic_read returns was the payload at some moment of the call, whatever the
\* size of the object and however many writes and wraps of the sequence number go by.
THEOREM ReadIsAtomic == Spec => []ReadsAtomic
<1>1. RWInv => ReadsAtomic
  <2> SUFFICES ASSUME RWInv, NEW r \in Readers,
                      rpc[r] = "got", Bracketed(r), begun - since[r].read < SeqMod,
                      inited \/ since[r].read > 0
               PROVE  \E w \in since[r].call .. begun : \A i \in 1 .. W : copy[r][i] = w
    BY DEF ReadsAtomic
  <2>1. PICK base \in 0 .. SeqMod - 1 : Reading(base, r)
    BY DEF RWInv
  <2>2. /\ begun \in Nat /\ since[r].call \in Nat /\ since[r].read \in Nat
        /\ copy[r] \in [Words -> Nat] /\ SeqMod \in Nat
    BY AtomicRWAssumption DEF RWInv, Types
  <2>3. since[r].call <= since[r].read /\ at[r] = W + 2 /\ consistent(copy[r])
        /\ Whole(since[r].read)
    BY <2>1 DEF Reading, Whole
  <2>4. First(r) # kInvalidSeq /\ First(r) = Last(r)
    BY <2>3 DEF Bracketed, First, Last, consistent
  <2>5. Closed(base, r)
    BY <2>1, <2>3, <2>4 DEF Reading
  <2>6. PICK m, n \in since[r].read .. begun :
          /\ m <= n
          /\ First(r) = Number(base, m) /\ Last(r) = Number(base, n)
          /\ \A i \in 1 .. W : m <= copy[r][i] /\ copy[r][i] <= n
    BY <2>5 DEF Closed
  <2>7. base \in Nat /\ m \in Nat /\ n \in Nat /\ n - m < SeqMod
    BY <2>1, <2>2, <2>6
  <2>8. m = n
    BY <2>4, <2>6, <2>7, SameNumber
  <2>9. m \in since[r].call .. begun
    BY <2>2, <2>3, <2>6
  <2>10. \A i \in 1 .. W : copy[r][i] = m
    BY <2>2, <2>6, <2>7, <2>8, WordsLemma
  <2> QED
    BY <2>9, <2>10
<1> QED
  BY InitRW, NextRW, <1>1, PTL DEF Spec
=============================================================================
