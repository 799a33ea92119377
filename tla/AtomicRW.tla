------------------------------ MODULE AtomicRW ------------------------------
(***************************************************************************)
(* xcomm/atomic_rw: an object between two sequence numbers (WrappedType),  *)
(* one writer that changes it in place and readers that copy it word by    *)
(* word until the two numbers agree (AtomicRW::atomic_read). The object is *)
(* an array o: o[0] is seq, o[1] .. o[W] the payload, o[W + 1] seq_check.  *)
(* Stores are seen in program order (x86); write number w puts w into      *)
(* every word of the payload.                                              *)
(***************************************************************************)
EXTENDS Integers, Sequences

CONSTANTS Readers,
          W,            \* words of the payload
          SeqMod,       \* how many values a sequence number has: 2^32
          Orders,       \* the orders that read operations copy the words in
          MaxWrites,    \* bound on the writes
          MaxRetry      \* the limit of the ASSERT on retry_cnt

kInvalidSeq == 0
Words == 0 .. W + 1

ASSUME AtomicRWAssumption ==
  /\ W \in Nat \ {0} /\ SeqMod \in Nat /\ SeqMod > 1
  /\ MaxWrites \in Nat /\ MaxRetry \in Nat \ {0}
  /\ \A order \in Orders :
       /\ order \in [1 .. W + 2 -> Words]
       /\ \A i, j \in DOMAIN order : order[i] = order[j] => i = j

VARIABLES o,           \* the object
          wpc,         \* the writer: "idle", "begun", "write", "done"
          ret,         \* what begin_write returned to it
          left,        \* the words it has still to write
          begun, done, \* the writes that were begun, and that are done
          inited,      \* whether init() was called on the object
          rpc,         \* every reader: "idle", "read", "copy", "got", "failed"
          order,       \* the order of its read operation
          at,          \* how many words it has copied
          copy,        \* dest
          retry_cnt,
          since        \* history: `done` at its call, and when it read again

writer == <<wpc, ret, left, begun, done>>
reader == <<rpc, order, at, copy, retry_cnt, since>>
vars == <<o, writer, inited, reader>>

Blank == [i \in Words |-> kInvalidSeq]
NoRead == [call |-> 0, read |-> 0]

\* WrappedType(p) and reset() call init(); the default constructor sets seq and
\* leaves seq_check with whatever is there.
Init ==
  /\ inited \in BOOLEAN
  /\ \E check \in 0 .. SeqMod - 1 :
       /\ inited => check = kInvalidSeq + 1
       /\ o = [i \in Words |-> IF i = 0 THEN kInvalidSeq + 1
                               ELSE IF i = W + 1 THEN check ELSE 0]
  /\ wpc = "idle" /\ ret = 0 /\ left = {}
  /\ begun = 0 /\ done = 0
  /\ rpc = [r \in Readers |-> "idle"]
  /\ order \in [Readers -> Orders]
  /\ at = [r \in Readers |-> 0]
  /\ copy = [r \in Readers |-> Blank]
  /\ retry_cnt = [r \in Readers |-> 0]
  /\ since = [r \in Readers |-> NoRead]
-----------------------------------------------------------------------------
\* faulty: seq_check left alone while the payload is written
BeginWriteHalf ==
  /\ wpc = "idle" /\ begun < MaxWrites
  /\ ret' = o[W + 1]
  /\ wpc' = "begun"
  /\ begun' = begun + 1
  /\ UNCHANGED <<o, left, done, inited, reader>>

\* begin_write: seq_check is remembered and made invalid,
BeginWrite ==
  /\ wpc = "idle" /\ begun < MaxWrites
  /\ ret' = o[W + 1]
  /\ o' = [o EXCEPT ![W + 1] = kInvalidSeq]
  /\ wpc' = "begun"
  /\ begun' = begun + 1
  /\ UNCHANGED <<left, done, inited, reader>>

\* then seq.
InvalidateSeq ==
  /\ wpc = "begun"
  /\ o' = [o EXCEPT ![0] = kInvalidSeq]
  /\ wpc' = "write"
  /\ left' = 1 .. W
  /\ UNCHANGED <<ret, begun, done, inited, reader>>

\* The writer changes the payload, in any order.
WriteWord ==
  /\ wpc = "write"
  /\ \E i \in left :
       o' = [o EXCEPT ![i] = begun] /\ left' = left \ {i}
  /\ UNCHANGED <<wpc, ret, begun, done, inited, reader>>

\* done_write: seq is one more than it was,
DoneWrite ==
  /\ wpc = "write" /\ left = {}
  /\ o' = [o EXCEPT ![0] = (ret + 1) % SeqMod]
  /\ wpc' = "done"
  /\ UNCHANGED <<ret, left, begun, done, inited, reader>>

\* faulty: seq_check set to the argument of done_write
SetCheckOld ==
  /\ wpc = "done"
  /\ o' = [o EXCEPT ![W + 1] = ret]
  /\ wpc' = "idle" /\ ret' = 0
  /\ done' = done + 1
  /\ UNCHANGED <<left, begun, inited, reader>>

\* then seq_check the same.
SetCheck ==
  /\ wpc = "done"
  /\ o' = [o EXCEPT ![W + 1] = o[0]]
  /\ wpc' = "idle" /\ ret' = 0
  /\ done' = done + 1
  /\ UNCHANGED <<left, begun, inited, reader>>
-----------------------------------------------------------------------------
Call(r) ==
  /\ rpc[r] = "idle"
  /\ rpc' = [rpc EXCEPT ![r] = "read"]
  /\ since' = [since EXCEPT ![r].call = done]
  /\ UNCHANGED <<o, writer, inited, order, at, copy, retry_cnt>>

\* retry: the counter is reset, and the operation reads all over again. The return
\* of an error of the operation is left out: the local ones have none when the sizes
\* of source and destination agree, as they do in the test.
Read(r) ==
  /\ rpc[r] = "read"
  /\ retry_cnt' = [retry_cnt EXCEPT ![r] = 0]
  /\ rpc' = [rpc EXCEPT ![r] = "copy"]
  /\ at' = [at EXCEPT ![r] = 0]
  /\ copy' = [copy EXCEPT ![r] = Blank]
  /\ since' = [since EXCEPT ![r].read = done]
  /\ UNCHANGED <<o, writer, inited, order>>

\* One word of the copy: OrderedRWOp goes upwards with a fence after each word,
\* memcpy and the NIC as they like.
CopyWord(r) ==
  /\ rpc[r] = "copy" /\ at[r] < W + 2
  /\ LET i == order[r][at[r] + 1]
     IN  copy' = [copy EXCEPT ![r][i] = o[i]]
  /\ at' = [at EXCEPT ![r] = @ + 1]
  /\ UNCHANGED <<o, writer, inited, rpc, order, retry_cnt, since>>

consistent(c) == c[0] = c[W + 1] /\ c[0] # kInvalidSeq

\* The check of the copy: it is returned, or it is read again, or the ASSERT on
\* the number of retries stops the reader.
Check(r) ==
  /\ rpc[r] = "copy" /\ at[r] = W + 2
  /\ IF consistent(copy[r])
       THEN rpc' = [rpc EXCEPT ![r] = "got"] /\ UNCHANGED retry_cnt
       ELSE /\ retry_cnt' = [retry_cnt EXCEPT ![r] = @ + 1]
            /\ rpc' = [rpc EXCEPT ![r] =
                         IF retry_cnt[r] + 1 > MaxRetry THEN "failed" ELSE "read"]
  /\ UNCHANGED <<o, writer, inited, order, at, copy, since>>

Return(r) ==
  /\ rpc[r] = "got"
  /\ rpc' = [rpc EXCEPT ![r] = "idle"]
  /\ copy' = [copy EXCEPT ![r] = Blank]
  /\ at' = [at EXCEPT ![r] = 0]
  /\ since' = [since EXCEPT ![r] = NoRead]
  /\ UNCHANGED <<o, writer, inited, order, retry_cnt>>

WriterStep == InvalidateSeq \/ WriteWord \/ DoneWrite \/ SetCheck
ReaderStep(r) == Read(r) \/ CopyWord(r) \/ Check(r) \/ Return(r)

Next ==
  \/ BeginWrite \/ WriterStep
  \/ \E r \in Readers : Call(r) \/ ReaderStep(r)

\* The threads keep running; nobody has to begin a write or a read.
Spec ==
  /\ Init /\ [][Next]_vars
  /\ WF_vars(WriterStep)
  /\ \A r \in Readers : WF_vars(ReaderStep(r))
-----------------------------------------------------------------------------
\* An operation that copies one of the sequence numbers first and the other last
Bracketed(r) == {order[r][1], order[r][W + 2]} = {0, W + 1}

\* atomic_read: what it returns was the payload at some moment of the call, if the
\* operation copies one sequence number first and the other last, fewer writes than
\* a sequence number has values went on meanwhile, and the object was initialised or
\* written before.
ReadsAtomic ==
  \A r \in Readers :
    /\ rpc[r] = "got" /\ Bracketed(r)
    /\ begun - since[r].read < SeqMod
    /\ inited \/ since[r].read > 0
    => \E w \in since[r].call .. begun : \A i \in 1 .. W : copy[r][i] = w

\* The loop of atomic_read ends, and not in its ASSERT, once the writer leaves the
\* object alone with a valid sequence number.
ReadsReturn ==
  \A r \in Readers :
    <>[](wpc = "idle" /\ done > 0 /\ o[0] # kInvalidSeq)
      => (rpc[r] = "read" ~> rpc[r] = "got")
=============================================================================
