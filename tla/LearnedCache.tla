---------------------------- MODULE LearnedCache ----------------------------
(***************************************************************************)
(* rolex/learned_cache.hpp with local_connection.hh and local_allocator.hh:*)
(* compute nodes that read the models of a memory node once and then read  *)
(* and write its leaves with one-sided RDMA, beside the server's own puts. *)
(* A node is one thread with one connection and one buffer for leaves; its *)
(* coroutines run in turns: search and insert never yield, the asyn calls  *)
(* yield between posting their read and looking at the buffer. A leaf is   *)
(* read and written in one step.                                           *)
(***************************************************************************)
EXTENDS Training

CONSTANTS Nodes,        \* compute nodes
          Coroutines,   \* coroutines of a node
          CacheVal,     \* the value that compute nodes insert
          LocalWords,   \* total_mem of a node's local allocator
          MaxUsed       \* how far fetch-and-adds may drive the leaf counter

ASSUME CacheAssumption ==
  /\ CacheVal \in Vals
  /\ MaxUsed \in Nat /\ LocalWords \in Nat
  /\ \A n \in DOMAIN Loads : \A c \in Coroutines :
       \A m \in Nodes :
         Loads[n].calls[m][c] \subseteq
           {"search", "insert", "search_asyn", "insert_asyn", "search_syn"} \X Keys

Actors == Nodes \X Coroutines

VARIABLES index,        \* the snapshot of each node, NoIndex before it is read
          down,         \* nodes that an ASSERT stopped
          pc,           \* where each coroutine is
          op,           \* its call: the key, the leaves it may look at, and
                        \* what the properties remember about it
          wire,         \* posted reads of a node, in order
          buf,          \* the first leaf of its leaf buffer
          reply         \* what the last call that returned answered

cacheVars == <<index, down, pc, op, wire, buf, reply>>
vars == <<nodeVars, cacheVars>>

\* No call: the coroutine is idle.
NoCall == [kind |-> "none", key |-> InvalidKey, leaves |-> <<>>, at |-> 0,
           copy |-> NewLeaf, held |-> {}, lone |-> TRUE]

CacheInit ==
  /\ Init
  /\ index = [n \in Nodes |-> NoIndex]
  /\ down = {}
  /\ pc = [a \in Actors |-> "idle"]
  /\ op = [a \in Actors |-> NoCall]
  /\ wire = [n \in Nodes |-> <<>>]
  /\ buf = [n \in Nodes |-> NewLeaf]
  /\ reply = [ok |-> FALSE, val |-> NoVal]

\* What read_remote_index takes from the local allocator: buffers for a length,
\* for the keys and the offsets, and for each model longer than all before it.
Needed(mem) ==
  LET total == mem[0]
      size(i) == mem[mem[UpperWords \div 2 + i - 1]]
      buffer(i) == IF \A j \in 1 .. i - 1 : size(j) < size(i) THEN size(i) ELSE 0
      upto[i \in 0 .. total] == IF i = 0 THEN 0 ELSE upto[i - 1] + buffer(i)
  IN  1 + 2 * total + upto[total]

\* read_remote_index over the model queue pair, once the daemon lets the node in;
\* then alloc_reset_for_leaf puts the leaf buffer where the index was read to.
\* "Local Allocator too small" stops the node.
Connect(n) ==
  /\ phase = "serving" /\ aborted = "no"
  /\ index[n] = NoIndex /\ n \notin down
  /\ Len(models) <= max_upper_num
  /\ IF Needed(region.mem) > LocalWords
       THEN down' = down \cup {n} /\ UNCHANGED index
       ELSE index' = [index EXCEPT ![n] = read_index(region.mem)] /\ UNCHANGED down
  /\ UNCHANGED <<nodeVars, pc, op, wire, buf, reply>>
-----------------------------------------------------------------------------
\* The coroutines of a node share its thread: one of them runs a search or an
\* insert from its call to its return.
Running(a) ==
  /\ a[1] \notin down /\ index[a[1]] # NoIndex /\ aborted = "no"
  /\ \A b \in Actors :
       b[1] = a[1] /\ b # a => pc[b] \in {"idle", "posted", "ready"}

\* get_leaf_addr: the leaves lo .. hi of the snapshot; it does not raise negative
\* bounds to 0 as the operations of the memory node do.
Predicted(n, k) ==
  LET m == index[n].models[model_for_key(index[n].keys, k) + 1]
  IN  [wild |-> Trunc(Above(m, k), m.icd) < 0,
       leaves |-> [i \in 1 .. hi(m, k) - lo(m, k) + 1 |->
                     m.lt.table[lo(m, k) + i - 1].leaf_num]]

\* Entering a call: ASSERT(hi < table.size()) stops the node for a prediction left
\* of the model. held: the leaves of the window that have had the key since.
Enter(a, kind, k, to) ==
  LET p == Predicted(a[1], k)
  IN  IF p.wild
        THEN down' = down \cup {a[1]} /\ UNCHANGED <<pc, op>>
        ELSE /\ pc' = [pc EXCEPT ![a] = to]
             /\ op' = [op EXCEPT ![a] =
                  [kind |-> kind, key |-> k, leaves |-> p.leaves,
                   at |-> Len(p.leaves), copy |-> NewLeaf, lone |-> TRUE,
                   held |-> {i \in DOMAIN p.leaves :
                               contain(leaves[p.leaves[i]], k)}]]
             /\ UNCHANGED down

\* The calls that yield post a read of the window's first leaf.
Posts(kind) == kind \in {"search_asyn", "insert_asyn"}

Begin(a, kind, k) ==
  /\ Running(a) /\ pc[a] = "idle"
  /\ Enter(a, kind, k, IF Posts(kind) THEN "posted" ELSE kind)
  /\ wire' = IF Posts(kind) /\ a[1] \notin down'
               THEN [wire EXCEPT ![a[1]] = Append(@, a)] ELSE wire
  /\ reply' = [ok |-> FALSE, val |-> NoVal]
  /\ UNCHANGED <<nodeVars, index, buf>>

Return(a, ok, val) ==
  /\ pc' = [pc EXCEPT ![a] = "idle"]
  /\ op' = [op EXCEPT ![a] = NoCall]
  /\ reply' = [ok |-> ok, val |-> val]

\* The leaf a call looks at next
Remote(a) == leaves[op[a].leaves[op[a].at]]

NextLeaf(a) ==
  IF op[a].at = 1 THEN Return(a, FALSE, NoVal)
  ELSE op' = [op EXCEPT ![a].at = @ - 1] /\ UNCHANGED <<pc, reply>>

\* faulty: the loop over the leaves ends before the first one
SearchLeafShort(a) ==
  /\ Running(a) /\ pc[a] = "search"
  /\ IF op[a].at > 1 /\ contain(Remote(a), op[a].key)
       THEN Return(a, TRUE, search(Remote(a), op[a].key))
       ELSE NextLeaf(a)
  /\ UNCHANGED <<nodeVars, index, down, wire, buf>>

\* search: the leaves of the window from the last to the first, each read from the
\* memory node.
SearchLeaf(a) ==
  /\ Running(a) /\ pc[a] = "search"
  /\ IF contain(Remote(a), op[a].key)
       THEN Return(a, TRUE, search(Remote(a), op[a].key))
       ELSE NextLeaf(a)
  /\ UNCHANGED <<nodeVars, index, down, wire, buf>>

\* insert: the last leaf of the window that takes the key is changed in the copy.
InsertLeaf(a) ==
  LET k == op[a].key
  IN  /\ Running(a) /\ pc[a] = "insert"
      /\ IF ~ insertHere(Remote(a), k) THEN NextLeaf(a)
         ELSE /\ pc' = [pc EXCEPT ![a] =
                          IF isfull(Remote(a)) THEN "fetch" ELSE "write"]
              /\ op' = [op EXCEPT ![a].copy = Remote(a)]
              /\ UNCHANGED reply
      /\ UNCHANGED <<nodeVars, index, down, wire, buf>>

\* What a change of the leaves leaves of `held`, for every call under way
Witnessed(mem) ==
  [b \in Actors |-> [op[b] EXCEPT !.held =
     {i \in @ : contain(mem[op[b].leaves[i]], op[b].key)}]]

\* faulty: the copy written back to the first leaf of the window
WriteBackFirst(a) ==
  LET l == op[a].leaves[1]
      mem == [leaves EXCEPT ![l] = insert_not_full(op[a].copy, op[a].key, CacheVal)]
  IN  /\ Running(a) /\ pc[a] = "write"
      /\ leaves' = mem
      /\ pc' = [pc EXCEPT ![a] = "idle"]
      /\ op' = [Witnessed(mem) EXCEPT ![a] = NoCall]
      /\ reply' = [ok |-> TRUE, val |-> NoVal]
      /\ UNCHANGED <<load, phase, aborted, taken, first, opt, models, region,
                     used, index, down, wire, buf>>

\* insert, "lock, insert and write the leaf": the whole copy is written back, and
\* there is no lock.
WriteBack(a) ==
  LET l == op[a].leaves[op[a].at]
      mem == [leaves EXCEPT ![l] = insert_not_full(op[a].copy, op[a].key, CacheVal)]
  IN  /\ Running(a) /\ pc[a] = "write"
      /\ leaves' = mem
      /\ pc' = [pc EXCEPT ![a] = "idle"]
      /\ op' = [Witnessed(mem) EXCEPT ![a] = NoCall]
      /\ reply' = [ok |-> TRUE, val |-> NoVal]
      /\ UNCHANGED <<load, phase, aborted, taken, first, opt, models, region,
                     used, index, down, wire, buf>>

\* insert into a full leaf: a leaf number is drawn with a fetch-and-add and
\* dropped ("fixme: read synonym leaf").
FetchAdd(a) ==
  /\ Running(a) /\ pc[a] = "fetch"
  /\ used < MaxUsed
  /\ used' = used + 1
  /\ Return(a, FALSE, NoVal)
  /\ UNCHANGED <<load, phase, aborted, taken, first, opt, models, region, leaves,
                 index, down, wire, buf>>
-----------------------------------------------------------------------------
\* read_leaves_asyn: the reads of a queue pair are done in order, and all of them
\* write the first leaf of their window to the start of the one leaf buffer.
NicRead(n) ==
  LET a == wire[n][1]
  IN  /\ wire[n] # <<>> /\ aborted = "no"
      /\ buf' = [buf EXCEPT ![n] = leaves[op[a].leaves[1]]]
      /\ wire' = [wire EXCEPT ![n] = Tail(@)]
      /\ pc' = [pc EXCEPT ![a] = "ready"]
      /\ op' = [b \in Actors |->
                  IF b[1] = n /\ pc[b] = "ready"
                    THEN [op[b] EXCEPT !.lone = FALSE] ELSE op[b]]
      /\ UNCHANGED <<nodeVars, index, down, reply>>

\* search_asyn goes on: as many leaves of the buffer as the window has, of which
\* the first only was read. The others still hold bytes of the index that was
\* read there, where any word (a model key, an offset, part of a submodel) may
\* pass for the key, with another word as its value.
Resume(a) ==
  LET k == op[a].key
      n == a[1]
      stale == Len(op[a].leaves) > 1
  IN  /\ Running(a) /\ pc[a] = "ready" /\ op[a].kind = "search_asyn"
      /\ IF contain(buf[n], k) THEN Return(a, TRUE, search(buf[n], k))
         ELSE \/ Return(a, FALSE, NoVal)
              \/ stale /\ Return(a, TRUE, NoVal)
      /\ UNCHANGED <<nodeVars, index, down, wire, buf>>

\* insert_asyn looks at the leaves and changes none ("fixme lock"); search_syn
\* does not even read one. Both answer false.
NotDone(a) ==
  /\ Running(a)
  /\ \/ pc[a] = "ready" /\ op[a].kind = "insert_asyn"
     \/ pc[a] = "search_syn"
  /\ Return(a, FALSE, NoVal)
  /\ UNCHANGED <<nodeVars, index, down, wire, buf>>
-----------------------------------------------------------------------------
\* The memory node goes on; a change of its leaves is remembered for the calls.
Node ==
  /\ StartNext \/ \E k \in Loads[load].puts : PutKey(k)
  /\ op' = IF phase = "serving" THEN Witnessed(leaves') ELSE op
  /\ UNCHANGED <<index, down, pc, wire, buf, reply>>

CacheNext ==
  \/ Node
  \/ \E n \in Nodes : Connect(n) \/ NicRead(n)
  \/ \E a \in Actors :
       \/ \E call \in Loads[load].calls[a[1]][a[2]] : Begin(a, call[1], call[2])
       \/ SearchLeaf(a) \/ InsertLeaf(a) \/ WriteBack(a) \/ FetchAdd(a)
       \/ Resume(a) \/ NotDone(a)

CacheSpec == CacheInit /\ [][CacheNext]_vars
-----------------------------------------------------------------------------
TypeOK ==
  /\ phase \in {"create", "train", "serving"}
  /\ aborted \in {"no", "region", "room", "pool"}
  /\ first <= taken /\ taken <= Len(keys)
  /\ phase # "create" => leaves \in [0 .. leaf_num - 1 -> Leaves]
  /\ used \in Nat
  /\ down \subseteq Nodes
  /\ pc \in [Actors -> {"idle", "search", "insert", "write", "fetch", "posted",
                        "ready", "search_syn"}]
  /\ \A a \in Actors :
       /\ op[a].key \in Keys \cup {InvalidKey}
       /\ pc[a] # "idle" => op[a].at \in DOMAIN op[a].leaves
  /\ \A n \in Nodes : buf[n] \in Leaves
  /\ reply.ok \in BOOLEAN /\ reply.val \in Vals \cup {NoVal}

\* read_remote_index against append_model: a node's snapshot has the models the
\* node was trained to, each with the leaves of its table, whatever the server
\* has put since; and it goes through serialize() unchanged.
SnapshotFaithful ==
  \A n \in Nodes : index[n] # NoIndex =>
    /\ index[n].keys = model_keys
    /\ \A j \in DOMAIN models :
         LET m == models[j]
             c == index[n].models[j]
         IN  /\ c.icd = m.icd /\ \A k \in Keys : pos(c, k) = pos(m, k)
             /\ \A k \in Keys : lo(c, k) = lo(m, k) /\ hi(c, k) = hi(m, k)
             /\ DOMAIN c.lt.table = DOMAIN m.lt.table
             /\ \A i \in DOMAIN m.lt.table :
                  c.lt.table[i].leaf_num = m.lt.table[i].leaf_num
             /\ c.lt.next = 1 /\ c.lt.syn = <<>>
    /\ deserialize_index(serialize_index(index[n])) = index[n]

\* search: a key that has been in a leaf of the window during the whole call is
\* found. search_asyn: the same for the window's first leaf, if no other
\* coroutine's leaf came into the buffer meanwhile.
CacheSearchFinds ==
  [][\A a \in Actors :
       op[a].kind \in {"search", "search_asyn"} /\ pc'[a] = "idle" =>
         LET found == reply'.ok /\ reply'.val # NoVal
         IN  IF op[a].kind = "search" THEN op[a].held # {} => found
             ELSE 1 \in op[a].held /\ op[a].lone => found]_vars

\* insert: when nobody wrote the leaf between the read and the write-back, the
\* memory node finds the new key with its value and loses no other key.
CacheInsertKept ==
  [][\A a \in Actors :
       LET k == op[a].key
           l == op[a].leaves[op[a].at]
       IN  pc[a] = "write" /\ pc'[a] = "idle" /\ leaves[l] = op[a].copy =>
             \A j \in Keys :
               Lookup(j)' = IF j = k /\ ~ contain(leaves[l], k)
                              THEN CacheVal ELSE Lookup(j)]_vars
=============================================================================
