# A TLA+ model of ROLEX

ROLEX is a key-value store on disaggregated memory: a memory node holds a
learned index (linear models over sorted leaves) in memory that compute nodes
reach by RPC over RDMA datagrams and, for some operations, by one-sided RDMA.
This directory holds TLA+ modules of its code, the TLC configurations that check
them and TLAPS proofs about them. All paths below are relative to the repository.

    tlc -config MCRolex_index.cfg MCRolex.tla     # one run
    tlapm RolexProofs.tla                         # the proofs of one module

## The system

| Component | State it keeps | Operations |
| --- | --- | --- |
| `LeafAllocator` (rolex/leaf_allocator.hpp), `SpinLock` (xutils/spin_lock.hh) | `[used, total]` at the head of the leaf region; a lock | `fetch_new_leaf`, `get_leaf`; the constructor preallocates |
| `Leaf` (rolex/leaf.hpp) | `keys[N]`, `vals[N]`, sorted, unused slots at the end | search, update, insert_not_full, remove, range |
| `LeafTable` (rolex/leaf_table.hpp) | `table`: one 64-bit entry (lock, synonym link, leaf number) per trained leaf; `SynonymTable[128]`, whose slot 0 counts the slots given out; `csLocks` | search, range, update, insert, remove; train_emplace_back; serialize, deserialize |
| `SubModel` (rolex/submodel.hpp) | slope, intercept, capacity, a LeafTable | predicts the window `lo..hi` of leaves of a key, and calls the table |
| `Rolex` (rolex/rolex.hpp, rolex_util.hh) | the submodels and their last keys | train; search, update, insert, remove, range; serialize, deserialize |
| `PLR` (rolex/plr.hpp) | the rectangle and the two hulls of a segment in the making | add_point, get_segment |
| `ModelAllocator`, `RemoteMemory`, `HugeRegion` | the model region: count, upper keys and offsets, submodels; the leaf region | alloc_upper, alloc_submodel; create the regions |
| `LearnedCache`, `LocalConnection`, `LocalAllocator` | a compute node's copy of the models and leaf tables; one leaf buffer | read_remote_index; one-sided search and insert, also asynchronous |
| RPC (xcomm/src/rpc), transports (xcomm/src/transport) | callbacks, sessions, a `ReplyStation` per thread | request, reply, connect; the event loops |
| Server and client workers (rolex_server.hpp, rolex_client.hpp) | coroutines, the reply buffers | five callbacks; five remote calls |
| atomic_rw (xcomm/src/atomic_rw) | an object between two sequence numbers | begin_write, done_write; atomic_read |
| BatchOp, RTMScope, PBarrier | doorbell lists; fallback lock | |
| Benchmark driver (benchs/Rolex/rolex.cc) | workers on one index | mixes the operations |

A server worker polls its datagram queue and calls the callback of a request;
the callback calls `Rolex`, which picks the submodel by the key, which predicts a
window of leaves and calls its `LeafTable`; an insert that splits a leaf draws a
new one from `LeafAllocator`. All workers share the index, the tables and the
allocator. A compute node reads the models from the model region once, when it
starts; then it reads leaves, writes leaves and increments the leaf counter
directly, beside all locks.

What is hard: the workers are not coordinated above the level of one entry, and
each level uses another lock (a SpinLock for the counter, `csLocks[i]` for
inserts, a bit of the table entry for updates and removes, nothing for
searches). The synonym table, which belongs to no entry, is guarded by none of
them. The chain of a table entry has to stay ordered through splits and removes
while routing looks at the first key of a leaf only. On the wire, datagrams can
be lost or overtake each other. A compute node's models are a snapshot that
nothing refreshes, its writes take no lock, and its coroutines share a buffer.

What makes each component correct:

- LeafAllocator: leaf numbers are handed out once, in order, none skipped.
- Leaf: sorted, no duplicate, nothing lost by an insert, a remove or a split.
- LeafTable: the leaves of a chain are ordered, each leaf is in one place, every
  key is found again by the route that placed it.
- SubModel: the window covers every place where the key may be.
- Rolex: a dictionary; a scan yields each value from the key on once, in order.
- PLR and train: segments as long as the error bound allows, and every trained
  key inside the window that is predicted for it.
- ModelAllocator: what a compute node reads is what the memory node trained.
- RPC: each call gets its own reply and takes effect while it waits, and every
  coroutine gets on.
- LearnedCache: a search finds what stays where it looks; an insert loses nothing
  unless somebody writes the same leaf.
- atomic_rw: a read returns one write's payload, and returns.

## Modules

| Module | Models | Checked by |
| --- | --- | --- |
| LeafAllocator | leaf_allocator.hpp, spin_lock.hh and the fetch-and-add of learned_cache.hpp, one step per access | MCLeafAllocator, LeafAllocatorProofs |
| LeafDispenser | what fetch_new_leaf promises: an atomic draw | refined by LeafAllocator |
| Leaf | leaf.hpp, as operators on a leaf | through Rolex, SubModelProofs |
| LeafTable | leaf_table.hpp called by one thread at a time, as operators on `[table, syn, next]` and the region | through Rolex, SubModelProofs |
| SubModel | submodel.hpp and rolex_util.hh: prediction, window, filling at training, the search for the model | through Rolex and Training, SubModelProofs |
| Rolex | rolex.hpp on a memory node, one action per operation | MCRolex, RolexProofs |
| KVMap | what the index promises: a dictionary | refined by Rolex |
| PLR | plr.hpp in exact integers, as operators on a segment, and a reference definition (`Fits`) | through Training, PLRProofs |
| ModelRegion | model_allocator.hpp, serialize and deserialize of table, submodel and index, read_index | through Training and LearnedCache, LearnedCacheProofs |
| Training | remote_memory.hh, huge_region.hh, train and append_model, one step per key; then the server's puts | through LearnedCache, LearnedCacheProofs |
| LearnedCache | learned_cache.hpp, local_connection.hh and local_allocator.hh: compute nodes beside the server of Training | MCLearnedCache, LearnedCacheProofs |
| LeafTableConc | leaf_table.hpp with several threads, one step per access to shared memory | MCLeafTableConc, LeafTableConcProofs |
| Rpc | xcomm/src/rpc, the coroutines of rolex_client.hpp, the loop of rolex_server.hpp and the session manager, over datagrams | MCRpc, RpcProofs |
| CallChannel | what a call promises: run at most once, returned after it was run | refined by Rpc |
| AtomicRW | xcomm/src/atomic_rw as test_local_concurrent.cc uses it: one writer, readers that copy word by word | MCAtomicRW, AtomicRWProofs |

Definitions have the names of the code. An operator whose comment begins with
"faulty:" is a variant of the definition below it with a plausible mistake; each
property is shown to notice one of them.

**LeafAllocator.** `pc` walks a thread through `fetch_new_leaf`: the exchange of
`SpinLock::lock` (Acquire, Contend), its inner loop (Spin), the read, the write
and the re-read of `used` with its ASSERT, the unlock, and the ASSERT against
`allocated_num()`. A failed ASSERT aborts the process, so `aborted` stops all
threads. `RemoteFetchAdd` is `LearnedCache::insert`, which ignores the lock.

**Leaf, LeafTable, SubModel, Rolex.** The sequential index. `Insert`, `Update`
and `Remove` of LeafTable are the whole operation from routing to unlock. A
thread that runs an operation alone goes through LeafTableConc's steps, which two
loads of run `conc_index` check against the same expectations. Slope and intercept
are exact fractions; a position left of the model (a negative
double cast to `size_t`, divided by the 64 slots and cast to `int`) counts as leaf
0, which is what the casts give on x86-64 for a power of two within the range of
an `int`. The models of `rolex_index` are given (`Trained`, which TLC checks for each); those
of `cache_start` come out of PLR. `binary_search_branchless` is the loop of the
code with its `bsr`. A scan is modelled without the limit `n`, which only cuts it.
Bytes that stay in `vals` behind an unused key are dropped: they are read for the
key 2^64 - 1 only, which no caller stores.

**PLR, ModelRegion, Training.** A point is a key and its position, a slope a pair of
differences, compared by cross multiplication as in the code, so that the hulls
need no fractions; the two end slopes of a segment give its line as exact
fractions. The code computes that line in long double and predicts in double:
the rounding is left out. `Fits` is the reference: of every three points the middle
one reaches up to the chord of the lower ends and down to the chord of the upper
ones, which is so exactly if one line passes within the bound of all the points
(FitsMeansLine). The region is a
function from words to integers, with the layout of the code: count, keys,
offsets from the middle of the upper part, submodels behind their lengths. All
sizes are in words, so that alloc_upper's limit, the pages and the pool meet their
boundaries at small numbers. Training takes one step per key; `aborted` is the
ASSERT that stopped it ("region", "alloc", "pool", "room").

**LearnedCache.** A compute node has the index it read at Connect, one queue pair
for leaves, one buffer and some coroutines. search and insert keep the thread
until they return (`Running`), each leaf read being a step; search_asyn and
insert_asyn post a read of the window's first leaf and yield. NicRead performs the
reads of a queue pair in order, all into the same buffer; Resume then looks at as
many leaves of the buffer as the window has. Only the first was read; the rest of
the buffer still has bytes of the index (model keys, offsets, submodels), any word of
which may pass for the key, so that a key may be "found" there with some value: a
choice of Resume.
insert_asyn changes nothing and search_syn reads nothing; both return false.
`Needed` is what read_remote_index takes from the local allocator. A node that
fails an ASSERT is in `down`: the local memory is too small, or get_leaf_addr got
a key that is left of its model by more than the error bound, where it does not
raise the bounds to 0 as the memory node's operations do. `held` and `lone` are
history: the leaves of the window that had the key since the call began, and that
no other coroutine's leaf came into the buffer.

**AtomicRW.** The object is the payload between seq and seq_check. The writer's
stores are steps of their own: begin_write's two, the payload in any order,
done_write's two; they are seen in program order, as on x86-64. A reader copies
the words in one of the given orders (`Orders`): upwards as OrderedRWOp does, and
as a memcpy may. `inited` tells whether init() ran: the default constructor leaves
seq_check as it was.

**LeafTableConc.** The header comment of the module lists the steps of each
operation. The loads and stores of the table, of the synonym table, of its counter
and of the two locks are steps of their own, in the order of the source. So are the
slots of a leaf that search reads without a lock (keys[0], each key, then the value)
and those that remove moves (`std::copy` of the keys upwards, then of the values, then
the last key). A scan of a leaf under a lock, and the shift of an array or of half a
leaf by an insert, are one step: in the loads that pass nobody else looks at that leaf
meanwhile; in those of the theorems searches may, but the theorems say nothing of what
such a search answers; and `conc_badleaf` is violated by whole shifts already.
`SynonymTable` is not initialised by the constructor: what a slot holds before it is
written is chosen at the start among `Garbage` (zero, and an entry that points nowhere).
`SynonymTable[0].leaf_num++` is a load and a store. Memory is sequentially consistent,
the bit fields of an entry are stored apart, as the compilers do on x86-64 for fields
that fill bytes, and std::copy stores upwards; these choices leave out behaviours, they
add none, so each violation stands and each passing run holds under them. "crashed"
is an ASSERT, or an access past the table; it stops all threads. `present` is
history: the keys that answers so far say are in the index.

**Rpc.** The client threads of one server worker: thread i of a compute node calls
worker i, and each server worker has an RPCCore of its own, so that with one
compute node there is one client per worker. A thread runs the head of its `chain`, the scheduler's linked
list from `cur_routine_ptr` on; a yield moves the head to the end, a pause and an
exit drop it, `addback_coroutine` appends. Coroutine 0 polls (Poll takes one
datagram, a turn takes any number of them) and yields. A remote call is Call up
to its pause and Resume after it. `Asked` says what each call `<<client,
coroutine, number>>` asks for; its request carries an rpc id, by which the worker
finds the callback in the order of registration, and the callback runs on a
dictionary, which is what the index is (KVMap, refined by Rolex). put and scan
reply with a ReplyValue that was never written (`Uninit`). `net.room` says whether
the index has room for a new key. `up` and `down` are the datagrams on their way,
one sequence per client; `net` says which types of them get lost or are overtaken
in a behaviour, and whether the server's loop may end before the clients'.
Datagrams are not duplicated: a queue pair delivers each one once. `ran` is
history. A request whose session is unknown crashes the server, since
`incoming_sesions[session_id]` makes a null channel and the callback sends through
it.

## Runs

Rolex, LeafTableConc and Training take several loads; `load`, which Init chooses
and no step changes, says which of them a behaviour is under. One run so covers
all.

Passing runs:

- `alloc_threads`: three threads, four leaves, until the pool is empty, under weak
  fairness of each thread inside a call: a thread of the operating system that
  has not exited runs again. No thread is assumed to win the lock; SomeoneServed
  says that somebody gets through. PoolAccounted: no number is skipped, and none
  past the pool is kept by anyone.
- `alloc_rdma_threads`: one compute node increments the counter too. That server
  threads do not share a leaf is all that is left, and it holds.
- `rolex_index`: (1) five trained keys in three leaves of two slots, with three
  synonym slots and two leaves left, inserts and updates, until the pool is out;
  (2) two models with a gap between them, in which the second predicts left of
  its first key, and keys equal to and above a model's last key; (3) removes in
  a table where no key of a synonym leaf has a lower entry in its window; there
  nothing is stranded; (4) lo = hi = 0 as in the repository's test, every
  operation, with two values.
- `conc_index`: (1) two threads with two inserts each on one entry whose leaf is
  full, (2) three threads with one insert each on a chain, with one synonym slot
  left that two of them want; (3) one thread with four calls of any
  operation on a chain, (4) one thread on two entries, so that routing steps back;
  (5) one remover beside one search, on a chain of three leaves, with sought keys that
  no remove moves to another slot. Weak fairness of each thread in a call, as
  above; the calls are bounded, so that the spin lock is contended by finitely
  many, and CallsReturn says nothing of an endless stream of inserts.

- `rpc_calls`: a thread with three coroutines of two calls each, so that a reply
  entry is used again: every kind of call, among them a put and then a remove
  beside a get of the same key, and an update beside a get; over a network in order, one that loses and reorders
  requests and replies while the server may end and the index is full, and one
  where the Connect may be lost or overtaken. CallsTakeEffect: when a coroutine
  goes on, what it asked for happened between its request and its return.
  Fairness: a thread whose current coroutine can go on does so, the server takes
  what arrives, and `running` is cleared at last, as the driver does. Coroutine 0
  polls in each of its turns, and a turn takes all that has arrived: strong
  fairness of Poll, which the turns of the others disable in between. CallsReturn
  and ThreadEnds are about the network in order; SessionKnown is about a Connect
  that arrives first. `MaxCalls` stops a coroutine until the time is over; it adds
  no behaviour.
- `cache_start`: RemoteMemory and training on each of some 970 sets of keys: all
  subsets of up to seven of ten keys that are dense in places and apart in
  others, and three larger sets with two and three models. Leaves have two slots,
  Epsilon is 2, the upper part of the model region has room for two models, and
  the pool and the regions are too small in some starts. SegmentsOptimal compares
  every segment with `Fits`, TrainedInWindow looks every trained key up, and
  SnapshotFaithful compares what two compute nodes read with what was trained,
  also after puts. On four of the sets the nodes search and insert beside the
  server's puts and splits: a search with an insert of another node, two inserts
  into one leaf, keys left of their model, two coroutines on one buffer.
- `atomic_rw`: up to five writes of two words, sequence numbers of three values
  (2^32 in the code), one reader and three orders of copying. Weak fairness of the
  writer, who finishes a write he began, and of the reader.

Runs that end in a violation, with the statement of the code that each of them
contradicts (PROJECT.json, "findings"):

- `alloc_rdma`: the re-read ASSERT of fetch_and_add fails when a compute node
  increments the counter in between.
- `rolex_stranded`: an entry whose own leaf was emptied is passed by, and the
  keys of its synonym leaves are lost to search, update and remove. The comment
  at leaf.hpp:78 asks what happens then. It needs no concurrency: insert, insert,
  remove.
- `conc_slots`: splits of two entries, under two csLocks, take one synonym slot
  twice.
- `rpc_nodes`: thread 0 of two compute nodes. It calls worker 0 with session id 0
  on both, the second Connect is ignored ("assumption: the id is not in the
  incoming_sessions", rdma_ud_t.hh:126), and a reply to one node arrives at the
  other, whose ASSERT fails, or which takes it for its own.
- `conc_badleaf`: an insert and a remove on one leaf, under their different locks,
  leave keys out of order.

What the loads of `conc_index` leave out is left out because it does not hold.
SlotsGivenOnce and LeavesSorted fail as the two runs above show. With a search
beside a split (`OneEntry(<<>>, Full, Crew({"insert"}, {"search"}, {}), ...)`)
NoWildWalk fails, since the slot is linked before it is stored
(leaf_table.hpp:129, 135), and SearchFindsStable, since the search collects the
chain before it reads the leaves (leaf_table.hpp:166-175).

SearchFindsStable also fails with a search beside a remove of a smaller key of the
same leaf (`OneEntry(<<1>>, FullChain, Crew({"remove"}, {"search"}, {}), All({1, 3, 5,
7}), 2)`), which is what load 5 leaves out. In a leaf with the keys 1 and 3, a search
for 3 reads keys[0] = 1; a remove of 1 moves 3 to slot 0 (leaf.hpp:128) and invalidates
slot 1 (130); the search reads slot 1 and answers that 3 is not there. Or the remove has
moved the key and not yet the value, and the search takes the value of 1 for that of 3.
Leaf::search (leaf.hpp:47-56) has no lock and nothing to notice the move by.

With inserts into two
entries and one synonym slot left SplitsLinked fails: the split that loses the
slot between the tests of leaf_table.hpp:360 and 122 moves half of a leaf to a
leaf without a link. Two updates can hold the lock bit of one entry
(leaf_table.hpp:294, 296).

Likewise for `rpc_calls`. With a datagram lost, CallsReturn and ThreadEnds fail:
nothing times out, and if the call that does not return is the one of the
coroutine with the highest id, R2_STOP is never reached and the thread is never
joined. With the Connect lost or overtaken the server crashes. CallsReturn says
"or stopped" since that coroutine stops the scheduler whoever still waits. In a
full index a put has no effect, and its client cannot know: the callback drops
what insert returned, and replies with an uninitialised ReplyValue
(rolex_server.hpp:140; so does scan, 202). CallsTakeEffect is about a put with
`net.room`.

And for `cache_start`:

- CacheSearchFinds asks for a key that stays in one leaf of the window during the
  call. A key that a split moves to a synonym leaf is not found, since the
  snapshot has no synonym leaves. search_asyn reads the window's first leaf only,
  and another coroutine's read may replace it before it is looked at; the property
  asks for a key of the first leaf and for no such read. Without that it fails,
  and a key that equals a word of the index may be found where no leaf has it.
- CacheInsertKept asks that nobody wrote the leaf between the read of it and the
  write-back. Without that condition it fails: learned_cache.hpp:131 has no lock,
  and the later write-back drops the other's key, the server's among them. An
  insert into a full leaf draws a leaf number, drops it and returns false.
- A node connects in the model only if the index has at most max_upper_num models:
  alloc_upper (model_allocator.hpp:48) gives out one more, whose key is written
  over the first offset of the second half, and a node would read a key for an
  offset.
- The size test of LeafAllocator's constructor leaves out one of the two words at
  the head of the region, but its `<` makes up for it: Allocated holds whenever the
  test passes. A region of leaf_num * S bytes that is a multiple of a huge page
  fails the test.

For `atomic_rw` each condition of ReadsAtomic is needed. A copy that takes both
sequence numbers before the payload (`<<3, 0, 1, 2>>`, which a memcpy that loads
both ends of its range first does) returns half of one write and half of another.
So does a first write to an object that was default-constructed, when the number
it stores equals the one that seq_check happens to hold, and a read that lasts
over as many writes as there are numbers. ReadsReturn asks for a valid sequence
number: when the count wraps to kInvalidSeq, the object cannot be read until it is
written again. retry_cnt is set to 0 behind the label that retries jump to
(atomic_rw/mod.hh:30), so that the ASSERT at 46 never fires.

Bounds, and why they are enough. A leaf of two slots is full after two inserts
and its half is one slot, so the boundary of every loop over a leaf is met. Three
synonym slots make the table full within a run, with chains of up to four leaves:
a split at the front, in the middle and at the end of a chain, and an insert into
each of them afterwards. Two threads suffice for every violation found; three are
used where the property holds. `calls` bounds the calls of a thread, `Pool` the
leaves, `InvalidKey` the keys (the largest key value, 2^64 - 1 in the code).
`Total` bounds the counter: after it the memory node has stopped. In
`cache_start`, with Epsilon 2 the cone of a segment is one position to each side,
and seven points in five widths of gaps rebuild both hulls and close a segment at
every length from four on; `MaxUsed` bounds the fetch-and-adds of compute nodes,
and ModelWords, UpperWords, LocalWords and the pool are each met by one start at
least. Three sequence numbers are the fewest with one that is invalid and two
writes that differ; five writes go round. Deadlock is not checked: threads stop
when their calls are used up or an ASSERT stopped the process.

## Proofs

TLC checks small instances; the theorems below hold for every value of the
constants that meets the ASSUMEs of the modules. Each proof module is named after the
module it is about; SubModelProofs has also the lemmas about Leaf and LeafTable,
and LearnedCacheProofs those about ModelRegion and Training.

**LeafAllocatorProofs**, for every set of threads and every pool:

- `TypeCorrect` and `LockExcludes`, from `LockInv` = TypeOK, LockHeld (the lock is
  1 while a thread is inside) and MutualExclusion, for any compute nodes.
  MutualExclusion is not inductive by itself: Acquire needs that a free lock means
  nobody inside, which is LockHeld.
- `NoLeafTwice`, `CounterExact` (PoolAccounted and RereadHolds), `CounterMonotone`, from `CounterInv` = LockInv,
  HolderKnows (the number read is still the counter at the write, and one below it
  until the unlock) and the books of who has which leaf. The assumption is
  `Clients = {}`: with a compute node on the counter they are false, as run
  `alloc_rdma` shows.
- `ThreadsNeverShare`: that two server threads do not get one leaf is true beside
  any compute nodes: their fetch-and-add only ever raises the counter, so that what
  a thread writes is above every leaf a thread has (`AboveThreads`).
- `ImplementsDispenser`: a step to the write is a stutter of LeafDispenser, the
  write is its Draw, a later step a stutter again; assumption `Clients = {}`.

**The sequential index**: SubModelProofs and RolexProofs, for every load, number of
models, pool, size of the synonym table and even number of slots.

SubModelProofs has the lemmas: what the operators of Leaf do to a sorted leaf and to
its keys; what a chain is after a synonym leaf was linked in (synonym_emplace_back)
or out (synonym_table_remove). Chains, searches and scans are recursive functions, and
an induction over them would need a theorem with an operator parameter; the lemmas
argue by a least counterexample instead (`LeastNumber`), and show from the same
principle that a function given by recursion exists. `ModelForKey` says that
binary_search_branchless finds the first model whose last key is not below the key, for
any number of models; its invariant is that the answer stays in the half that is left.
`WindowLemma`: the window is in the table; `WindowOrder`: a larger key's window
begins no earlier; `TrainedWindow`: a trained key's window has its leaf.

RolexProofs has three invariants, each on top of the one before:

- `IndexInv`, whose main part is `Consistent`: every leaf is sorted; every table is
  Sound (links lead to slots in use, without cycle); each leaf named by a table was
  fetched (Fetched), is in one place (PlacedOnce) and a leaf with keys is in a place
  (Placed); the keys of a chain rise from leaf to leaf (InOrder). ChainsSorted is not
  inductive without Fetched and PlacedOnce: a split writes to a leaf that no chain may
  have already, and an insert into one chain must not change a leaf of another.
  `IndexTypes`, `LeavesKeepOrder` and `LeavesInOnePlace` follow. All assume `N % 2 =
  0`: with an odd number of slots the split leaves the last key of a leaf behind the
  gap it makes (`HalvesLemma`; trait.hpp:16 has N = 64, leaf.hpp takes any N).
- `Routed`: every key is in the entry that the route leads to now (`Owner`), wherever
  that entry's first key moved since it was put there. It holds unless a remove
  empties the leaf of an entry before its synonym leaves. `NoneHidden` says that none
  is in this state within a window; run `rolex_stranded` violates NoKeyStranded in
  exactly such a state, so that `FoundUnlessHidden` and `MapUnlessHidden` show it to
  be the only way to lose a key: as long as NoneHidden holds, a search finds every key,
  and the index implements the dictionary KVMap step by step. Under loads that
  remove nothing (`NoRemoves`) NoneHidden is not needed: `EveryKeyIsFound`,
  `ImplementsMap`. `RefusedForAReason` needs neither.
- Range scans. `Lists(c, s, T)` says that s has the values of the keys of T, each
  once and in the order of the keys; there is one such s only. A leaf lists its keys
  from k on (`LeafLists`), a chain joins its leaves' lists (`ChainLists`), a table its
  chains' from the route of k on (`RangeLists`), and the index its models'
  (`ScanLists`), where `ListsSummed` says that lists of sets which rise from
  one to the next join to the list of their union. That they rise is InOrder within a
  chain, and between entries and models Routed (`EntryOrder`, `ModelOrder`): a key
  that lay in an earlier entry than a smaller one would be routed elsewhere. That
  the scan skips nothing before the entry it starts at is `NothingBefore`.
  `ScansUnlessHidden` and, under NoRemoves, `ScansAreComplete` state RangeComplete.

**PLRProofs**, for all increasing keys and every bound; there is no state machine in
PLR, so the invariant is one of a segment after n keys.

- `SegmentOf` has, for n > 1, a `Half` for each hull (the same statement with up and
  down swapped): the hull has points of the segment only; its extreme line goes from
  the hull's first vertex to an opposite point and passes within the bound of all
  points (`Meets`); and whichever next point the two lines leave room for, the
  vertices from the start on hide all other points from it (`Covers`). The code may
  therefore drop what lies before `upper_start` and what `cross` pops, and may stop
  its search for the extreme slope at the first vertex that is not better.
  `add_pointLemma`: add_point keeps it.
- `LineLemma`: the line of get_slope_intercept, which lies between the two extreme
  lines through their intersection, is right for each key of the segment, with
  slope * key cut to an integer as predict does.
- `TakesOptimally`: add_point takes a key exactly if there is a line within the bound
  of all the points with the new one. `FitsMeansLine`: so does the reference `Fits`,
  which knows no hull.

**LearnedCacheProofs**, for any keys, number of models, sizes of the regions, nodes,
coroutines and puts; all assume `N % 2 = 0`, as above.

- `CacheInvariant` states the inductive invariant `CacheInv`. NodeInv: the segment in
  the making is PLR's (SegmentInv), the submodels' keys are those that were taken and
  are found through the windows they predict, in leaves of the pool (ModelsOK), and the
  model region has count, keys, offsets and submodels where the writes of alloc_upper and
  alloc_submodel put them (Laid; `SnapshotWords`: read_index returns them, whatever
  was written after). IndexInv: a node's index is the Snapshot of the
  models, which puts do not change since they write to the leaves, the synonym
  tables and the links only. CallsInv: a call's window is that of its key in the model
  that model_for_key finds, what it has in the buffer or as its copy is a
  leaf that could be there, and `held` are leaves that have the key still. WireInv:
  each posted read waits once, at its own node. The memory node's index is not shown
  to be Consistent here: the write-back of a leaf that was read before a split brings
  the keys back that the split moved, and the invariant says only what such writes
  cannot break.
- `CacheTypeCorrect` (TypeOK), `CacheSnapshots` (SnapshotFaithful), `CacheSearches`
  (CacheSearchFinds) and `CacheInserts` (CacheInsertKept) follow; the last two are
  action properties.
- `TrainingServed` (TrainedInWindow) needs `KeysInv` too: every key that train took is
  in a submodel. With LineLemma for the windows, `Covered` keeps each trained key in
  the chain of its entry through puts and write-backs, and Lookup finds it there.
- `CacheSegments` (SegmentsOptimal), from `FitInv`: there is a division of the keys
  in which each model's keys fit and do not with the next key, by TakesOptimally and
  FitsMeansLine.

**RpcProofs**, for every number of workers, coroutines and calls, and for every network
(what it may lose and let overtake each other):

- The invariant is `RpcInv`: types; the scheduler's lists (each coroutine at most
  once, coroutine 0 last); a Ledger of each call, which relates the phase of a
  coroutine, its reply entry, the datagrams on their way and the calls that
  were run; what is in `up` and `down` (a call's request at most once, and its
  reply only after it); the sessions. From it `RpcTypes`, `ReplyIsOwn`,
  `NoReplyStrays`, `HeaderLeavesLast`; with ConnectFirst `SessionIsKnown`, with
  EffectInv `EffectOnReturn`.
- `ImplementsChannel`: the server's callback is CallChannel's Run, Resume its
  Return; sends, polls, losses and the scheduler stutter.
- All assume `OneNode`: the clients of one server worker have different session
  ids, as the threads of one compute node do. Run `rpc_nodes` has two nodes, and
  there OwnReply is violated.

**AtomicRWProofs**: `ReadIsAtomic`, for every width of the payload, any readers,
orders of copying, and number of writes. `RWInv` numbers the writes: number n leaves
the sequence number base + n modulo SeqMod, the words still to be written have the
payload of the write before, and the words a reader has copied lie between the
write that its first number belongs to and the writes begun since. Fewer than
SeqMod writes apart, equal numbers mean the same write, and then nothing between
them. The conditions of ReadsAtomic are those that run `atomic_rw` needs.

**LeafTableConcProofs** has two parts. `OneInsertPerEntry`, for every load and any
threads with any operations: of the inserts into one entry one at most is between the lock
and the unlock of csLocks. `LockInv` ties each step to the operation it
belongs to, keeps the entry inside the predicted window (and so in the table,
`StartedWindow`), and has the lock taken while an insert is inside. Searches,
updates and removes do not take it.

The other theorems are about one entry (`OneEntryLoad`: any number of threads that
insert into it and search it, any table `Started` allows, any region and any
synonym table), in the steps of LeafTableConc: `OneEntryMatches` (IndexMatches),
`OneEntrySorted` (LeavesSorted), `OneEntrySlots` (SlotsGivenOnce),
`OneEntryLinked` (SplitsLinked), `OneEntryTypes` (TypeOK), `OneEntryAnswers`
(AloneAnswers), and, if nobody inserts beside a thread that searches
(`SearchesApart`; inserts only, or searches only, or one thread that does both),
`OneEntrySearches` (SearchFindsStable) and `OneEntryWalks` (NoWildWalk). None of these is inductive, since most of the time
an insert is under way. `InsertInv` says that there are a number n of leaves, an
order c of them, keys K and values V (`Memory`) which a sequential table would have
(`Order`, `Leaves`: sorted leaves, each below the next, the unused ones empty), and
which the shared memory shows but for what the insert in the section has done so
far: a leaf drawn and not yet linked, a link that leads to a slot not yet written, a
shift under way (`Shows`, `InsertAt`). n and c change where the slot is written
(Fill), K and V at Move and at the first store of a shift (ShiftKeys), which is
also where `Holds` counts the key in, and everything else maps to the same (n, c, K,
V). That one insert at most is in the section is OneInsertPerEntry, and that
nobody else writes is what OneEntryLoad is for: SynonymTable[0] and its slots
belong to all entries and csLocks[i] to one, which run `conc_slots` shows to be too
little, and a remove does not take csLocks at all (`conc_badleaf`). Two more
hypotheses: `N % 2 = 0`, since with an odd number of slots a split leaves the last
key behind a gap, and, for OneEntryWalks, as many leaves as synonym slots (`Pool >=
SynonymMax - 1`; else fetch_new_leaf ends in an ASSERT, in the middle of an insert).
IndexMatches, SlotsGivenOnce and SplitsLinked speak of `Links`, a recursive function:
`LeafNumsLemma` shows, for a chain that c describes, what it evaluates to.

The answers need more than InsertInv: `ServedInv` follows a call of a thread that
nobody inserts beside (`Undisturbed`) from its begin to its answer. The local `there`
stays what the index says. An insert that passed the first test of the synonym table
finds `next` below the limit until it looks (so that `Look` refuses a key only if it
is there), and carries that the key is new to its last store (`InsertServed`); a
search has collected the places 1 .. n-1 of the chain and knows the leaves it has
looked at, and the slots it has read of the leaf it is in, to lack the key
(`SearchServed`; `NowhereLemma`: then no leaf has it).
SearchesApart is needed: a search may follow a link to a slot that is not written yet,
and may read a leaf after a split has moved the key on, to a leaf that was not in the
chain when the search collected it.

The assumptions on the constants: the ASSUMEs of each module, which TLC evaluates in
every run. Those beyond the types: a load's model keys increase and its trained keys
lie in the windows that its models give (LoadsAssumption), the pool has room for
the trained leaves (PoolAssumption; RemoteMemory's training stops in an ASSERT
otherwise), training gets keys that increase, an error bound above 0 and leaves of
more than one word (TrainingAssumption; benchs/Rolex/rolex.cc:59 sorts the keys and
drops duplicates), and a concurrent load starts with a table that training and inserts
can have left (StartAssumption with `Started`).

Only model-checked: the properties of LeafTableConc under loads of more than one
entry or with updates and removes, which the runs have beside the loads of the
theorems (so AloneAnswers for updates and removes, and SearchFindsStable beside a
remove that does not move the sought key), and all liveness properties (the provers have no ENABLED, and so no
fairness).

## Plan

What could follow:

1. AloneAnswers with updates and removes, SearchFindsStable beside a remove that does
   not move the key, and both for tables of several entries: InsertAt of LeafTableConcProofs says what an insert has done at
   each step; updates and removes need the same.
2. Modules for the start and end of the driver's workers (benchs/Rolex/rolex.cc:143),
   and for a compute node's leaf read in parts beside a put.

## Not modelled

- The rounding of PLR's long double and of the prediction's double. The model is
  exact; that the code's window has a margin (Epsilon - 1 at training, Epsilon and
  Epsilon + 2 in the window) is what makes up for it, and is not checked.
- A leaf that is read or written by RDMA while the server changes it: both are one
  step here.
- SpinLock::try_lock, insert_to_remote, encode and decode, cas, read_leaves_syn,
  make_segmentation, remote_requests.hpp: no caller.
- UWrappedType (it has no sequence numbers), the asynchronous and RDMA variants of
  atomic_rw, and its size checks.
- UDSession::send_unsignaled and the posting of receive buffers (vendored r2), ring
  transports and BatchOp (not used by ROLEX), RTMScope (not used), PBarrier (a
  pthread barrier), Marshal (a copy of bytes).
- RDMA connection set-up, mmap and NIC registration; the benchmark's load files,
  generators and reports; the vendored libraries under deps/ (rlib, r2,
  progress-cpp) beyond how ROLEX uses them.

PROJECT.json lists each component with its reason, and the hazards no property
covers.
