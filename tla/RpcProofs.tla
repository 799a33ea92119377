------------------------------ MODULE RpcProofs ------------------------------
(***************************************************************************)
(* The RPC layer of Rpc, for every number of client threads, coroutines,   *)
(* calls and keys, and over networks that lose and reorder what they like, *)
(* when the session ids of the threads are distinct (one compute node).    *)
(***************************************************************************)
EXTENDS Rpc, SequenceTheorems, FiniteSetTheorems, TLAPS

\* The threads of one compute node have thread ids of their own.
OneNode == \A c, d \in Clients : Sid[c] = Sid[d] => c = d
-----------------------------------------------------------------------------
In(x, s) == \E i \in DOMAIN s : s[i] = x
OneEach(s) == \A i, j \in DOMAIN s : s[i] = s[j] => i = j

\* A chain of length 0 has nobody in it.
LEMMA EmptyLemma ==
  ASSUME NEW S, NEW s \in Seq(S), Len(s) = 0
  PROVE  s = <<>>
OBVIOUS

\* A coroutine that leaves the chain is not in it any more, the others are.
LEMMA TailLemma ==
  ASSUME NEW S, NEW s \in Seq(S), s # <<>>, OneEach(s)
  PROVE  /\ Tail(s) \in Seq(S) /\ OneEach(Tail(s)) /\ Head(s) = s[1]
         /\ Len(Tail(s)) = Len(s) - 1
         /\ \A x : In(x, Tail(s)) <=> In(x, s) /\ x # Head(s)
         /\ Tail(s) # <<>> => Tail(s)[Len(Tail(s))] = s[Len(s)]
<1>1. /\ Tail(s) \in Seq(S) /\ Head(s) = s[1] /\ Len(Tail(s)) = Len(s) - 1
      /\ \A i \in 1 .. Len(s) - 1 : Tail(s)[i] = s[i + 1]
  OBVIOUS
<1>2. OneEach(Tail(s))
  BY <1>1 DEF OneEach
<1>3. ASSUME NEW x, In(x, Tail(s)) PROVE In(x, s) /\ x # Head(s)
  BY <1>1, <1>3 DEF In, OneEach
<1>4. ASSUME NEW x, In(x, s), x # Head(s) PROVE In(x, Tail(s))
  <2>1. PICK i \in DOMAIN s : s[i] = x
    BY <1>4 DEF In
  <2>2. i - 1 \in 1 .. Len(s) - 1 /\ Tail(s)[i - 1] = x
    BY <1>1, <1>4, <2>1
  <2> QED
    BY <1>1, <2>2 DEF In
<1>5. Tail(s) # <<>> => Tail(s)[Len(Tail(s))] = s[Len(s)]
  BY <1>1
<1> QED
  BY <1>1, <1>2, <1>3, <1>4, <1>5

\* A coroutine is added at the end of the chain.
LEMMA AppendLemma ==
  ASSUME NEW S, NEW s \in Seq(S), NEW e \in S
  PROVE  /\ Append(s, e) \in Seq(S) /\ Len(Append(s, e)) = Len(s) + 1
         /\ Append(s, e) # <<>>
         /\ Append(s, e)[Len(s) + 1] = e
         /\ \A i \in DOMAIN s : Append(s, e)[i] = s[i]
         /\ DOMAIN Append(s, e) = DOMAIN s \cup {Len(s) + 1}
         /\ \A x : In(x, Append(s, e)) <=> In(x, s) \/ x = e
         /\ OneEach(s) /\ ~ In(e, s) => OneEach(Append(s, e))
<1>1. /\ Append(s, e) \in Seq(S) /\ Len(Append(s, e)) = Len(s) + 1
      /\ Append(s, e)[Len(s) + 1] = e
      /\ \A i \in DOMAIN s : Append(s, e)[i] = s[i]
      /\ DOMAIN Append(s, e) = DOMAIN s \cup {Len(s) + 1}
  OBVIOUS
<1>2. Append(s, e) # <<>>
  BY <1>1
<1>3. \A x : In(x, Append(s, e)) <=> In(x, s) \/ x = e
  BY <1>1 DEF In
<1>4. OneEach(s) /\ ~ In(e, s) => OneEach(Append(s, e))
  BY <1>1 DEF In, OneEach
<1> QED
  BY <1>1, <1>2, <1>3, <1>4

\* A call is its caller with a number behind it.
LEMMA AppendPair ==
  ASSUME NEW a, NEW b, NEW n
  PROVE  Append(<<a, b>>, n) = <<a, b, n>>
<1> DEFINE S == {a, b, n}
           s == <<a, b>>
           t == <<a, b, n>>
<1>1. n \in S
  OBVIOUS
<1>2. s \in Seq(S) /\ Len(s) = 2 /\ s[1] = a /\ s[2] = b
  OBVIOUS
<1>3. t \in Seq(S) /\ Len(t) = 3 /\ t[1] = a /\ t[2] = b /\ t[3] = n
  OBVIOUS
<1> HIDE DEF S, s, t
<1>4. /\ Append(s, n) \in Seq(S) /\ Len(Append(s, n)) = Len(s) + 1
      /\ Append(s, n)[Len(s) + 1] = n
      /\ \A i \in DOMAIN s : Append(s, n)[i] = s[i]
  BY <1>1, <1>2, AppendLemma
<1>5. \A i \in 1 .. 3 : Append(s, n)[i] = t[i]
  BY <1>2, <1>3, <1>4
<1>6. Append(s, n) = t
  BY <1>2, <1>3, <1>4, <1>5, SeqEqual
<1> QED
  BY <1>6 DEF s, t
-----------------------------------------------------------------------------
\* the coroutines of a thread, coroutine 0 included
Nodes == 0 .. Coros

\* What is on a wire is what was on it, but for the datagram in place i.
Fewer(wire, was, i) ==
  /\ \A j \in DOMAIN wire : \E n \in DOMAIN was : n # i /\ wire[j] = was[n]
  /\ \A j, k \in DOMAIN wire : j # k =>
       \E n, l \in DOMAIN was : n # l /\ wire[j] = was[n] /\ wire[k] = was[l]
  /\ i # 1 => wire # <<>> /\ wire[1] = was[1]

\* A datagram taken from a wire leaves the others on it.
LEMMA WithoutLemma ==
  ASSUME NEW S, NEW w \in Seq(S), NEW i \in DOMAIN w
  PROVE  Without(w, i) \in Seq(S) /\ Fewer(Without(w, i), w, i)
<1>1. /\ Len(w) \in Nat /\ DOMAIN w = 1 .. Len(w) /\ \A j \in DOMAIN w : w[j] \in S
  OBVIOUS
<1>2. \A j \in 1 .. Len(w) - 1 : (IF j < i THEN w[j] ELSE w[j + 1]) \in S
  BY <1>1
<1>3. Without(w, i) \in [1 .. Len(w) - 1 -> S] /\ Len(w) - 1 \in Nat
  BY <1>1, <1>2 DEF Without
<1>4. Without(w, i) \in Seq(S) /\ Len(Without(w, i)) = Len(w) - 1
  BY <1>3
<1>5. \A j \in DOMAIN Without(w, i) :
        LET n == IF j < i THEN j ELSE j + 1
        IN  n \in DOMAIN w /\ n # i /\ Without(w, i)[j] = w[n]
  BY <1>1, <1>3, <1>4 DEF Without
<1>6. ASSUME NEW j \in DOMAIN Without(w, i), NEW k \in DOMAIN Without(w, i), j # k
      PROVE  \E n, l \in DOMAIN w :
               n # l /\ Without(w, i)[j] = w[n] /\ Without(w, i)[k] = w[l]
  <2>1. j \in Nat /\ k \in Nat /\ i \in Nat
    BY <1>1, <1>3, <1>6
  <2>2. (IF j < i THEN j ELSE j + 1) # (IF k < i THEN k ELSE k + 1)
    BY <1>6, <2>1
  <2> QED
    BY <1>5, <2>2
<1>7. i # 1 => Without(w, i) # <<>> /\ Without(w, i)[1] = w[1]
  <2> SUFFICES ASSUME i # 1 PROVE Without(w, i) # <<>> /\ Without(w, i)[1] = w[1]
    OBVIOUS
  <2>1. 1 < i /\ 1 \in 1 .. Len(w) - 1
    BY <1>1
  <2>2. Without(w, i)[1] = w[1]
    BY ONLY <2>1 DEF Without
  <2>3. Len(Without(w, i)) # 0
    BY <1>1, <1>4, <2>1
  <2> QED
    BY <2>2, <2>3
<1> QED
  BY <1>4, <1>5, <1>6, <1>7 DEF Fewer

\* The scheduler's list is no longer than there are coroutines.
LEMMA ChainBound ==
  ASSUME NEW s \in Seq(Nodes), OneEach(s)
  PROVE  Len(s) <= Coros + 1
<1> Coros \in Nat
  BY RpcAssumption
<1> SUFFICES ASSUME Len(s) > Coros + 1 PROVE FALSE
  OBVIOUS
<1>1. s \in [1 .. Len(s) -> Nodes] /\ Len(s) \in Nat
  OBVIOUS
<1>2. /\ IsFiniteSet(1 .. Len(s)) /\ Cardinality(1 .. Len(s)) = Len(s)
      /\ IsFiniteSet(Nodes) /\ Cardinality(Nodes) = Coros + 1
  <2>1. ASSUME NEW a \in Int, NEW b \in Int, a <= b
        PROVE  IsFiniteSet(a .. b) /\ Cardinality(a .. b) = b - a + 1
    <3>1. /\ IsFiniteSet(a .. b)
          /\ Cardinality(a .. b) = IF a > b THEN 0 ELSE b - a + 1
      BY FS_Interval, Zenon
    <3> QED
      BY <2>1, <3>1
  <2>2. /\ IsFiniteSet(1 .. Len(s)) /\ Cardinality(1 .. Len(s)) = Len(s) - 1 + 1
        /\ IsFiniteSet(0 .. Coros) /\ Cardinality(0 .. Coros) = Coros - 0 + 1
    <3>1. /\ 0 \in Int /\ 1 \in Int /\ Len(s) \in Int /\ Coros \in Int
          /\ 1 <= Len(s) /\ 0 <= Coros
      BY <1>1
    <3> QED
      BY ONLY <2>1, <3>1, Zenon
  <2> QED
    BY <1>1, <2>2 DEF Nodes
<1>3. \E i, j \in 1 .. Len(s) : i # j /\ s[i] = s[j]
  BY <1>1, <1>2, FS_PigeonHole
<1> QED
  BY <1>1, <1>3 DEF OneEach
-----------------------------------------------------------------------------
AllCalls == Clients \X Cors \X (1 .. MaxCalls)
ReplyValues == {Uninit} \cup [status : BOOLEAN, val : Values]
Requests == {Request(call) : call \in AllCalls}
Replies == [type : {"reply"}, cor : Cors, call : AllCalls, value : ReplyValues]

\* the call that a coroutine made last
Last(p) == <<p[1], p[2], made[p]>>

Types ==
  /\ net \in Nets /\ running \in BOOLEAN
  /\ chain \in [Clients -> Seq(Nodes)]
  /\ stopped \in [Clients -> BOOLEAN] /\ failed \in [Clients -> BOOLEAN]
  /\ phase \in [Callers -> {"idle", "called", "exited"}]
  /\ made \in [Callers -> 0 .. MaxCalls] /\ ran \in [Callers -> Nat]
  /\ pending \in [Callers -> {0, 1}]
  /\ buf \in [Callers -> [call : AllCalls \cup {<<>>}, value : ReplyValues]]
  /\ up \in [Clients -> Seq(Requests \cup {ConnectRequest})]
  /\ down \in [Clients -> Seq(Replies)]
  /\ sessions \in [Sids -> Clients \cup {NoClient}]
  /\ server \in {"serving", "ended", "crashed"}
  /\ index \in [Keys -> Values]
  /\ seen \in [Callers -> SUBSET Values]

\* A coroutine is in the chain unless it waits for a reply or has left its loop, and
\* coroutine 0 is either the last of the chain, or its head while it polls.
ChainShape ==
  \A c \in Clients :
    /\ OneEach(chain[c])
    /\ chain[c] # <<>> =>
         \/ chain[c][Len(chain[c])] = 0
         \/ chain[c][1] = 0 /\ ~ stopped[c]
    /\ \A k \in Cors :
         In(k, chain[c]) <=> \/ phase[<<c, k>>] = "idle"
                             \/ phase[<<c, k>>] = "called" /\ pending[<<c, k>>] = 0

\* A call that the server has not run is pending, and so is a call under way until
\* its own reply is in the station.
Ledger ==
  \A p \in Callers :
    /\ ran[p] = made[p] \/ (ran[p] = made[p] - 1 /\ pending[p] = 1)
    /\ pending[p] = 1 => phase[p] = "called"
    /\ phase[p] = "called" => made[p] > 0
    /\ buf[p].call = <<>> \/ (buf[p].call = Last(p) /\ made[p] > 0)
    /\ phase[p] = "called" /\ pending[p] = 0 => buf[p].call = Last(p)

\* A request on its way is the last call of its coroutine, still to be run.
Upwards ==
  \A c \in Clients :
    /\ \A i \in DOMAIN up[c] : up[c][i].type = "req" =>
         LET p == <<c, up[c][i].cor>>
         IN  p \in Callers /\ up[c][i] = Request(Last(p)) /\ ran[p] # made[p]
    /\ \A i, j \in DOMAIN up[c] :
         /\ up[c][i].type = "req" /\ up[c][j].type = "req"
         /\ up[c][i].cor = up[c][j].cor
         => i = j

\* A reply on its way answers the last call of its coroutine, which waits for it.
Downwards ==
  \A c \in Clients :
    /\ \A i \in DOMAIN down[c] :
         LET p == <<c, down[c][i].cor>>
         IN  /\ p \in Callers /\ down[c][i].call = Last(p)
             /\ ran[p] = made[p] /\ pending[p] = 1
    /\ \A i, j \in DOMAIN down[c] : down[c][i].cor = down[c][j].cor => i = j

\* A session id leads to its own thread.
Sessions == \A c \in Clients : sessions[Sid[c]] \in {c, NoClient}

\* Inductive for the threads of one compute node.
RpcInv ==
  /\ Types /\ ChainShape /\ NoStrayReply
  /\ Ledger /\ Upwards /\ Downwards /\ Sessions

\* what the answer to a call says of the values that its key has had meanwhile
Got(call, value, had) ==
  Asked[call].id = "GET" =>
    value # Uninit /\ (IF value.status THEN value.val ELSE NoVal) \in had

\* what the server has done once it has run a call
Took(call, room, had) ==
  LET r == Asked[call]
  IN  /\ r.id = "PUT" /\ room => \E v \in had : v # NoVal
      /\ r.id = "UPDATE" => {r.val, NoVal} \cap had # {}
      /\ r.id = "DELETE" => NoVal \in had

\* A call under way has seen what its key maps to now; it has had its effect once the
\* server has run it, and the reply to a search carries a value that was seen.
EffectInv ==
  /\ \A p \in Callers : phase[p] = "called" =>
       /\ index[Asked[Last(p)].key] \in seen[p]
       /\ ran[p] = made[p] => Took(Last(p), net.room, seen[p])
       /\ pending[p] = 0 => Got(Last(p), buf[p].value, seen[p])
  /\ \A c \in Clients : \A i \in DOMAIN down[c] :
       LET p == <<c, down[c][i].cor>>
       IN  Got(Last(p), down[c][i].value, seen[p])

\* While a thread has no session its Connect is the next datagram to arrive.
ConnectFirst ==
  "connect" \notin net.loses \cup net.overtaken =>
    /\ server # "crashed"
    /\ \A c \in Clients : sessions[Sid[c]] = NoClient =>
         up[c] # <<>> /\ up[c][1] = ConnectRequest
-----------------------------------------------------------------------------
\* What a request carries, whichever of the five calls it is for.
LEMMA RequestLemma ==
  ASSUME NEW call \in AllCalls
  PROVE  LET m == Request(call)
             r == Asked[call]
         IN  /\ r \in [id : {"GET", "PUT", "UPDATE", "DELETE", "SCAN"},
                       key : Keys, val : Vals]
             /\ m.type = "req" /\ m.cor = call[2] /\ m.call = call
             /\ m.id = rpc_id[r.id] /\ m.args[1] = r.key
             /\ r.id \in {"PUT", "UPDATE", "SCAN"} => m.args[2] = r.val
<1> DEFINE r == Asked[call]
           m == Request(call)
<1>1. call = <<call[1], call[2], call[3]>>
      /\ call[1] \in Clients /\ call[2] \in Cors /\ call[3] \in 1 .. MaxCalls
  BY DEF AllCalls
<1>2. r \in [id : {"GET", "PUT", "UPDATE", "DELETE", "SCAN"}, key : Keys, val : Vals]
  BY <1>1, AskedAssumption
<1>3. /\ m.type = "req" /\ m.cor = call[2] /\ m.call = call
      /\ m.id = rpc_id[r.id]
      /\ m.args = CASE r.id \in {"GET", "DELETE"} -> <<r.key>>
                    [] r.id \in {"PUT", "UPDATE", "SCAN"} -> <<r.key, r.val>>
  BY DEF Request
<1>4. CASE r.id \in {"GET", "DELETE"}
  BY <1>2, <1>3, <1>4
<1>5. CASE r.id \in {"PUT", "UPDATE", "SCAN"}
  BY <1>2, <1>3, <1>5
<1> QED
  BY <1>2, <1>4, <1>5

\* What the callback of each of the five calls does to its key and answers.
LEMMA RunLemma ==
  ASSUME NEW call \in AllCalls, index \in [Keys -> Values]
  PROVE  LET m == Request(call)
             r == Asked[call]
         IN  /\ run(m)[1] \in Values /\ run(m)[2] \in ReplyValues
             /\ r.id = "GET" =>
                  /\ run(m)[2] # Uninit
                  /\ (IF run(m)[2].status THEN run(m)[2].val ELSE NoVal)
                       = index[r.key]
             /\ r.id = "PUT" /\ net.room => run(m)[1] # NoVal
             /\ r.id = "UPDATE" => run(m)[1] \in {r.val, NoVal}
             /\ r.id = "DELETE" => run(m)[1] = NoVal
<1> DEFINE r == Asked[call]
           m == Request(call)
<1>1. /\ r \in [id : {"GET", "PUT", "UPDATE", "DELETE", "SCAN"},
                key : Keys, val : Vals]
      /\ m.id = rpc_id[r.id] /\ m.args[1] = r.key
      /\ r.id \in {"PUT", "UPDATE", "SCAN"} => m.args[2] = r.val
  BY RequestLemma
<1>2. index[r.key] \in Values /\ NoVal \in Values /\ Vals \subseteq Values
  BY <1>1 DEF Values
<1> HIDE DEF r, m
<1>3. CASE r.id = "GET"
  <2>1. callbacks[m.id + 1] = "get"
    BY <1>1, <1>3 DEF rpc_id, callbacks
  <2>2. run(m) = <<index[r.key],
                   [status |-> index[r.key] # NoVal, val |-> index[r.key]]>>
    BY <1>1, <2>1 DEF run
  <2>3. run(m)[2] \in [status : BOOLEAN, val : Values]
    BY <1>2, <2>2
  <2>4. run(m)[2] # Uninit
    BY <2>3, AskedAssumption
  <2>5. (IF run(m)[2].status THEN run(m)[2].val ELSE NoVal) = index[r.key]
    <3>1. run(m)[2].val = index[r.key]
      BY <2>2
    <3>2. run(m)[2].status = (index[r.key] # NoVal)
      BY <2>2
    <3> QED
      BY <3>1, <3>2, Zenon
  <2>6. run(m)[1] \in Values
    BY <1>2, <2>2
  <2> QED
    BY <1>3, <2>3, <2>4, <2>5, <2>6 DEF ReplyValues, r, m
<1>4. CASE r.id = "PUT"
  <2>1. callbacks[m.id + 1] = "put"
    BY <1>1, <1>4 DEF rpc_id, callbacks
  <2>2. run(m) = <<IF index[r.key] # NoVal \/ ~ net.room THEN index[r.key]
                   ELSE r.val, Uninit>>
    BY <1>1, <1>4, <2>1 DEF run
  <2> QED
    BY <1>1, <1>2, <1>4, <2>2, AskedAssumption DEF ReplyValues, Values, r, m
<1>5. CASE r.id = "UPDATE"
  <2>1. callbacks[m.id + 1] = "update"
    BY <1>1, <1>5 DEF rpc_id, callbacks
  <2>2. run(m) = <<IF index[r.key] # NoVal THEN r.val ELSE index[r.key],
                   [status |-> index[r.key] # NoVal, val |-> r.val]>>
    BY <1>1, <1>5, <2>1 DEF run
  <2>3. run(m)[2] \in [status : BOOLEAN, val : Values]
    BY <1>1, <1>2, <1>5, <2>2
  <2> QED
    BY <1>1, <1>2, <1>5, <2>2, <2>3 DEF ReplyValues, r, m
<1>6. CASE r.id = "DELETE"
  <2>1. callbacks[m.id + 1] = "remove"
    BY <1>1, <1>6 DEF rpc_id, callbacks
  <2>2. run(m) = <<NoVal, [status |-> index[r.key] # NoVal, val |-> NoVal]>>
    BY <1>1, <1>6, <2>1 DEF run
  <2>3. run(m)[2] \in [status : BOOLEAN, val : Values]
    BY <1>2, <2>2
  <2> QED
    BY <1>1, <1>2, <1>6, <2>2, <2>3 DEF ReplyValues, r, m
<1>7. CASE r.id = "SCAN"
  <2>1. callbacks[m.id + 1] = "scan"
    BY <1>1, <1>7 DEF rpc_id, callbacks
  <2>2. run(m) = <<index[r.key], Uninit>>
    BY <1>1, <1>7, <2>1 DEF run
  <2> QED
    BY <1>1, <1>2, <1>7, <2>2 DEF ReplyValues, r, m
<1> QED
  BY <1>1, <1>3, <1>4, <1>5, <1>6, <1>7
-----------------------------------------------------------------------------
\* A call from one of the coroutines has the three parts that Last names.
LEMMA CallersLemma ==
  /\ \A c \in Clients, k \in Cors : <<c, k>> \in Callers
  /\ \A p \in Callers : p[1] \in Clients /\ p[2] \in Cors /\ p = <<p[1], p[2]>>
  /\ Types => \A p \in Callers : made[p] > 0 => Last(p) \in AllCalls
<1>1. \A p \in Callers : p[1] \in Clients /\ p[2] \in Cors /\ p = <<p[1], p[2]>>
  BY DEF Callers
<1>2. ASSUME Types, NEW p \in Callers, made[p] > 0 PROVE Last(p) \in AllCalls
  <2>1. made[p] \in 1 .. MaxCalls
    BY <1>2, RpcAssumption DEF Types
  <2> QED
    BY <1>1, <2>1 DEF Last, AllCalls
<1> QED
  BY <1>1, <1>2 DEF Callers

\* The call that a coroutine made last
LEMMA LastLemma == \A p \in Callers : Last(p) = Append(p, made[p])
<1> SUFFICES ASSUME NEW p \in Callers PROVE Last(p) = Append(p, made[p])
  OBVIOUS
<1>1. p = <<p[1], p[2]>>
  BY CallersLemma
<1>2. Append(<<p[1], p[2]>>, made[p]) = <<p[1], p[2], made[p]>>
  BY AppendPair
<1> QED
  BY <1>1, <1>2, Zenon DEF Last

\* After the barrier nothing is under way but the Connects.
LEMMA InitRpc == Init => RpcInv
<1> SUFFICES ASSUME Init PROVE RpcInv
  OBVIOUS
<1> USE RpcAssumption, AskedAssumption DEF Init
<1>1. Coros \in Nat \ {0} /\ MaxCalls \in Nat
  OBVIOUS
<1>2. ASSUME NEW c \in Clients
      PROVE  /\ chain[c] \in Seq(Nodes) /\ OneEach(chain[c])
             /\ chain[c][1] = 0
             /\ \A k \in Cors : In(k, chain[c])
  <2>1. chain[c] = [i \in 1 .. Coros + 1 |-> i - 1]
    OBVIOUS
  <2>2. chain[c] \in [1 .. Coros + 1 -> 0 .. Coros]
    BY <1>1, <2>1
  <2>3. chain[c] \in Seq(Nodes)
    <3>1. \A n \in Nat : \A S : [1 .. n -> S] \subseteq Seq(S)
      BY ONLY TRUE
    <3>2. Coros + 1 \in Nat
      BY ONLY <1>1
    <3> QED
      BY ONLY <2>2, <3>1, <3>2, Zenon DEF Nodes
  <2>4. ASSUME NEW k \in Cors PROVE In(k, chain[c])
    <3>1. k + 1 \in 1 .. Coros + 1 /\ chain[c][k + 1] = k
      BY <1>1, <2>1 DEF Cors
    <3> QED
      BY <2>2, <3>1 DEF In
  <2> QED
    BY <1>1, <2>1, <2>3, <2>4 DEF OneEach
<1>3. ASSUME NEW c \in Clients
      PROVE  /\ up[c] \in Seq(Requests \cup {ConnectRequest})
             /\ down[c] \in Seq(Replies) /\ down[c] = <<>>
             /\ \A i \in DOMAIN up[c] : up[c][i] = ConnectRequest
  OBVIOUS
<1>4. Types
  <2>1. chain \in [Clients -> Seq(Nodes)]
    BY <1>2
  <2>2. up \in [Clients -> Seq(Requests \cup {ConnectRequest})]
    BY <1>3
  <2>3. down \in [Clients -> Seq(Replies)]
    BY <1>3
  <2>4. buf \in [Callers -> [call : AllCalls \cup {<<>>}, value : ReplyValues]]
    BY DEF ReplyValues, NoReply
  <2> QED
    BY <1>1, <2>1, <2>2, <2>3, <2>4 DEF Types
<1>5. ChainShape
  BY <1>2, CallersLemma DEF ChainShape
<1>6. Ledger /\ NoStrayReply
  BY DEF Ledger, NoReply, NoStrayReply
<1>7. Upwards
  BY <1>3 DEF Upwards, ConnectRequest
<1>8. Downwards
  BY <1>3 DEF Downwards
<1>9. Sessions
  BY DEF Sessions, Sids
<1> QED
  BY <1>4, <1>5, <1>6, <1>7, <1>8, <1>9 DEF RpcInv
-----------------------------------------------------------------------------
\* A call makes one request, of a coroutine that had nothing under way.
LEMMA CallKeeps ==
  ASSUME RpcInv, NEW c \in Clients, NEW k \in Cors, Call(c, k)
  PROVE  RpcInv'
<1> DEFINE p == <<c, k>>
           call == <<c, k, made[p] + 1>>
<1>1. /\ p \in Callers /\ Coros \in Nat /\ MaxCalls \in Nat
      /\ Types /\ ChainShape /\ NoStrayReply /\ Ledger /\ Upwards /\ Downwards
      /\ Sessions
  BY CallersLemma, RpcAssumption DEF RpcInv
<1>2. /\ phase[p] = "idle" /\ made[p] < MaxCalls
      /\ phase' = [phase EXCEPT ![p] = "called"]
      /\ made' = [made EXCEPT ![p] = @ + 1]
      /\ up' = [up EXCEPT ![c] = Append(@, Request(call))]
      /\ chain' = [chain EXCEPT ![c] = Tail(@)]
      /\ chain[c] # <<>> /\ Head(chain[c]) = k
      /\ seen' = [seen EXCEPT ![p] = {index[Asked[call].key]}]
      /\ UNCHANGED <<net, running, stopped, failed, down, worker>>
  BY DEF Call, Current, Leave
<1>3. /\ pending[p] = 0 /\ ran[p] = made[p]
      /\ pending' = [pending EXCEPT ![p] = 1]
      /\ buf' = [buf EXCEPT ![p] = NoReply]
  <2>1. pending[p] = 0 /\ ran[p] = made[p]
    BY <1>1, <1>2 DEF Types, Ledger
  <2> QED
    BY <2>1 DEF Call, add_pending_reply, cor_ready
<1> HIDE DEF p, call
<1>4. /\ call \in AllCalls /\ call = Last(p)'
      /\ Request(call) \in Requests
      /\ Request(call).type = "req" /\ Request(call).cor = k
  <2>1. call \in AllCalls
    BY <1>1, <1>2 DEF Types, AllCalls, call, p
  <2>2. Last(p)' = call
    BY <1>1, <1>2 DEF Types, Last, call, p
  <2> QED
    BY <2>1, <2>2, RequestLemma DEF Requests, call
<1>5. /\ chain[c] \in Seq(Nodes) /\ OneEach(chain[c])
      /\ up[c] \in Seq(Requests \cup {ConnectRequest})
  BY <1>1 DEF Types, ChainShape
<1>6. /\ chain'[c] \in Seq(Nodes) /\ OneEach(chain'[c])
      /\ \A x : In(x, chain'[c]) <=> In(x, chain[c]) /\ x # k
      /\ chain'[c] # <<>> => chain'[c][Len(chain'[c])] = chain[c][Len(chain[c])]
      /\ chain[c][1] = k
      /\ \A d \in Clients \ {c} : chain'[d] = chain[d]
  <2>1. chain'[c] = Tail(chain[c]) /\ \A d \in Clients \ {c} : chain'[d] = chain[d]
    BY <1>1, <1>2 DEF Types
  <2>2. chain[c] # <<>> /\ Head(chain[c]) = k
    BY <1>2
  <2>3. /\ Tail(chain[c]) \in Seq(Nodes) /\ OneEach(Tail(chain[c]))
        /\ Head(chain[c]) = chain[c][1]
        /\ \A x : In(x, Tail(chain[c])) <=> In(x, chain[c]) /\ x # Head(chain[c])
        /\ Tail(chain[c]) # <<>> =>
             Tail(chain[c])[Len(Tail(chain[c]))] = chain[c][Len(chain[c])]
    BY <1>5, <2>2, TailLemma
  <2> QED
    BY <2>1, <2>2, <2>3
<1>7. /\ up'[c] \in Seq(Requests \cup {ConnectRequest})
      /\ Len(up'[c]) = Len(up[c]) + 1 /\ up'[c][Len(up[c]) + 1] = Request(call)
      /\ \A i \in DOMAIN up[c] : up'[c][i] = up[c][i]
      /\ DOMAIN up'[c] = DOMAIN up[c] \cup {Len(up[c]) + 1}
      /\ \A d \in Clients \ {c} : up'[d] = up[d]
  <2>1. /\ up'[c] = Append(up[c], Request(call))
        /\ \A d \in Clients \ {c} : up'[d] = up[d]
    BY <1>1, <1>2 DEF Types
  <2> QED
    BY <1>4, <1>5, <2>1, AppendLemma
<1>8. Types'
  <2>1. chain' \in [Clients -> Seq(Nodes)]
    BY <1>1, <1>2, <1>6 DEF Types
  <2>2. up' \in [Clients -> Seq(Requests \cup {ConnectRequest})]
    BY <1>1, <1>2, <1>7 DEF Types
  <2>3. buf' \in [Callers -> [call : AllCalls \cup {<<>>}, value : ReplyValues]]
    BY <1>1, <1>3 DEF Types, NoReply, ReplyValues
  <2>4. index[Asked[call].key] \in Values
    BY <1>1, <1>4, RequestLemma DEF Types
  <2>5. seen' \in [Callers -> SUBSET Values]
    BY <1>1, <1>2, <2>4 DEF Types
  <2>6. /\ phase' \in [Callers -> {"idle", "called", "exited"}]
        /\ made' \in [Callers -> 0 .. MaxCalls]
        /\ pending' \in [Callers -> {0, 1}]
    BY <1>1, <1>2, <1>3 DEF Types
  <2> QED
    BY <1>1, <1>2, <2>1, <2>2, <2>3, <2>5, <2>6 DEF Types, worker
<1>9. ChainShape'
  <2>1. ASSUME NEW d \in Clients, NEW j \in Cors
        PROVE  In(j, chain'[d]) <=>
                 \/ phase'[<<d, j>>] = "idle"
                 \/ phase'[<<d, j>>] = "called" /\ pending'[<<d, j>>] = 0
    <3>1. CASE <<d, j>> = p
      BY <1>1, <1>2, <1>3, <1>6, <3>1 DEF Types, p
    <3>2. CASE <<d, j>> # p
      BY <1>1, <1>2, <1>3, <1>6, <3>2, CallersLemma DEF Types, ChainShape, p
    <3> QED
      BY <3>1, <3>2
  <2>2. ASSUME NEW d \in Clients
        PROVE  /\ OneEach(chain'[d])
               /\ chain'[d] # <<>> => \/ chain'[d][Len(chain'[d])] = 0
                                      \/ chain'[d][1] = 0 /\ ~ stopped'[d]
    <3>1. k # 0
      BY DEF Cors
    <3> QED
      BY <1>1, <1>2, <1>6, <3>1 DEF ChainShape
  <2> QED
    BY <2>1, <2>2 DEF ChainShape
<1>10. NoStrayReply' /\ Sessions'
  BY <1>1, <1>2 DEF NoStrayReply, Sessions, worker
<1>11. Ledger'
  BY <1>1, <1>2, <1>3 DEF Types, Ledger, NoReply, Last, worker
<1>12. Upwards'
  <2>1. ASSUME NEW d \in Clients, NEW i \in DOMAIN up'[d], up'[d][i].type = "req"
        PROVE  LET q == <<d, up'[d][i].cor>>
               IN  /\ q \in Callers /\ up'[d][i] = Request(<<q[1], q[2], made'[q]>>)
                   /\ ran'[q] # made'[q]
    <3>1. CASE d = c /\ i = Len(up[c]) + 1
      <4>1. up'[d][i] = Request(call) /\ <<d, up'[d][i].cor>> = p
        BY <1>4, <1>7, <3>1 DEF p
      <4>2. made'[p] = made[p] + 1 /\ ran'[p] = made[p] /\ made[p] \in Nat
        BY <1>1, <1>2, <1>3 DEF Types, worker
      <4>3. call = <<p[1], p[2], made'[p]>>
        BY <4>2 DEF p, call
      <4> QED
        BY <1>1, <4>1, <4>2, <4>3
    <3>2. CASE i \in DOMAIN up[d] /\ up'[d][i] = up[d][i]
      <4>1. LET q == <<d, up[d][i].cor>>
            IN  q \in Callers /\ up[d][i] = Request(Last(q)) /\ ran[q] # made[q]
        BY <1>1, <2>1, <3>2 DEF Upwards
      <4>2. <<d, up[d][i].cor>> # p
        BY <1>3, <4>1
      <4> QED
        BY <1>1, <1>2, <3>2, <4>1, <4>2 DEF Types, Last, worker
    <3> QED
      BY <1>7, <2>1, <3>1, <3>2
  <2>2. ASSUME NEW d \in Clients, NEW i \in DOMAIN up[d], up[d][i].type = "req"
        PROVE  d = c => up[d][i].cor # k
    BY <1>1, <1>3, <2>2 DEF Upwards, p
  <2>3. ASSUME NEW d \in Clients, NEW i \in DOMAIN up'[d], NEW j \in DOMAIN up'[d],
               up'[d][i].type = "req", up'[d][j].type = "req",
               up'[d][i].cor = up'[d][j].cor
        PROVE  i = j
    BY <1>1, <1>4, <1>7, <2>2, <2>3 DEF Upwards
  <2> QED
    BY <2>1, <2>3 DEF Upwards, Last
<1>13. Downwards'
  <2>1. ASSUME NEW d \in Clients, NEW i \in DOMAIN down[d]
        PROVE  <<d, down[d][i].cor>> # p
    BY <1>1, <1>3, <2>1 DEF Downwards
  <2> QED
    BY <1>1, <1>2, <1>3, <2>1 DEF Types, Downwards, Last, worker
<1> QED
  BY <1>8, <1>9, <1>10, <1>11, <1>12, <1>13 DEF RpcInv

\* A coroutine that is current again takes its answer.
LEMMA ResumeKeeps ==
  ASSUME RpcInv, NEW c \in Clients, NEW k \in Cors, Resume(c, k)
  PROVE  RpcInv'
<1> DEFINE p == <<c, k>>
<1>1. /\ p \in Callers /\ Coros \in Nat
      /\ Types /\ ChainShape /\ NoStrayReply /\ Ledger /\ Upwards /\ Downwards
      /\ Sessions
  BY CallersLemma, RpcAssumption DEF RpcInv
<1>2. /\ phase[p] = "called" /\ chain[c] # <<>> /\ Head(chain[c]) = k
      /\ phase' = [phase EXCEPT ![p] = "idle"]
      /\ seen' = [seen EXCEPT ![p] = {}]
      /\ UNCHANGED <<net, running, chain, stopped, made, pending, buf, failed, up,
                     down, worker>>
  BY DEF Resume, Current
<1>3. In(k, chain[c]) /\ pending[p] = 0
  <2>1. chain[c] \in Seq(Nodes)
    BY <1>1 DEF Types
  <2>2. In(k, chain[c])
    BY <1>2, <2>1 DEF In
  <2> QED
    BY <1>1, <1>2, <2>2 DEF ChainShape
<1> HIDE DEF p
<1>4. Types'
  <2>1. seen' \in [Callers -> SUBSET Values]
    BY <1>1, <1>2 DEF Types
  <2>2. phase' \in [Callers -> {"idle", "called", "exited"}]
    BY <1>1, <1>2 DEF Types
  <2> QED
    BY <1>1, <1>2, <2>1, <2>2 DEF Types, worker
<1>5. ChainShape'
  <2>1. ASSUME NEW d \in Clients, NEW j \in Cors
        PROVE  In(j, chain'[d]) <=>
                 \/ phase'[<<d, j>>] = "idle"
                 \/ phase'[<<d, j>>] = "called" /\ pending'[<<d, j>>] = 0
    <3>1. CASE <<d, j>> = p
      BY <1>1, <1>2, <1>3, <3>1 DEF Types, p
    <3>2. CASE <<d, j>> # p
      BY <1>1, <1>2, <3>2, CallersLemma DEF Types, ChainShape
    <3> QED
      BY <3>1, <3>2
  <2> QED
    BY <1>1, <1>2, <2>1 DEF ChainShape
<1>6. NoStrayReply' /\ Sessions'
  BY <1>1, <1>2 DEF NoStrayReply, Sessions, worker
<1>7. Ledger'
  BY <1>1, <1>2, <1>3 DEF Types, Ledger, Last, worker
<1>8. Upwards' /\ Downwards'
  BY <1>1, <1>2 DEF Upwards, Downwards, Last, worker
<1> QED
  BY <1>4, <1>5, <1>6, <1>7, <1>8 DEF RpcInv

\* A coroutine leaves its loop, and the chain, with nothing under way.
LEMMA ExitKeeps ==
  ASSUME RpcInv, NEW c \in Clients, NEW k \in Cors, Exit(c, k)
  PROVE  RpcInv'
<1> DEFINE p == <<c, k>>
<1>1. /\ p \in Callers /\ Coros \in Nat \ {0}
      /\ Types /\ ChainShape /\ NoStrayReply /\ Ledger /\ Upwards /\ Downwards
      /\ Sessions
  BY CallersLemma, RpcAssumption DEF RpcInv
<1>2. /\ phase[p] = "idle" /\ chain[c] # <<>> /\ Head(chain[c]) = k
      /\ phase' = [phase EXCEPT ![p] = "exited"]
      /\ stopped' = [stopped EXCEPT ![c] = @ \/ k = Coros]
      /\ chain' = [chain EXCEPT ![c] = Tail(@)]
      /\ UNCHANGED <<net, running, made, pending, buf, failed, up, down, worker,
                     seen>>
  BY DEF Exit, Current, Leave
<1>3. /\ chain[c] \in Seq(Nodes) /\ OneEach(chain[c])
      /\ chain'[c] = Tail(chain[c])
      /\ \A d \in Clients \ {c} : chain'[d] = chain[d] /\ stopped'[d] = stopped[d]
  BY <1>1, <1>2 DEF Types, ChainShape
<1>4. /\ Tail(chain[c]) \in Seq(Nodes) /\ OneEach(Tail(chain[c]))
      /\ chain[c][1] = k
      /\ \A x : In(x, Tail(chain[c])) <=> In(x, chain[c]) /\ x # k
      /\ Tail(chain[c]) # <<>> =>
           Tail(chain[c])[Len(Tail(chain[c]))] = chain[c][Len(chain[c])]
  BY <1>2, <1>3, TailLemma
<1> HIDE DEF p
<1>5. Types'
  <2>1. chain' \in [Clients -> Seq(Nodes)]
    BY <1>1, <1>2, <1>3, <1>4 DEF Types
  <2>2. /\ phase' \in [Callers -> {"idle", "called", "exited"}]
        /\ stopped' \in [Clients -> BOOLEAN]
    BY <1>1, <1>2 DEF Types
  <2> QED
    BY <1>1, <1>2, <2>1, <2>2 DEF Types, worker
<1>6. ChainShape'
  <2>1. ASSUME NEW d \in Clients, NEW j \in Cors
        PROVE  In(j, chain'[d]) <=>
                 \/ phase'[<<d, j>>] = "idle"
                 \/ phase'[<<d, j>>] = "called" /\ pending'[<<d, j>>] = 0
    <3>1. CASE <<d, j>> = p
      BY <1>1, <1>2, <1>3, <1>4, <3>1 DEF Types, p
    <3>2. CASE <<d, j>> # p
      BY <1>1, <1>2, <1>3, <1>4, <3>2, CallersLemma DEF Types, ChainShape, p
    <3> QED
      BY <3>1, <3>2
  <2>2. ASSUME NEW d \in Clients
        PROVE  /\ OneEach(chain'[d])
               /\ chain'[d] # <<>> => \/ chain'[d][Len(chain'[d])] = 0
                                      \/ chain'[d][1] = 0 /\ ~ stopped'[d]
    <3>1. k # 0
      BY DEF Cors
    <3> QED
      BY <1>1, <1>2, <1>3, <1>4, <3>1 DEF ChainShape
  <2> QED
    BY <2>1, <2>2 DEF ChainShape
<1>7. NoStrayReply' /\ Sessions'
  BY <1>1, <1>2 DEF NoStrayReply, Sessions, worker
<1>8. Ledger'
  BY <1>1, <1>2 DEF Types, Ledger, Last, worker
<1>9. Upwards' /\ Downwards'
  BY <1>1, <1>2 DEF Upwards, Downwards, Last, worker
<1> QED
  BY <1>5, <1>6, <1>7, <1>8, <1>9 DEF RpcInv

\* Coroutine 0 goes to the end of the chain, or leaves it when it was stopped: then
\* nobody is behind it.
LEMMA PollerKeeps ==
  ASSUME RpcInv, NEW c \in Clients, Yield(c) \/ PollerExit(c)
  PROVE  RpcInv'
<1>1. /\ Coros \in Nat
      /\ Types /\ ChainShape /\ NoStrayReply /\ Ledger /\ Upwards /\ Downwards
      /\ Sessions
  BY RpcAssumption DEF RpcInv
<1>2. /\ chain[c] # <<>> /\ Head(chain[c]) = 0
      /\ \/ chain' = [chain EXCEPT ![c] = Append(Tail(@), 0)]
         \/ stopped[c] /\ chain' = [chain EXCEPT ![c] = Tail(@)]
      /\ UNCHANGED <<net, running, stopped, phase, made, pending, buf, failed, up,
                     down, worker, seen>>
  BY DEF Yield, PollerExit, Current, Leave
<1>3. /\ chain[c] \in Seq(Nodes) /\ OneEach(chain[c])
      /\ \/ chain'[c] = Append(Tail(chain[c]), 0)
         \/ stopped[c] /\ chain'[c] = Tail(chain[c])
      /\ \A d \in Clients \ {c} : chain'[d] = chain[d]
  BY <1>1, <1>2 DEF Types, ChainShape
<1>4. /\ Tail(chain[c]) \in Seq(Nodes) /\ OneEach(Tail(chain[c]))
      /\ chain[c][1] = 0 /\ Len(Tail(chain[c])) = Len(chain[c]) - 1
      /\ \A x : In(x, Tail(chain[c])) <=> In(x, chain[c]) /\ x # 0
  BY <1>2, <1>3, TailLemma
<1>5. /\ chain'[c] \in Seq(Nodes) /\ OneEach(chain'[c])
      /\ \A k \in Cors : In(k, chain'[c]) <=> In(k, chain[c])
      /\ chain'[c] # <<>> => chain'[c][Len(chain'[c])] = 0
  <2>1. CASE chain'[c] = Append(Tail(chain[c]), 0)
    <3>1. 0 \in 0 .. Coros /\ 0 \notin Cors
      BY <1>1 DEF Cors
    <3> DEFINE tl == Tail(chain[c])
    <3>2. tl \in Seq(Nodes) /\ 0 \in Nodes /\ OneEach(tl) /\ ~ In(0, tl)
      BY <1>4, <3>1 DEF Nodes
    <3> HIDE DEF tl
    <3>3. /\ Append(tl, 0) \in Seq(Nodes)
          /\ Len(Append(tl, 0)) = Len(tl) + 1 /\ Append(tl, 0)[Len(tl) + 1] = 0
          /\ \A x : In(x, Append(tl, 0)) <=> In(x, tl) \/ x = 0
          /\ OneEach(Append(tl, 0))
      BY ONLY <3>2, AppendLemma
    <3> QED
      BY <1>4, <2>1, <3>1, <3>3 DEF tl
  <2>2. CASE stopped[c] /\ chain'[c] = Tail(chain[c])
    <3>1. chain[c][Len(chain[c])] = 0
      BY <1>1, <1>2, <2>2 DEF ChainShape
    <3>2. 1 \in DOMAIN chain[c] /\ Len(chain[c]) \in DOMAIN chain[c]
      BY <1>2, <1>3
    <3>3. Len(chain[c]) = 1
      BY <1>3, <1>4, <3>1, <3>2 DEF OneEach
    <3>4. Len(Tail(chain[c])) = 0
      BY ONLY <1>4, <3>3
    <3>5. Tail(chain[c]) = <<>>
      BY ONLY <1>4, <3>4, EmptyLemma
    <3> QED
      BY <1>4, <2>2, <3>5 DEF Cors
  <2> QED
    BY <1>3, <2>1, <2>2
<1>6. Types'
  <2>1. chain' \in [Clients -> Seq(Nodes)]
    BY <1>1, <1>2, <1>5 DEF Types
  <2> QED
    BY <1>1, <1>2, <2>1 DEF Types, worker
<1>7. ChainShape'
  <2>1. ASSUME NEW d \in Clients
        PROVE  /\ OneEach(chain'[d])
               /\ \A k \in Cors : In(k, chain'[d]) <=> In(k, chain[d])
               /\ chain'[d] # <<>> => \/ chain'[d][Len(chain'[d])] = 0
                                      \/ chain'[d][1] = 0 /\ ~ stopped'[d]
    BY <1>1, <1>2, <1>3, <1>5 DEF ChainShape
  <2> QED
    BY <1>1, <1>2, <2>1 DEF ChainShape
<1>8. NoStrayReply' /\ Sessions' /\ Ledger' /\ Upwards' /\ Downwards'
  BY <1>1, <1>2
  DEF NoStrayReply, Sessions, Ledger, Upwards, Downwards, Last, worker
<1> QED
  BY <1>6, <1>7, <1>8 DEF RpcInv

\* A reply that is taken comes to a coroutine which waits for it: the ASSERT on
\* append_reply holds, and the coroutine is added to a chain it is not in.
LEMMA PollKeeps ==
  ASSUME RpcInv, NEW c \in Clients, Poll(c)
  PROVE  RpcInv'
<1>1. /\ Coros \in Nat
      /\ Types /\ ChainShape /\ NoStrayReply /\ Ledger /\ Upwards /\ Downwards
      /\ Sessions
  BY RpcAssumption DEF RpcInv
<1>2. PICK i \in Arriving(down[c]) :
        LET k == down[c][i].cor
            p == <<c, k>>
        IN  /\ down' = [down EXCEPT ![c] = Without(@, i)]
            /\ IF cor_ready(p)
                 THEN /\ failed' = [failed EXCEPT ![c] = TRUE]
                      /\ UNCHANGED <<chain, pending, buf>>
                 ELSE /\ append_reply(p, down[c][i])
                      /\ chain' = [chain EXCEPT ![c] = IF pending[p] = 1
                                                    THEN Append(@, k) ELSE @]
                      /\ UNCHANGED failed
  BY DEF Poll
<1> DEFINE m == down[c][i]
           k == m.cor
           p == <<c, k>>
<1>3. /\ down[c] \in Seq(Replies) /\ i \in DOMAIN down[c] /\ m \in Replies
      /\ chain[c] \in Seq(Nodes) /\ OneEach(chain[c])
  BY <1>1 DEF Types, ChainShape, Arriving
<1>4. /\ k \in Cors /\ p \in Callers /\ m.call = Last(p)
      /\ ran[p] = made[p] /\ pending[p] = 1 /\ phase[p] = "called"
  BY <1>1, <1>3, CallersLemma DEF Downwards, Ledger, Callers
<1>5. /\ down' = [down EXCEPT ![c] = Without(@, i)]
      /\ pending' = [pending EXCEPT ![p] = 0]
      /\ buf' = [buf EXCEPT ![p] = [call |-> m.call, value |-> m.value]]
      /\ chain' = [chain EXCEPT ![c] = Append(@, k)]
      /\ UNCHANGED failed
  BY <1>2, <1>4 DEF cor_ready, append_reply
<1>6. /\ chain[c] # <<>> /\ Head(chain[c]) = 0 /\ ~ stopped[c]
      /\ UNCHANGED <<net, running, stopped, phase, made, up, worker, seen>>
  BY DEF Poll, Current
<1>7. ~ In(k, chain[c])
  BY <1>1, <1>4 DEF ChainShape
<1> HIDE DEF m, k, p
<1>8. /\ chain'[c] \in Seq(Nodes) /\ OneEach(chain'[c])
      /\ chain'[c][1] = 0
      /\ \A x : In(x, chain'[c]) <=> In(x, chain[c]) \/ x = k
      /\ \A d \in Clients \ {c} : chain'[d] = chain[d]
  <2>1. /\ chain'[c] = Append(chain[c], k)
        /\ \A d \in Clients \ {c} : chain'[d] = chain[d]
    BY <1>1, <1>5 DEF Types
  <2>2. k \in Nodes
    BY <1>1, <1>4 DEF Cors, Nodes
  <2>3. /\ Append(chain[c], k) \in Seq(Nodes) /\ OneEach(Append(chain[c], k))
        /\ \A x : In(x, Append(chain[c], k)) <=> In(x, chain[c]) \/ x = k
        /\ \A j \in DOMAIN chain[c] : Append(chain[c], k)[j] = chain[c][j]
    BY ONLY <1>3, <1>7, <2>2, AppendLemma
  <2>4. 1 \in DOMAIN chain[c] /\ chain[c][1] = 0
    BY <1>3, <1>6
  <2> QED
    BY <2>1, <2>3, <2>4
<1>9. /\ down'[c] \in Seq(Replies) /\ Fewer(down'[c], down[c], i)
      /\ \A d \in Clients \ {c} : down'[d] = down[d]
  <2>1. /\ down'[c] = Without(down[c], i)
        /\ \A d \in Clients \ {c} : down'[d] = down[d]
    BY <1>1, <1>5 DEF Types
  <2> QED
    BY <1>3, <2>1, WithoutLemma
<1>10. Types'
  <2>1. chain' \in [Clients -> Seq(Nodes)]
    BY <1>1, <1>5, <1>8 DEF Types
  <2>2. down' \in [Clients -> Seq(Replies)]
    BY <1>1, <1>5, <1>9 DEF Types
  <2>3. [call |-> m.call, value |-> m.value]
          \in [call : AllCalls \cup {<<>>}, value : ReplyValues]
    BY <1>3 DEF Replies, m
  <2>4. buf' \in [Callers -> [call : AllCalls \cup {<<>>}, value : ReplyValues]]
    <3>1. buf \in [Callers -> [call : AllCalls \cup {<<>>}, value : ReplyValues]]
      BY <1>1 DEF Types
    <3> QED
      BY ONLY <1>5, <2>3, <3>1
  <2>5. pending' \in [Callers -> {0, 1}]
    <3>1. pending \in [Callers -> {0, 1}]
      BY <1>1 DEF Types
    <3>2. pending' = [pending EXCEPT ![p] = 0]
      BY <1>5
    <3> QED
      BY ONLY <3>1, <3>2
  <2> QED
    BY <1>1, <1>5, <1>6, <2>1, <2>2, <2>4, <2>5 DEF Types, worker
<1>11. ChainShape'
  <2>1. ASSUME NEW d \in Clients, NEW j \in Cors
        PROVE  In(j, chain'[d]) <=>
                 \/ phase'[<<d, j>>] = "idle"
                 \/ phase'[<<d, j>>] = "called" /\ pending'[<<d, j>>] = 0
    <3>1. CASE <<d, j>> = p
      BY <1>1, <1>4, <1>5, <1>6, <1>8, <3>1 DEF Types, p
    <3>2. CASE <<d, j>> # p
      BY <1>1, <1>5, <1>6, <1>8, <3>2, CallersLemma DEF Types, ChainShape, p
    <3> QED
      BY <3>1, <3>2
  <2>2. ASSUME NEW d \in Clients
        PROVE  /\ OneEach(chain'[d])
               /\ chain'[d] # <<>> => \/ chain'[d][Len(chain'[d])] = 0
                                      \/ chain'[d][1] = 0 /\ ~ stopped'[d]
    BY <1>1, <1>6, <1>8 DEF ChainShape
  <2> QED
    BY <2>1, <2>2 DEF ChainShape
<1>12. NoStrayReply' /\ Sessions'
  BY <1>1, <1>5, <1>6 DEF NoStrayReply, Sessions, worker
<1>13. Ledger'
  BY <1>1, <1>4, <1>5, <1>6 DEF Types, Ledger, Last, worker
<1>14. Upwards'
  <2>1. \A d \in Clients : \A j \in DOMAIN up[d] : up[d][j].type = "req" =>
          <<d, up[d][j].cor>> # p
    BY <1>1, <1>4 DEF Upwards
  <2> QED
    BY <1>1, <1>5, <1>6, <2>1 DEF Types, Upwards, Last, worker
<1>15. Downwards'
  <2>1. ASSUME NEW d \in Clients, NEW j \in DOMAIN down'[d]
        PROVE  LET q == <<d, down'[d][j].cor>>
               IN  /\ q \in Callers /\ down'[d][j].call = <<q[1], q[2], made'[q]>>
                   /\ ran'[q] = made'[q] /\ pending'[q] = 1
    <3>1. PICK n \in DOMAIN down[d] : down'[d][j] = down[d][n] /\ (d = c => n # i)
      BY <1>9, <2>1 DEF Fewer
    <3>2. LET q == <<d, down[d][n].cor>>
          IN  /\ q \in Callers /\ down[d][n].call = Last(q)
              /\ ran[q] = made[q] /\ pending[q] = 1
      BY <1>1 DEF Downwards
    <3>3. <<d, down[d][n].cor>> # p
      BY <1>1, <1>3, <3>1 DEF Downwards, p, k, m
    <3> QED
      BY <1>1, <1>5, <1>6, <3>1, <3>2, <3>3 DEF Types, Last, worker
  <2>2. ASSUME NEW d \in Clients, NEW j \in DOMAIN down'[d], NEW n \in DOMAIN down'[d],
               down'[d][j].cor = down'[d][n].cor
        PROVE  j = n
    <3>1. CASE d = c
      BY <1>1, <1>9, <2>2, <3>1 DEF Downwards, Fewer
    <3>2. CASE d # c
      BY <1>1, <1>9, <2>2, <3>2 DEF Downwards
    <3> QED
      BY <3>1, <3>2
  <2> QED
    BY <2>1, <2>2 DEF Downwards, Last
<1> QED
  BY <1>10, <1>11, <1>12, <1>13, <1>14, <1>15 DEF RpcInv

\* A datagram that leaves a wire, to the server or for good, is one fewer on it.
LEMMA UpTaken ==
  ASSUME RpcInv, NEW c \in Clients, NEW i \in DOMAIN up[c],
         up' = [up EXCEPT ![c] = Without(@, i)]
  PROVE  /\ up' \in [Clients -> Seq(Requests \cup {ConnectRequest})]
         /\ Fewer(up'[c], up[c], i)
         /\ \A d \in Clients : d # c => up'[d] = up[d]
<1>1. up \in [Clients -> Seq(Requests \cup {ConnectRequest})]
  BY DEF RpcInv, Types
<1>2. /\ Without(up[c], i) \in Seq(Requests \cup {ConnectRequest})
      /\ Fewer(Without(up[c], i), up[c], i)
  BY <1>1, WithoutLemma
<1> QED
  BY <1>1, <1>2

\* A request that is no longer on its way has no other of its coroutine behind it.
LEMMA UpTakenKeeps ==
  ASSUME RpcInv, NEW c \in Clients, NEW i \in DOMAIN up[c],
         up' = [up EXCEPT ![c] = Without(@, i)], UNCHANGED <<made, ran>>
  PROVE  Upwards'
<1>1. Upwards /\ Fewer(up'[c], up[c], i) /\ \A d \in Clients : d # c => up'[d] = up[d]
  BY UpTaken DEF RpcInv
<1>2. ASSUME NEW d \in Clients, NEW j \in DOMAIN up'[d], up'[d][j].type = "req"
      PROVE  LET q == <<d, up'[d][j].cor>>
             IN  /\ q \in Callers /\ up'[d][j] = Request(<<q[1], q[2], made'[q]>>)
                 /\ ran'[q] # made'[q]
  <2>1. PICK n \in DOMAIN up[d] : up'[d][j] = up[d][n]
    BY <1>1, <1>2 DEF Fewer
  <2> QED
    BY <1>1, <1>2, <2>1 DEF Upwards, Last
<1>3. ASSUME NEW d \in Clients, NEW j \in DOMAIN up'[d], NEW n \in DOMAIN up'[d],
             up'[d][j].type = "req", up'[d][n].type = "req",
             up'[d][j].cor = up'[d][n].cor, j # n
      PROVE  FALSE
  <2>1. PICK x \in DOMAIN up[d], y \in DOMAIN up[d] :
          x # y /\ up'[d][j] = up[d][x] /\ up'[d][n] = up[d][y]
    BY <1>1, <1>3 DEF Fewer
  <2> QED
    BY <1>1, <1>3, <2>1 DEF Upwards
<1> QED
  BY <1>2, <1>3 DEF Upwards, Last

\* A Connect gives its thread the session of its id, which nobody else uses.
LEMMA ServeConnectKeeps ==
  ASSUME OneNode, RpcInv, NEW c \in Clients, ServeConnect(c)
  PROVE  RpcInv'
<1>1. /\ Types /\ ChainShape /\ NoStrayReply /\ Ledger /\ Upwards /\ Downwards
      /\ Sessions
  BY DEF RpcInv
<1>2. PICK i \in DOMAIN up[c] :
        /\ up' = [up EXCEPT ![c] = Without(@, i)]
        /\ sessions' = [sessions EXCEPT ![Sid[c]] = IF @ = NoClient THEN c ELSE @]
  BY DEF ServeConnect, Arriving
<1>3. UNCHANGED <<net, running, client, down, server, index, ran, seen>>
  BY DEF ServeConnect
<1>4. Upwards'
  BY <1>2, <1>3, UpTakenKeeps DEF client
<1>5. sessions' \in [Sids -> Clients \cup {NoClient}] /\ Sessions'
  <2>1. \A d \in Clients : Sid[d] \in Sids
    BY DEF Sids
  <2> QED
    BY <1>1, <1>2, <2>1 DEF Types, Sessions, OneNode
<1>6. Types'
  <2>1. up' \in [Clients -> Seq(Requests \cup {ConnectRequest})]
    BY <1>2, UpTaken
  <2> QED
    BY <1>1, <1>3, <1>5, <2>1 DEF Types, client
<1>7. ChainShape' /\ NoStrayReply' /\ Ledger' /\ Downwards'
  BY <1>1, <1>3 DEF ChainShape, NoStrayReply, Ledger, Downwards, Last, client
<1> QED
  BY <1>4, <1>5, <1>6, <1>7 DEF RpcInv

\* A datagram is lost: what is still on its way is what was, less one.
LEMMA LoseKeeps ==
  ASSUME RpcInv, NEW c \in Clients, Lose(c)
  PROVE  RpcInv'
<1>1. /\ Types /\ ChainShape /\ NoStrayReply /\ Ledger /\ Upwards /\ Downwards
      /\ Sessions
  BY DEF RpcInv
<1>2. UNCHANGED <<net, running, client, worker, seen>>
  BY DEF Lose
<1>3. ChainShape' /\ NoStrayReply' /\ Ledger' /\ Sessions'
  BY <1>1, <1>2 DEF ChainShape, NoStrayReply, Ledger, Sessions, Last, client, worker
<1>4. CASE UNCHANGED down /\ \E i \in DOMAIN up[c] :
                               up' = [up EXCEPT ![c] = Without(@, i)]
  <2>1. PICK i \in DOMAIN up[c] : up' = [up EXCEPT ![c] = Without(@, i)]
    BY <1>4
  <2>2. Upwards' /\ up' \in [Clients -> Seq(Requests \cup {ConnectRequest})]
    BY <1>2, <2>1, UpTaken, UpTakenKeeps DEF client, worker
  <2>3. Downwards'
    BY <1>1, <1>2, <1>4 DEF Downwards, Last, client, worker
  <2>4. Types'
    BY <1>1, <1>2, <1>4, <2>2 DEF Types, client, worker
  <2> QED
    BY <1>3, <2>2, <2>3, <2>4 DEF RpcInv
<1>5. CASE UNCHANGED up /\ \E i \in DOMAIN down[c] :
                             down' = [down EXCEPT ![c] = Without(@, i)]
  <2>1. PICK i \in DOMAIN down[c] : down' = [down EXCEPT ![c] = Without(@, i)]
    BY <1>5
  <2>2. down[c] \in Seq(Replies) /\ down \in [Clients -> Seq(Replies)]
    BY <1>1 DEF Types
  <2>3. Without(down[c], i) \in Seq(Replies) /\ Fewer(Without(down[c], i), down[c], i)
    BY <2>2, WithoutLemma
  <2>4. /\ down' \in [Clients -> Seq(Replies)] /\ Fewer(down'[c], down[c], i)
        /\ \A d \in Clients : d # c => down'[d] = down[d]
    BY <2>1, <2>2, <2>3
  <2>5. ASSUME NEW d \in Clients, NEW j \in DOMAIN down'[d]
        PROVE  \E n \in DOMAIN down[d] : down'[d][j] = down[d][n]
    BY <2>4, <2>5 DEF Fewer
  <2>6. ASSUME NEW d \in Clients, NEW j \in DOMAIN down'[d], NEW n \in DOMAIN down'[d],
               down'[d][j].cor = down'[d][n].cor
        PROVE  j = n
    BY <1>1, <2>4, <2>6 DEF Downwards, Fewer
  <2>7. Downwards'
    BY <1>1, <1>2, <2>5, <2>6 DEF Downwards, Last, client, worker
  <2>8. Upwards'
    BY <1>1, <1>2, <1>5 DEF Upwards, Last, client, worker
  <2>9. Types'
    BY <1>1, <1>2, <1>5, <2>4 DEF Types, client, worker
  <2> QED
    BY <1>3, <2>7, <2>8, <2>9 DEF RpcInv
<1> QED
  BY <1>4, <1>5 DEF Lose

\* What the server does with a request that has arrived: the facts that the proofs
\* of both invariants start from.
LEMMA ServeReqFacts ==
  ASSUME RpcInv, NEW c \in Clients, NEW i \in DOMAIN up[c], up[c][i].type = "req"
  PROVE  LET m == up[c][i]
             p == <<c, m.cor>>
         IN  /\ p \in Callers /\ m = Request(Last(p)) /\ m.cor \in Cors
             /\ Last(p) \in AllCalls /\ m.call = Last(p) /\ Caller(m.call) = p
             /\ m.args[1] = Asked[Last(p)].key /\ m.args[1] \in Keys
             /\ ran[p] = made[p] - 1 /\ pending[p] = 1 /\ phase[p] = "called"
             /\ made[p] > 0 /\ made[p] \in Nat
             /\ run(m)[1] \in Values /\ run(m)[2] \in ReplyValues
<1> DEFINE m == up[c][i]
           p == <<c, m.cor>>
<1>1. p \in Callers /\ m = Request(Last(p)) /\ ran[p] # made[p] /\ m.cor \in Cors
  BY DEF RpcInv, Upwards, Callers
<1>2. /\ ran[p] = made[p] - 1 /\ pending[p] = 1 /\ phase[p] = "called"
      /\ made[p] > 0 /\ made[p] \in Nat
  BY <1>1 DEF RpcInv, Ledger, Types
<1>3. Last(p) \in AllCalls
  BY <1>1, <1>2, CallersLemma DEF RpcInv
<1>4. /\ m.call = Last(p) /\ m.args[1] = Asked[Last(p)].key
      /\ Asked[Last(p)].key \in Keys
  BY <1>1, <1>3, RequestLemma
<1>5. Caller(m.call) = p
  BY <1>1, <1>4, CallersLemma DEF Caller, Last
<1>6. run(m)[1] \in Values /\ run(m)[2] \in ReplyValues
  BY <1>1, <1>3, RunLemma DEF RpcInv, Types
<1> QED
  BY <1>1, <1>2, <1>3, <1>4, <1>5, <1>6

\* A call is run once, and the reply goes to the thread that made it.
LEMMA ServeReqKeeps ==
  ASSUME RpcInv, NEW c \in Clients, ServeReq(c)
  PROVE  RpcInv'
<1>1. /\ Types /\ ChainShape /\ NoStrayReply /\ Ledger /\ Upwards /\ Downwards
      /\ Sessions
  BY DEF RpcInv
<1>2. PICK i \in DOMAIN up[c] :
        /\ up[c][i].type = "req"
        /\ up' = [up EXCEPT ![c] = Without(@, i)]
        /\ Ran(up[c][i])
        /\ IF sessions[Sid[c]] = NoClient
             THEN server' = "crashed" /\ UNCHANGED down
             ELSE /\ down' = [down EXCEPT ![sessions[Sid[c]]] =
                                Append(@, Reply(up[c][i], up[c][i].cor))]
                  /\ UNCHANGED server
  BY DEF ServeReq, Arriving
<1>3. UNCHANGED <<net, running, client, sessions>>
  BY DEF ServeReq
<1> DEFINE m == up[c][i]
           k == m.cor
           p == <<c, k>>
           reply == Reply(m, k)
<1>4. /\ p \in Callers /\ m = Request(Last(p)) /\ k \in Cors
      /\ Last(p) \in AllCalls /\ m.call = Last(p) /\ Caller(m.call) = p
      /\ m.args[1] \in Keys
      /\ ran[p] = made[p] - 1 /\ pending[p] = 1 /\ phase[p] = "called"
      /\ made[p] > 0 /\ made[p] \in Nat
      /\ run(m)[1] \in Values /\ run(m)[2] \in ReplyValues
  BY <1>2, ServeReqFacts
<1>5. /\ reply \in Replies /\ reply.cor = k /\ reply.call = Last(p)
      /\ reply.value = run(m)[2]
  BY <1>4 DEF Reply, Replies
<1>6. /\ ran' = [ran EXCEPT ![p] = @ + 1] /\ ran'[p] = made[p]
      /\ index' = [index EXCEPT ![m.args[1]] = run(m)[1]]
      /\ seen' \in [Callers -> SUBSET Values]
  <2>1. seen' \in [Callers -> SUBSET Values]
    BY <1>1, <1>2, <1>4 DEF Ran, Types
  <2>2. /\ ran' = [ran EXCEPT ![p] = @ + 1]
        /\ index' = [index EXCEPT ![m.args[1]] = run(m)[1]]
    BY <1>2, <1>4 DEF Ran
  <2>3. ran'[p] = made[p]
    BY <1>1, <1>4, <2>2 DEF Types
  <2> QED
    BY <2>1, <2>2, <2>3
<1>7. \/ down' = [down EXCEPT ![c] = Append(@, reply)] /\ UNCHANGED server
      \/ UNCHANGED down /\ server' = "crashed"
  BY <1>1, <1>2 DEF Sessions
<1> HIDE DEF m, k, p, reply
<1>8. /\ up' \in [Clients -> Seq(Requests \cup {ConnectRequest})]
      /\ Fewer(up'[c], up[c], i)
      /\ \A d \in Clients : d # c => up'[d] = up[d]
  BY <1>2, UpTaken
<1>9. /\ down' \in [Clients -> Seq(Replies)]
      /\ \A d \in Clients : \A j \in DOMAIN down'[d] :
           \/ j \in DOMAIN down[d] /\ down'[d][j] = down[d][j]
           \/ d = c /\ j = Len(down[c]) + 1 /\ down'[d][j] = reply
  <2>1. CASE UNCHANGED down
    BY <1>1, <2>1 DEF Types
  <2>2. CASE down' = [down EXCEPT ![c] = Append(@, reply)]
    <3>1. down[c] \in Seq(Replies) /\ down \in [Clients -> Seq(Replies)]
      BY <1>1 DEF Types
    <3>2. /\ Append(down[c], reply) \in Seq(Replies)
          /\ Append(down[c], reply)[Len(down[c]) + 1] = reply
          /\ \A j \in DOMAIN down[c] : Append(down[c], reply)[j] = down[c][j]
          /\ DOMAIN Append(down[c], reply) = DOMAIN down[c] \cup {Len(down[c]) + 1}
      BY <1>5, <3>1, AppendLemma
    <3>3. /\ down'[c] = Append(down[c], reply)
          /\ \A d \in Clients : d # c => down'[d] = down[d]
      BY <2>2, <3>1
    <3>4. down' \in [Clients -> Seq(Replies)]
      BY <2>2, <3>1, <3>2
    <3> QED
      BY <3>2, <3>3, <3>4
  <2> QED
    BY <1>7, <2>1, <2>2
<1>10. Types'
  <2>1. ran' \in [Callers -> Nat] /\ index' \in [Keys -> Values]
    BY <1>1, <1>4, <1>6 DEF Types
  <2>2. server' \in {"serving", "ended", "crashed"}
    BY <1>1, <1>7 DEF Types
  <2> QED
    BY <1>1, <1>3, <1>6, <1>8, <1>9, <2>1, <2>2 DEF Types, client
<1>11. ChainShape' /\ NoStrayReply' /\ Sessions'
  BY <1>1, <1>3 DEF ChainShape, NoStrayReply, Sessions, client
<1>12. Ledger'
  BY <1>1, <1>3, <1>4, <1>6 DEF Types, Ledger, Last, client
<1>13. Upwards'
  <2>1. ASSUME NEW d \in Clients, NEW j \in DOMAIN up'[d], up'[d][j].type = "req"
        PROVE  LET q == <<d, up'[d][j].cor>>
               IN  /\ q \in Callers /\ up'[d][j] = Request(<<q[1], q[2], made[q]>>)
                   /\ ran'[q] # made[q]
    <3>1. PICK n \in DOMAIN up[d] : up'[d][j] = up[d][n] /\ (d = c => n # i)
      BY <1>8, <2>1 DEF Fewer
    <3>2. LET q == <<d, up[d][n].cor>>
          IN  q \in Callers /\ up[d][n] = Request(Last(q)) /\ ran[q] # made[q]
      BY <1>1, <2>1, <3>1 DEF Upwards
    <3>3. <<d, up[d][n].cor>> # p
      BY <1>1, <1>2, <2>1, <3>1 DEF Upwards, p, k, m
    <3> QED
      BY <1>1, <1>6, <3>1, <3>2, <3>3 DEF Types, Last
  <2>2. ASSUME NEW d \in Clients, NEW j \in DOMAIN up'[d], NEW n \in DOMAIN up'[d],
               up'[d][j].type = "req", up'[d][n].type = "req",
               up'[d][j].cor = up'[d][n].cor
        PROVE  j = n
    BY <1>1, <1>8, <2>2 DEF Upwards, Fewer
  <2>3. made' = made
    BY <1>3 DEF client
  <2> QED
    BY <2>1, <2>2, <2>3 DEF Upwards, Last
<1>14. Downwards'
  <2>1. \A d \in Clients : \A j \in DOMAIN down[d] : <<d, down[d][j].cor>> # p
    BY <1>1, <1>4 DEF Downwards
  <2>2. made' = made /\ pending' = pending
    BY <1>3 DEF client
  <2>3. ASSUME NEW d \in Clients, NEW j \in DOMAIN down'[d]
        PROVE  LET q == <<d, down'[d][j].cor>>
               IN  /\ q \in Callers /\ down'[d][j].call = <<q[1], q[2], made[q]>>
                   /\ ran'[q] = made[q] /\ pending[q] = 1
    <3>1. CASE j \in DOMAIN down[d] /\ down'[d][j] = down[d][j]
      BY <1>1, <1>6, <2>1, <3>1 DEF Types, Downwards, Last
    <3>2. CASE d = c /\ j = Len(down[c]) + 1 /\ down'[d][j] = reply
      BY <1>4, <1>5, <1>6, <3>2 DEF Last, p
    <3> QED
      BY <1>9, <3>1, <3>2
  <2>4. ASSUME NEW d \in Clients, NEW j \in DOMAIN down'[d], NEW n \in DOMAIN down'[d],
               down'[d][j].cor = down'[d][n].cor
        PROVE  j = n
    BY <1>1, <1>5, <1>9, <2>1, <2>4 DEF Downwards, p
  <2> QED
    BY <2>2, <2>3, <2>4 DEF Downwards, Last
<1> QED
  BY <1>10, <1>11, <1>12, <1>13, <1>14 DEF RpcInv

\* Every step of the threads of one compute node, of their server worker and of the
\* network keeps the books of the calls.
LEMMA NextRpc == OneNode /\ RpcInv /\ [Next]_vars => RpcInv'
<1> SUFFICES ASSUME OneNode, RpcInv, [Next]_vars PROVE RpcInv'
  OBVIOUS
<1>1. CASE EndServer \/ ClearRunning \/ UNCHANGED vars
  <2>1. Types'
    BY <1>1 DEF EndServer, ClearRunning, vars, RpcInv, Types, client, worker
  <2>2. UNCHANGED <<client, up, down, sessions, ran>>
    BY <1>1 DEF EndServer, ClearRunning, vars, worker
  <2>3. ChainShape' /\ NoStrayReply' /\ Ledger' /\ Sessions'
    BY <2>2 DEF RpcInv, ChainShape, NoStrayReply, Ledger, Sessions, Last, client
  <2>4. Upwards' /\ Downwards'
    BY <2>2 DEF RpcInv, Upwards, Downwards, Last, client
  <2> QED
    BY <2>1, <2>3, <2>4 DEF RpcInv
<1>2. ASSUME NEW c \in Clients, ClientStep(c) PROVE RpcInv'
  BY <1>2, CallKeeps, ResumeKeeps, ExitKeeps, PollerKeeps DEF ClientStep
<1>3. ASSUME NEW c \in Clients, Poll(c) PROVE RpcInv'
  BY <1>3, PollKeeps
<1>4. ASSUME NEW c \in Clients, ServerStep(c) PROVE RpcInv'
  BY <1>4, ServeConnectKeeps, ServeReqKeeps DEF ServerStep
<1>5. ASSUME NEW c \in Clients, Lose(c) PROVE RpcInv'
  BY <1>5, LoseKeeps
<1> QED
  BY <1>1, <1>2, <1>3, <1>4, <1>5 DEF Next
-----------------------------------------------------------------------------
\* The variables have their types, and the list of a scheduler holds a coroutine once.
THEOREM RpcTypes ==
  ASSUME OneNode
  PROVE  Spec => []TypeOK
<1>1. RpcInv => TypeOK
  <2> SUFFICES ASSUME RpcInv PROVE TypeOK
    OBVIOUS
  <2>1. Types /\ ChainShape /\ Ledger
    BY DEF RpcInv
  <2>2. ASSUME NEW c \in Clients
        PROVE  /\ chain[c] \in UNION {[1 .. n -> 0 .. Coros] : n \in 0 .. Coros + 1}
               /\ \A i, j \in DOMAIN chain[c] : chain[c][i] = chain[c][j] => i = j
    <3>1. chain[c] \in Seq(Nodes) /\ OneEach(chain[c])
      BY <2>1 DEF Types, ChainShape
    <3>2. Len(chain[c]) \in Nat /\ chain[c] \in [1 .. Len(chain[c]) -> Nodes]
      BY <3>1
    <3>3. Len(chain[c]) \in 0 .. Coros + 1
      BY <3>1, <3>2, ChainBound, RpcAssumption
    <3> QED
      BY <3>1, <3>2, <3>3 DEF OneEach, Nodes
  <2>3. ASSUME NEW p \in Callers
        PROVE  /\ made[p] \in 0 .. MaxCalls /\ ran[p] \in Nat
               /\ buf[p].call \in Calls \cup {<<>>}
               /\ buf[p].value \in {Uninit} \cup [status : BOOLEAN, val : Values]
               /\ seen[p] \subseteq Values
    <3>1. made[p] \in 0 .. MaxCalls /\ ran[p] \in Nat /\ seen[p] \subseteq Values
          /\ buf[p].value \in {Uninit} \cup [status : BOOLEAN, val : Values]
      BY <2>1 DEF Types, ReplyValues
    <3>2. CASE buf[p].call = Last(p) /\ made[p] > 0
      <4>1. made[p] \in 1 .. made[p]
        BY <3>1, <3>2
      <4>2. Last(p) = Append(p, made[p])
        BY LastLemma
      <4>3. Append(p, made[p]) \in Calls
        BY <4>1 DEF Calls
      <4> QED
        BY <3>1, <3>2, <4>2, <4>3
    <3> QED
      BY <2>1, <3>1, <3>2 DEF Ledger
  <2>4. /\ net \in Nets /\ running \in BOOLEAN
        /\ stopped \in [Clients -> BOOLEAN] /\ failed \in [Clients -> BOOLEAN]
        /\ phase \in [Callers -> {"idle", "called", "exited"}]
        /\ pending \in [Callers -> 0 .. 1]
        /\ index \in [Keys -> Values]
        /\ sessions \in [Sids -> Clients \cup {NoClient}]
        /\ server \in {"serving", "ended", "crashed"}
    BY <2>1 DEF Types
  <2> QED
    BY <2>2, <2>3, <2>4 DEF TypeOK
<1>2. RpcInv /\ [Next]_vars => RpcInv'
  BY NextRpc
<1> QED
  BY InitRpc, <1>1, <1>2, PTL DEF Spec

\* A coroutine that remote_search or its like returns to finds the reply to this very
\* call in its buffer, over any network, and nothing pending.
THEOREM ReplyIsOwn ==
  ASSUME OneNode
  PROVE  Spec => []OwnReply
<1>1. RpcInv => OwnReply
  <2> SUFFICES ASSUME RpcInv, NEW p \in Callers, phase[p] = "called", InChain(p)
               PROVE  pending[p] = 0 /\ buf[p].call = Append(p, made[p])
    BY DEF OwnReply
  <2>1. p[1] \in Clients /\ p[2] \in Cors /\ p = <<p[1], p[2]>>
    BY CallersLemma
  <2>2. In(p[2], chain[p[1]])
    BY DEF InChain, In
  <2>3. pending[p] = 0
    BY <2>1, <2>2 DEF RpcInv, ChainShape
  <2>4. buf[p].call = Last(p)
    BY <2>3 DEF RpcInv, Ledger
  <2> QED
    BY <2>3, <2>4, LastLemma
<1>2. RpcInv /\ [Next]_vars => RpcInv'
  BY NextRpc
<1> QED
  BY InitRpc, <1>1, <1>2, PTL DEF Spec

\* The ASSERT on append_reply never fails: no reply comes to a coroutine that expects
\* none.
THEOREM NoReplyStrays ==
  ASSUME OneNode
  PROVE  Spec => []NoStrayReply
<1>1. RpcInv => NoStrayReply
  BY DEF RpcInv
<1>2. RpcInv /\ [Next]_vars => RpcInv'
  BY NextRpc
<1> QED
  BY InitRpc, <1>1, <1>2, PTL DEF Spec

\* Coroutine 0, the header of the scheduler's list, is the last to leave it.
THEOREM HeaderLeavesLast ==
  ASSUME OneNode
  PROVE  Spec => []PollerLast
<1>1. RpcInv => PollerLast
  <2> SUFFICES ASSUME RpcInv, NEW c \in Clients, chain[c] # <<>>
               PROVE  \E i \in DOMAIN chain[c] : chain[c][i] = 0
    BY DEF PollerLast
  <2>1. chain[c] \in Seq(Nodes)
    BY DEF RpcInv, Types
  <2>2. 1 \in DOMAIN chain[c] /\ Len(chain[c]) \in DOMAIN chain[c]
    BY <2>1
  <2> QED
    BY <2>2 DEF RpcInv, ChainShape
<1>2. RpcInv /\ [Next]_vars => RpcInv'
  BY NextRpc
<1> QED
  BY InitRpc, <1>1, <1>2, PTL DEF Spec
-----------------------------------------------------------------------------
\* A Connect that is neither lost nor overtaken stays in front of its wire until the
\* session is there.
LEMMA NextConnect ==
  OneNode /\ RpcInv /\ ConnectFirst /\ [Next]_vars => ConnectFirst'
<1> SUFFICES ASSUME OneNode, RpcInv, ConnectFirst, [Next]_vars,
                    "connect" \notin net'.loses \cup net'.overtaken
             PROVE  /\ server' # "crashed"
                    /\ \A c \in Clients : sessions'[Sid[c]] = NoClient =>
                         up'[c] # <<>> /\ up'[c][1] = ConnectRequest
  BY DEF ConnectFirst
<1>1. net' = net
  BY DEF Next, ClientStep, ServerStep, Call, Resume, Exit, Yield, PollerExit, Poll,
         ServeConnect, ServeReq, Lose, EndServer, ClearRunning, vars
<1>2. /\ server # "crashed"
      /\ \A c \in Clients : sessions[Sid[c]] = NoClient =>
           up[c] # <<>> /\ up[c][1] = ConnectRequest
  BY <1>1 DEF ConnectFirst
<1>3. \A c \in Clients : up[c] \in Seq(Requests \cup {ConnectRequest})
  BY DEF RpcInv, Types
<1>4. ASSUME NEW c \in Clients, NEW i \in Arriving(up[c]), sessions[Sid[c]] = NoClient
      PROVE  up[c][i].type = "connect"
  <2>1. i \in DOMAIN up[c] /\ up[c][1].type = "connect" /\ 1 \in DOMAIN up[c]
    BY <1>2, <1>3, <1>4 DEF Arriving, ConnectRequest
  <2>2. i = 1 \/ up[c][1].type \in net.overtaken
    BY <1>3, <2>1 DEF Arriving
  <2> QED
    BY <1>1, <2>1, <2>2
<1>5. ASSUME NEW c \in Clients, NEW k \in Cors, Call(c, k)
      PROVE  server' # "crashed" /\ \A d \in Clients : sessions'[Sid[d]] = NoClient =>
               up'[d] # <<>> /\ up'[d][1] = ConnectRequest
  <2>1. /\ up' = [up EXCEPT ![c] = Append(@, Request(<<c, k, made[<<c, k>>] + 1>>))]
        /\ UNCHANGED worker
    BY <1>5 DEF Call
  <2>2. up \in [Clients -> Seq(Requests \cup {ConnectRequest})]
    BY DEF RpcInv, Types
  <2>3. /\ up'[c] = Append(up[c], Request(<<c, k, made[<<c, k>>] + 1>>))
        /\ \A d \in Clients : d # c => up'[d] = up[d]
    BY <2>1, <2>2
  <2>4. ASSUME up[c] # <<>> PROVE up'[c] # <<>> /\ up'[c][1] = up[c][1]
    BY <1>3, <2>3, <2>4
  <2> QED
    BY <1>2, <2>1, <2>3, <2>4 DEF worker
<1>6. ASSUME NEW c \in Clients, ServeConnect(c)
      PROVE  server' # "crashed" /\ \A d \in Clients : sessions'[Sid[d]] = NoClient =>
               up'[d] # <<>> /\ up'[d][1] = ConnectRequest
  <2>1. PICK i \in DOMAIN up[c] :
          /\ up' = [up EXCEPT ![c] = Without(@, i)]
          /\ sessions' = [sessions EXCEPT ![Sid[c]] = IF @ = NoClient THEN c ELSE @]
    BY <1>6 DEF ServeConnect, Arriving
  <2>2. \A d \in Clients : d # c => up'[d] = up[d]
    BY <2>1, UpTaken
  <2>3. /\ sessions \in [Sids -> Clients \cup {NoClient}]
        /\ \A d \in Clients : Sid[d] \in Sids
    BY DEF RpcInv, Types, Sids
  <2>4. sessions'[Sid[c]] # NoClient
    BY <2>1, <2>3, RpcAssumption
  <2>5. \A d \in Clients : d # c => sessions'[Sid[d]] = sessions[Sid[d]]
    BY <2>1, <2>3 DEF OneNode
  <2>6. UNCHANGED server
    BY <1>6 DEF ServeConnect
  <2> QED
    BY <1>2, <2>2, <2>4, <2>5, <2>6
<1>7. ASSUME NEW c \in Clients, ServeReq(c)
      PROVE  server' # "crashed" /\ \A d \in Clients : sessions'[Sid[d]] = NoClient =>
               up'[d] # <<>> /\ up'[d][1] = ConnectRequest
  <2>1. PICK i \in Arriving(up[c]) :
          /\ up[c][i].type = "req"
          /\ up' = [up EXCEPT ![c] = Without(@, i)]
          /\ sessions[Sid[c]] # NoClient => UNCHANGED server
    BY <1>7 DEF ServeReq
  <2>2. sessions[Sid[c]] # NoClient
    BY <1>4, <2>1
  <2>3. i \in DOMAIN up[c]
    BY DEF Arriving
  <2>4. \A d \in Clients : d # c => up'[d] = up[d]
    BY <2>1, <2>3, UpTaken
  <2>5. UNCHANGED sessions
    BY <1>7 DEF ServeReq
  <2> QED
    BY <1>2, <2>1, <2>2, <2>4, <2>5
<1>8. ASSUME NEW c \in Clients, Lose(c)
      PROVE  server' # "crashed" /\ \A d \in Clients : sessions'[Sid[d]] = NoClient =>
               up'[d] # <<>> /\ up'[d][1] = ConnectRequest
  <2>1. UNCHANGED worker
    BY <1>8 DEF Lose
  <2>2. CASE UNCHANGED up
    BY <1>2, <2>1, <2>2 DEF worker
  <2>3. CASE \E i \in DOMAIN up[c] : /\ up[c][i].type \in net.loses
                                     /\ up' = [up EXCEPT ![c] = Without(@, i)]
    <3>1. PICK i \in DOMAIN up[c] : /\ up[c][i].type \in net.loses
                                    /\ up' = [up EXCEPT ![c] = Without(@, i)]
      BY <2>3
    <3>2. Fewer(up'[c], up[c], i) /\ \A d \in Clients : d # c => up'[d] = up[d]
      BY <3>1, UpTaken
    <3>3. sessions[Sid[c]] = NoClient => i # 1
      BY <1>1, <1>2, <3>1 DEF ConnectRequest
    <3> QED
      BY <1>2, <2>1, <3>2, <3>3 DEF worker, Fewer
  <2> QED
    BY <1>8, <2>2, <2>3 DEF Lose
<1>9. CASE UNCHANGED <<up, sessions, server>> \/ EndServer
  BY <1>2, <1>9 DEF EndServer
<1> QED
  BY <1>5, <1>6, <1>7, <1>8, <1>9
  DEF Next, ClientStep, ServerStep, Resume, Exit, Yield, PollerExit, Poll,
      ClearRunning, vars, worker

\* The channel that a callback replies through is there, if the Connect is neither lost
\* nor overtaken.
THEOREM SessionIsKnown ==
  ASSUME OneNode
  PROVE  Spec => []SessionKnown
<1>1. Init => ConnectFirst
  <2> SUFFICES ASSUME Init PROVE ConnectFirst
    OBVIOUS
  <2>1. \A c \in Clients : up[c] = <<ConnectRequest>>
    BY DEF Init
  <2>2. \A c \in Clients : up[c] # <<>> /\ up[c][1] = ConnectRequest
    BY <2>1
  <2> QED
    BY <2>2 DEF Init, ConnectFirst
<1>2. ConnectFirst => SessionKnown
  BY DEF ConnectFirst, SessionKnown
<1>3. RpcInv /\ [Next]_vars => RpcInv'
  BY NextRpc
<1>4. RpcInv /\ ConnectFirst /\ [Next]_vars => ConnectFirst'
  BY NextConnect
<1> QED
  BY InitRpc, <1>1, <1>2, <1>3, <1>4, PTL DEF Spec
-----------------------------------------------------------------------------
\* What a call has seen or taken stays so while its key goes on to have more values.
LEMMA EffectStays ==
  ASSUME NEW call, NEW value, NEW room, NEW had, NEW more, had \subseteq more
  PROVE  /\ Got(call, value, had) => Got(call, value, more)
         /\ Took(call, room, had) => Took(call, room, more)
BY DEF Got, Took

\* Every step keeps the effects of the calls under way.
LEMMA NextEffect == RpcInv /\ EffectInv /\ [Next]_vars => EffectInv'
<1> SUFFICES ASSUME RpcInv, EffectInv, [Next]_vars PROVE EffectInv'
  OBVIOUS
<1>1. /\ Types /\ Ledger /\ Downwards
      /\ \A p \in Callers : phase[p] = "called" =>
           /\ index[Asked[Last(p)].key] \in seen[p]
           /\ ran[p] = made[p] => Took(Last(p), net.room, seen[p])
           /\ pending[p] = 0 => Got(Last(p), buf[p].value, seen[p])
      /\ \A c \in Clients : \A i \in DOMAIN down[c] :
           LET p == <<c, down[c][i].cor>>
           IN  Got(Last(p), down[c][i].value, seen[p])
  BY DEF RpcInv, EffectInv
<1>2. ASSUME NEW c \in Clients, NEW k \in Cors, Call(c, k) PROVE EffectInv'
  <2> DEFINE p == <<c, k>>
             call == <<c, k, made[p] + 1>>
  <2>1. /\ p \in Callers /\ phase[p] = "idle"
        /\ phase' = [phase EXCEPT ![p] = "called"]
        /\ made' = [made EXCEPT ![p] = @ + 1]
        /\ seen' = [seen EXCEPT ![p] = {index[Asked[call].key]}]
        /\ UNCHANGED <<net, down, worker>>
    BY <1>2, CallersLemma DEF Call
  <2>2. /\ pending[p] = 0 /\ ran[p] = made[p] /\ made[p] \in Nat
        /\ pending' = [pending EXCEPT ![p] = 1]
        /\ buf' = [buf EXCEPT ![p] = NoReply]
    <3>1. pending[p] = 0 /\ ran[p] = made[p] /\ made[p] \in Nat
      BY <1>1, <2>1 DEF Types, Ledger
    <3> QED
      BY <1>2, <3>1 DEF Call, add_pending_reply, cor_ready
  <2>3. /\ Last(p)' = call /\ seen'[p] = {index[Asked[call].key]}
        /\ ran'[p] # made'[p] /\ pending'[p] = 1 /\ index' = index
    BY <1>1, <2>1, <2>2 DEF Types, Last, worker
  <2> HIDE DEF p, call
  <2>4. ASSUME NEW q \in Callers, q # p
        PROVE  /\ Last(q)' = Last(q) /\ seen'[q] = seen[q] /\ phase'[q] = phase[q]
               /\ made'[q] = made[q] /\ ran'[q] = ran[q] /\ pending'[q] = pending[q]
               /\ buf'[q] = buf[q]
    BY <1>1, <2>1, <2>2, <2>4 DEF Types, Last, worker
  <2>5. ASSUME NEW q \in Callers, phase'[q] = "called"
        PROVE  /\ index'[Asked[Last(q)'].key] \in seen'[q]
               /\ ran'[q] = made'[q] => Took(Last(q)', net'.room, seen'[q])
               /\ pending'[q] = 0 => Got(Last(q)', buf'[q].value, seen'[q])
    <3>1. CASE q = p
      BY <2>3, <3>1
    <3>2. CASE q # p
      BY <1>1, <2>1, <2>3, <2>4, <2>5, <3>2
    <3> QED
      BY <3>1, <3>2
  <2>6. ASSUME NEW d \in Clients, NEW j \in DOMAIN down[d]
        PROVE  LET q == <<d, down[d][j].cor>>
               IN  Got(<<q[1], q[2], made'[q]>>, down[d][j].value, seen'[q])
    <3>1. <<d, down[d][j].cor>> \in Callers /\ <<d, down[d][j].cor>> # p
      BY <1>1, <2>2 DEF Downwards
    <3> QED
      BY <1>1, <2>4, <3>1 DEF Last
  <2> QED
    BY <2>1, <2>5, <2>6 DEF EffectInv, Last
<1>3. ASSUME NEW c \in Clients, NEW k \in Cors, Resume(c, k) PROVE EffectInv'
  <2> DEFINE p == <<c, k>>
  <2>1. /\ p \in Callers
        /\ phase' = [phase EXCEPT ![p] = "idle"]
        /\ seen' = [seen EXCEPT ![p] = {}]
        /\ UNCHANGED <<net, made, pending, buf, down, worker>>
    BY <1>3, CallersLemma DEF Resume
  <2>2. pending[p] = 0
    <3>1. In(k, chain[c])
      <4>1. chain[c] \in Seq(Nodes) /\ chain[c] # <<>> /\ Head(chain[c]) = k
        BY <1>1, <1>3 DEF Types, Resume, Current
      <4> QED
        BY <4>1 DEF In
    <3>2. phase[p] = "called"
      BY <1>3 DEF Resume
    <3> QED
      BY <3>1, <3>2 DEF RpcInv, ChainShape
  <2> HIDE DEF p
  <2>3. ASSUME NEW q \in Callers, q # p
        PROVE  seen'[q] = seen[q] /\ phase'[q] = phase[q]
    BY <1>1, <2>1, <2>3 DEF Types
  <2>4. phase'[p] # "called"
    BY <1>1, <2>1 DEF Types
  <2>5. \A d \in Clients : \A j \in DOMAIN down[d] :
          <<d, down[d][j].cor>> \in Callers /\ <<d, down[d][j].cor>> # p
    BY <1>1, <2>2 DEF Downwards
  <2> QED
    BY <1>1, <2>1, <2>3, <2>4, <2>5 DEF EffectInv, Last, worker
<1>4. ASSUME NEW c \in Clients, Poll(c) PROVE EffectInv'
  <2>1. PICK i \in DOMAIN down[c] :
          LET p == <<c, down[c][i].cor>>
          IN  /\ down' = [down EXCEPT ![c] = Without(@, i)]
              /\ ~ cor_ready(p) => append_reply(p, down[c][i])
    BY <1>4 DEF Poll, Arriving
  <2>2. UNCHANGED <<net, phase, made, worker, seen>>
    BY <1>4 DEF Poll
  <2> DEFINE m == down[c][i]
             p == <<c, m.cor>>
  <2>3. p \in Callers /\ m.call = Last(p) /\ pending[p] = 1
    BY <1>1 DEF Downwards
  <2>4. /\ pending' = [pending EXCEPT ![p] = @ - 1]
        /\ buf' = [buf EXCEPT ![p] = [call |-> m.call, value |-> m.value]]
    BY <2>1, <2>3 DEF cor_ready, append_reply
  <2>5. Got(Last(p), m.value, seen[p])
    BY <1>1
  <2> HIDE DEF m, p
  <2>6. buf'[p].value = m.value /\ \A q \in Callers : q # p => buf'[q] = buf[q]
          /\ pending'[q] = pending[q]
    BY <1>1, <2>3, <2>4 DEF Types
  <2>7. ASSUME NEW d \in Clients, NEW j \in DOMAIN down'[d]
        PROVE  \E n \in DOMAIN down[d] : down'[d][j] = down[d][n]
    <3>1. down \in [Clients -> Seq(Replies)] /\ down[c] \in Seq(Replies)
      BY <1>1 DEF Types
    <3>2. Fewer(Without(down[c], i), down[c], i)
      BY <3>1, WithoutLemma
    <3> QED
      BY <2>1, <2>7, <3>1, <3>2 DEF Fewer
  <2>8. ASSUME NEW d \in Clients, NEW j \in DOMAIN down'[d]
        PROVE  LET q == <<d, down'[d][j].cor>>
               IN  Got(Last(q), down'[d][j].value, seen[q])
    BY <1>1, <2>7
  <2>9. ASSUME NEW q \in Callers, phase[q] = "called", pending'[q] = 0
        PROVE  Got(Last(q), buf'[q].value, seen[q])
    BY <1>1, <2>5, <2>6, <2>9
  <2> QED
    BY <1>1, <2>2, <2>8, <2>9 DEF EffectInv, Last, worker
<1>5. ASSUME NEW c \in Clients, ServeReq(c) PROVE EffectInv'
  <2>1. PICK i \in DOMAIN up[c] :
          /\ up[c][i].type = "req"
          /\ Ran(up[c][i])
          /\ IF sessions[Sid[c]] = NoClient
               THEN server' = "crashed" /\ UNCHANGED down
               ELSE /\ down' = [down EXCEPT ![sessions[Sid[c]]] =
                                  Append(@, Reply(up[c][i], up[c][i].cor))]
                    /\ UNCHANGED server
    BY <1>5 DEF ServeReq, Arriving
  <2>2. net' = net /\ phase' = phase /\ made' = made /\ pending' = pending /\ buf' = buf
    BY <1>5 DEF ServeReq, client
  <2> DEFINE m == up[c][i]
             p == <<c, m.cor>>
             key == m.args[1]
  <2>3. /\ p \in Callers /\ m = Request(Last(p)) /\ m.cor \in Cors
        /\ Last(p) \in AllCalls /\ m.call = Last(p) /\ Caller(m.call) = p
        /\ key = Asked[Last(p)].key /\ key \in Keys
        /\ ran[p] = made[p] - 1 /\ pending[p] = 1 /\ phase[p] = "called"
        /\ made[p] \in Nat
    BY <2>1, ServeReqFacts
  <2>4. /\ ran' = [ran EXCEPT ![p] = @ + 1]
        /\ index' = [index EXCEPT ![key] = run(m)[1]]
        /\ seen' = [q \in Callers |->
                      IF phase[q] = "called" /\ Asked[Append(q, made[q])].key = key
                        THEN seen[q] \cup {run(m)[1]} ELSE seen[q]]
    BY <2>1, <2>3 DEF Ran
  <2>5. LET r == Asked[Last(p)]
        IN  /\ r.id = "GET" =>
                 /\ run(m)[2] # Uninit
                 /\ (IF run(m)[2].status THEN run(m)[2].val ELSE NoVal) = index[r.key]
            /\ r.id = "PUT" /\ net.room => run(m)[1] # NoVal
            /\ r.id = "UPDATE" => run(m)[1] \in {r.val, NoVal}
            /\ r.id = "DELETE" => run(m)[1] = NoVal
    BY <1>1, <2>3, RunLemma DEF Types
  <2>6. \/ down' = [down EXCEPT ![c] = Append(@, Reply(m, m.cor))]
        \/ UNCHANGED down
    BY <2>1 DEF RpcInv, Sessions
  <2> HIDE DEF m, p, key
  <2>7. \A q \in Callers :
          /\ seen[q] \subseteq seen'[q]
          /\ phase[q] = "called" /\ Asked[Last(q)].key = key => run(m)[1] \in seen'[q]
    BY <2>4, LastLemma
  <2>8. Took(Last(p), net.room, seen'[p]) /\ Got(Last(p), run(m)[2], seen'[p])
    <3>1. run(m)[1] \in seen'[p]
      BY <2>3, <2>7
    <3>2. index[Asked[Last(p)].key] \in seen'[p]
      BY <1>1, <2>3, <2>7
    <3>3. Took(Last(p), net.room, seen'[p])
      BY <2>5, <3>1 DEF Took
    <3>4. Got(Last(p), run(m)[2], seen'[p])
      BY <2>5, <3>2 DEF Got
    <3> QED
      BY <3>3, <3>4
  <2>9. ASSUME NEW q \in Callers, phase[q] = "called"
        PROVE  /\ index'[Asked[Last(q)].key] \in seen'[q]
               /\ ran'[q] = made[q] => Took(Last(q), net.room, seen'[q])
               /\ pending[q] = 0 => Got(Last(q), buf[q].value, seen'[q])
    <3>1. index'[Asked[Last(q)].key] \in seen'[q]
      <4>1. Asked[Last(q)].key \in Keys
        <5>1. made[q] > 0
          BY <1>1, <2>9 DEF Ledger
        <5>2. Last(q) \in AllCalls
          BY <1>1, <5>1, CallersLemma
        <5> QED
          BY <5>2, RequestLemma
      <4>2. CASE Asked[Last(q)].key = key
        BY <1>1, <2>3, <2>4, <2>7, <2>9, <4>2 DEF Types
      <4>3. CASE Asked[Last(q)].key # key
        BY <1>1, <2>4, <2>7, <2>9, <4>1, <4>3 DEF Types
      <4> QED
        BY <4>2, <4>3
    <3>2. ran'[q] = made[q] => Took(Last(q), net.room, seen'[q])
      <4>1. CASE q = p
        BY <2>8, <4>1
      <4>2. CASE q # p
        <5>1. ran'[q] = ran[q]
          BY <1>1, <2>4, <4>2 DEF Types
        <5> QED
          BY <1>1, <2>7, <2>9, <5>1, EffectStays
      <4> QED
        BY <4>1, <4>2
    <3>3. pending[q] = 0 => Got(Last(q), buf[q].value, seen'[q])
      BY <1>1, <2>7, <2>9, EffectStays
    <3> QED
      BY <3>1, <3>2, <3>3
  <2>10. ASSUME NEW d \in Clients, NEW j \in DOMAIN down'[d]
         PROVE  LET q == <<d, down'[d][j].cor>>
                IN  Got(Last(q), down'[d][j].value, seen'[q])
    <3>1. CASE j \in DOMAIN down[d] /\ down'[d][j] = down[d][j]
      <4>1. <<d, down[d][j].cor>> \in Callers
        BY <1>1, <3>1 DEF Downwards
      <4>2. LET q == <<d, down[d][j].cor>>
            IN  Got(Last(q), down[d][j].value, seen[q])
        BY <1>1, <3>1
      <4> QED
        BY <2>7, <3>1, <4>1, <4>2, EffectStays
    <3>2. CASE d = c /\ down'[d][j] = Reply(m, m.cor)
      <4>1. Reply(m, m.cor).cor = m.cor /\ Reply(m, m.cor).value = run(m)[2]
        BY DEF Reply
      <4> QED
        BY <2>8, <3>2, <4>1 DEF p
    <3>3. \/ j \in DOMAIN down[d] /\ down'[d][j] = down[d][j]
          \/ d = c /\ down'[d][j] = Reply(m, m.cor)
      <4>1. down \in [Clients -> Seq(Replies)] /\ down[c] \in Seq(Replies)
        BY <1>1 DEF Types
      <4>2. CASE UNCHANGED down
        BY <2>10, <4>2
      <4>3. CASE down' = [down EXCEPT ![c] = Append(@, Reply(m, m.cor))]
        <5>1. CASE d = c
          <6>1. down'[c] = Append(down[c], Reply(m, m.cor))
            BY <4>1, <4>3
          <6> QED
            BY <2>10, <4>1, <5>1, <6>1
        <5>2. CASE d # c
          BY <2>10, <4>1, <4>3, <5>2
        <5> QED
          BY <5>1, <5>2
      <4> QED
        BY <2>6, <4>2, <4>3
    <3> QED
      BY <3>1, <3>2, <3>3
  <2> QED
    BY <2>2, <2>9, <2>10 DEF EffectInv, Last
<1>6. ASSUME NEW c \in Clients, Lose(c) PROVE EffectInv'
  <2>1. UNCHANGED <<net, client, worker, seen>>
    BY <1>6 DEF Lose
  <2>2. ASSUME NEW d \in Clients, NEW j \in DOMAIN down'[d]
        PROVE  \E n \in DOMAIN down[d] : down'[d][j] = down[d][n]
    <3>1. down \in [Clients -> Seq(Replies)] /\ down[c] \in Seq(Replies)
      BY <1>1 DEF Types
    <3>2. CASE UNCHANGED down
      BY <2>2, <3>2
    <3>3. CASE \E i \in DOMAIN down[c] : down' = [down EXCEPT ![c] = Without(@, i)]
      <4>1. PICK i \in DOMAIN down[c] : down' = [down EXCEPT ![c] = Without(@, i)]
        BY <3>3
      <4>2. Fewer(Without(down[c], i), down[c], i)
        BY <3>1, WithoutLemma
      <4> QED
        BY <2>2, <3>1, <4>1, <4>2 DEF Fewer
    <3> QED
      BY <1>6, <3>2, <3>3 DEF Lose
  <2> QED
    BY <1>1, <2>1, <2>2 DEF EffectInv, Last, client, worker
<1>7. CASE \/ \E c \in Clients, k \in Cors : Exit(c, k)
           \/ \E c \in Clients : Yield(c) \/ PollerExit(c) \/ ServeConnect(c)
           \/ EndServer \/ ClearRunning \/ UNCHANGED vars
  <2>1. /\ UNCHANGED <<net, index, ran, seen, made, pending, buf, down>>
        /\ \A p \in Callers : phase'[p] = "called" => phase[p] = "called"
    <3>1. ASSUME NEW c \in Clients, NEW k \in Cors, Exit(c, k)
          PROVE  /\ UNCHANGED <<net, index, ran, seen, made, pending, buf, down>>
                 /\ \A p \in Callers : phase'[p] = "called" => phase[p] = "called"
      BY <1>1, <3>1 DEF Types, Exit, worker
    <3> QED
      BY <1>7, <3>1
      DEF Yield, PollerExit, ServeConnect, EndServer, ClearRunning, vars, client, worker
  <2> QED
    BY <1>1, <2>1 DEF EffectInv, Last
<1> QED
  BY <1>2, <1>3, <1>4, <1>5, <1>6, <1>7 DEF Next, ClientStep, ServerStep

\* What a call asks for has happened when it returns: a search answers with a value that
\* its key had meanwhile, a put, an update and a remove were applied to it.
THEOREM EffectOnReturn ==
  ASSUME OneNode
  PROVE  Spec => []CallsTakeEffect
<1>1. Init => EffectInv
  BY DEF Init, EffectInv
<1>2. RpcInv /\ EffectInv => CallsTakeEffect
  <2> SUFFICES ASSUME RpcInv, EffectInv,
                      NEW p \in Callers, phase[p] = "called", InChain(p)
               PROVE  LET r == Asked[Append(p, made[p])]
                          value == buf[p].value
                      IN  CASE r.id = "GET" ->
                                 /\ value # Uninit
                                 /\ (IF value.status THEN value.val ELSE NoVal)
                                      \in seen[p]
                            [] r.id = "PUT" -> net.room => seen[p] # {NoVal}
                            [] r.id = "UPDATE" -> {r.val, NoVal} \cap seen[p] # {}
                            [] r.id = "DELETE" -> NoVal \in seen[p]
                            [] r.id = "SCAN" -> TRUE
    BY DEF CallsTakeEffect
  <2> DEFINE r == Asked[Last(p)]
  <2>1. pending[p] = 0 /\ ran[p] = made[p] /\ made[p] > 0
    <3>1. p[1] \in Clients /\ p[2] \in Cors /\ p = <<p[1], p[2]>>
      BY CallersLemma
    <3>2. In(p[2], chain[p[1]])
      BY DEF InChain, In
    <3>3. pending[p] = 0
      BY <3>1, <3>2 DEF RpcInv, ChainShape
    <3> QED
      BY <3>3 DEF RpcInv, Ledger
  <2>2. Took(Last(p), net.room, seen[p]) /\ Got(Last(p), buf[p].value, seen[p])
    BY <2>1 DEF EffectInv
  <2>3. r.id \in {"GET", "PUT", "UPDATE", "DELETE", "SCAN"}
    BY <2>1, CallersLemma, RequestLemma DEF RpcInv
  <2>4. Last(p) = Append(p, made[p])
    BY LastLemma
  <2> DEFINE value == buf[p].value
  <2>5. r = Asked[Append(p, made[p])]
    BY <2>4
  <2>6. Took(Last(p), net.room, seen[p]) /\ Got(Last(p), value, seen[p])
    BY <2>2
  <2> HIDE DEF value
  <2>7. CASE r.id = "GET"
    <3>1. value # Uninit /\ (IF value.status THEN value.val ELSE NoVal) \in seen[p]
      BY <2>6, <2>7 DEF Got
    <3> QED
      BY <2>5, <2>7, <3>1 DEF value
  <2>8. CASE r.id = "PUT"
    <3>1. net.room => seen[p] # {NoVal}
      BY <2>6, <2>8 DEF Took
    <3> QED
      BY <2>5, <2>8, <3>1
  <2>9. CASE r.id = "UPDATE"
    <3>1. {r.val, NoVal} \cap seen[p] # {}
      BY <2>6, <2>9 DEF Took
    <3> QED
      BY <2>5, <2>9, <3>1
  <2>10. CASE r.id = "DELETE"
    <3>1. NoVal \in seen[p]
      BY <2>6, <2>10 DEF Took
    <3> QED
      BY <2>5, <2>10, <3>1
  <2>11. CASE r.id = "SCAN"
    BY <2>5, <2>11
  <2> QED
    BY <2>3, <2>7, <2>8, <2>9, <2>10, <2>11
<1>3. RpcInv /\ [Next]_vars => RpcInv'
  BY NextRpc
<1> QED
  BY InitRpc, NextEffect, <1>1, <1>2, <1>3, PTL DEF Spec
-----------------------------------------------------------------------------
\* The coroutines, the reply station, the datagrams and the loops are at a distance the
\* channel of CallChannel: a call is run at most once, and returns only when it was.
THEOREM ImplementsChannel ==
  ASSUME OneNode
  PROVE  Spec => ChannelSpec
<1> DEFINE status == [p \in Callers |-> Status(p)]
<1>1. Init => Channel!Init
  BY DEF Init, Channel!Init, Status
<1>2. RpcInv /\ [Next]_vars => [Channel!Next]_<<status, ran>>
  <2> SUFFICES ASSUME RpcInv, [Next]_vars
               PROVE  Channel!Next \/ UNCHANGED <<status, ran>>
    OBVIOUS
  <2>1. Types /\ Ledger
    BY DEF RpcInv
  <2>2. ASSUME NEW c \in Clients, NEW k \in Cors, Call(c, k)
        PROVE  Channel!Call(<<c, k>>)
    <3> DEFINE p == <<c, k>>
    <3>1. /\ p \in Callers /\ phase[p] = "idle" /\ UNCHANGED ran
          /\ phase' = [phase EXCEPT ![p] = "called"]
          /\ made' = [made EXCEPT ![p] = @ + 1]
      BY <2>2, CallersLemma DEF Call, worker
    <3>2. ran[p] = made[p] /\ made[p] \in Nat
      BY <2>1, <3>1 DEF Types, Ledger
    <3> HIDE DEF p
    <3>3. Status(p) = "idle" /\ Status(p)' = "called"
      BY <2>1, <3>1, <3>2 DEF Types, Status
    <3>4. \A q \in Callers : q # p => Status(q)' = Status(q)
      BY <2>1, <3>1 DEF Types, Status
    <3>5. Channel!Call(p)
      BY <3>1, <3>3, <3>4 DEF Channel!Call
    <3> QED
      BY <3>5 DEF p
  <2>3. ASSUME NEW c \in Clients, NEW k \in Cors, Resume(c, k)
        PROVE  Channel!Return(<<c, k>>)
    <3> DEFINE p == <<c, k>>
    <3>1. /\ p \in Callers /\ phase[p] = "called" /\ UNCHANGED <<ran, made>>
          /\ phase' = [phase EXCEPT ![p] = "idle"]
      BY <2>3, CallersLemma DEF Resume, worker
    <3>2. ran[p] = made[p] /\ made[p] \in Nat
      <4>1. chain[c] \in Seq(Nodes) /\ chain[c] # <<>> /\ Head(chain[c]) = k
        BY <2>1, <2>3 DEF Types, Resume, Current
      <4>2. In(k, chain[c])
        BY <4>1 DEF In
      <4>3. pending[p] = 0
        BY <3>1, <4>2 DEF RpcInv, ChainShape
      <4> QED
        BY <2>1, <3>1, <4>3 DEF Types, Ledger
    <3> HIDE DEF p
    <3>3. Status(p) = "run" /\ Status(p)' = "idle"
      BY <2>1, <3>1, <3>2 DEF Types, Status
    <3>4. \A q \in Callers : q # p => Status(q)' = Status(q)
      BY <2>1, <3>1 DEF Types, Status
    <3>5. Channel!Return(p)
      BY <3>1, <3>3, <3>4 DEF Channel!Return
    <3> QED
      BY <3>5 DEF p
  <2>4. ASSUME NEW c \in Clients, ServeReq(c)
        PROVE  Channel!Next
    <3>1. PICK i \in DOMAIN up[c] : up[c][i].type = "req" /\ Ran(up[c][i])
      BY <2>4 DEF ServeReq, Arriving
    <3>2. PICK p \in Callers : /\ phase[p] = "called" /\ Caller(up[c][i].call) = p
                              /\ ran[p] = made[p] - 1 /\ made[p] \in Nat
      BY <3>1, ServeReqFacts
    <3>3. UNCHANGED <<phase, made>> /\ ran' = [ran EXCEPT ![p] = @ + 1]
      BY <2>4, <3>1, <3>2 DEF ServeReq, Ran, client
    <3>4. ran[p] < made[p] /\ ran'[p] = made[p] /\ ~ (ran'[p] < made'[p])
          /\ phase'[p] = "called"
      BY <2>1, <3>2, <3>3 DEF Types
    <3>7. Status(p) = "called"
      BY <3>2, <3>4 DEF Status
    <3>8. Status(p)' = "run"
      BY <3>4 DEF Status
    <3>5. \A q \in Callers : q # p => Status(q)' = Status(q)
      BY <2>1, <3>3 DEF Types, Status
    <3>6. Channel!Run(p)
      BY <3>2, <3>3, <3>5, <3>7, <3>8 DEF Channel!Run
    <3> QED
      BY <3>2, <3>6 DEF Channel!Next
  <2>5. ASSUME NEW c \in Clients, NEW k \in Cors, Exit(c, k)
        PROVE  UNCHANGED <<status, ran>>
    <3>1. /\ <<c, k>> \in Callers /\ phase[<<c, k>>] = "idle"
          /\ phase' = [phase EXCEPT ![<<c, k>>] = "exited"]
          /\ UNCHANGED <<made, ran>>
      BY <2>5, CallersLemma DEF Exit, worker
    <3>2. ASSUME NEW q \in Callers PROVE Status(q)' = Status(q)
      <4>1. CASE q = <<c, k>>
        <5>1. phase[q] = "idle" /\ phase'[q] = "exited"
          BY <2>1, <3>1, <4>1 DEF Types
        <5>2. Status(q) = "idle"
          BY ONLY <5>1 DEF Status
        <5>3. Status(q)' = "idle"
          BY ONLY <5>1 DEF Status
        <5> QED
          BY <5>2, <5>3
      <4>2. CASE q # <<c, k>>
        <5>1. phase'[q] = phase[q] /\ made'[q] = made[q] /\ ran'[q] = ran[q]
          BY <2>1, <3>1, <4>2 DEF Types
        <5> QED
          BY <5>1 DEF Status
      <4> QED
        BY <4>1, <4>2
    <3> QED
      BY <3>1, <3>2
  <2>6. CASE \/ \E c \in Clients : \/ Yield(c) \/ PollerExit(c) \/ Poll(c)
                                   \/ ServeConnect(c) \/ Lose(c)
             \/ EndServer \/ ClearRunning \/ UNCHANGED vars
    <3>1. UNCHANGED <<phase, made, ran>>
      BY <2>6
      DEF Yield, PollerExit, Poll, ServeConnect, Lose, EndServer, ClearRunning, vars,
          client, worker
    <3> QED
      BY <3>1 DEF Status
  <2> QED
    BY <2>2, <2>3, <2>4, <2>5, <2>6, CallersLemma
    DEF Next, ClientStep, ServerStep, Channel!Next
<1>3. RpcInv /\ [Next]_vars => RpcInv'
  BY NextRpc
<1> QED
  BY InitRpc, <1>1, <1>2, <1>3, PTL DEF Spec, ChannelSpec, Channel!Spec
=============================================================================
