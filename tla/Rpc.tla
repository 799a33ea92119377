-------------------------------- MODULE Rpc --------------------------------
(***************************************************************************)
(* Client threads that call a server worker: xcomm/src/rpc (RPCCore, RPCOp,*)
(* ReplyStation) over UD datagrams, with the coroutines of                 *)
(* rolex_client.hpp and the loop and callbacks of rolex_server.hpp.        *)
(*                                                                         *)
(* A client thread runs one coroutine at a time, the head of its chain;    *)
(* coroutine 0 is the scheduler's own, which polls. The others call, pause *)
(* (leave the chain) and are added back when their reply is in. A call is  *)
(* <<client, coroutine, number>>. The server worker runs it on the index,  *)
(* which is the dictionary that Rolex implements (KVMap).                  *)
(***************************************************************************)
EXTENDS Integers, Sequences, FiniteSets

CONSTANTS Clients,     \* the client threads that use this server worker: thread i
                       \* of every compute node uses worker "b" + i
          Sid,         \* the session id of each: its thread id
          NoClient,    \* the null channel
          Coros,       \* BenConfig.coros
          Station,     \* the size of the reply station
          MaxCalls,    \* bound on the calls of one coroutine
          Keys, Vals, NoVal,
          Uninit,      \* a ReplyValue that was never written
          Stored,      \* what the index holds at the start
          Asked,       \* what every call asks: [id, key, val]; the draws of
                       \* ratio_dis (val is a scan's n)
          Nets         \* what the network and the server may do, one of
                       \* [loses, overtaken, ends, room]: the types of datagram
                       \* that get lost, those that later ones overtake, whether
                       \* the server's loop may end, and whether an insert finds
                       \* room in the index

ASSUME RpcAssumption ==
  /\ NoClient \notin Clients
  /\ Coros \in Nat \ {0} /\ MaxCalls \in Nat
  /\ Coros < Station         \* add_pending_reply: ASSERT(cor_id < size)
  /\ Nets \subseteq [loses : SUBSET {"connect", "req", "reply"},
                     overtaken : SUBSET {"connect", "req", "reply"},
                     ends : BOOLEAN, room : BOOLEAN]

Cors == 1 .. Coros
Values == Vals \cup {NoVal}

ASSUME AskedAssumption ==
  /\ NoVal \notin Vals
  /\ Uninit \notin Values \cup [status : BOOLEAN, val : Values]
  /\ Stored \in [Keys -> Values]
  /\ \A c \in Clients, k \in Cors, n \in 1 .. MaxCalls :
       Asked[<<c, k, n>>] \in
         [id : {"GET", "PUT", "UPDATE", "DELETE", "SCAN"}, key : Keys, val : Vals]

Sids == {Sid[c] : c \in Clients}
Callers == Clients \X Cors
NoReply == [call |-> <<>>, value |-> Uninit]
Caller(call) == <<call[1], call[2]>>

VARIABLES net,         \* the network it runs on; it never changes
          running,     \* the clients' global flag
          chain,       \* routine_chain of every client, from cur_routine_ptr on
          stopped,     \* SScheduler::running cleared by R2_STOP
          phase,       \* of every coroutine: "idle", "called", "exited"
          made,        \* the calls a coroutine has made
          pending,     \* pending_replies in the reply station
          buf,         \* reply_buf: the ReplyValue in it, and whose reply it is
          failed,      \* an ASSERT stopped the client
          up, down,    \* the datagrams on their way from and to every client
          sessions,    \* incoming_sesions: session id -> client
          server,      \* "serving", "ended" or "crashed"
          index,       \* the index: the value of every key
          ran,         \* history: how many calls of a coroutine were run
          seen         \* history: the values its key has had since its call

client == <<chain, stopped, phase, made, pending, buf, failed>>
worker == <<sessions, server, index, ran>>
vars == <<net, running, client, up, down, worker, seen>>

\* get_connect_op: the thread's queue pair is all it says
ConnectRequest == [type |-> "connect"]

\* After the barrier: every thread has sent its Connect and spawned its coroutines.
Init ==
  /\ net \in Nets
  /\ running = TRUE
  /\ chain = [c \in Clients |-> [i \in 1 .. Coros + 1 |-> i - 1]]
  /\ stopped = [c \in Clients |-> FALSE]
  /\ phase = [p \in Callers |-> "idle"]
  /\ made = [p \in Callers |-> 0]
  /\ pending = [p \in Callers |-> 0]
  /\ buf = [p \in Callers |-> NoReply]
  /\ failed = [c \in Clients |-> FALSE]
  /\ up = [c \in Clients |-> <<ConnectRequest>>]
  /\ down = [c \in Clients |-> <<>>]
  /\ sessions = [s \in Sids |-> NoClient]
  /\ server = "serving"
  /\ index = Stored
  /\ ran = [p \in Callers |-> 0]
  /\ seen = [p \in Callers |-> {}]

Without(wire, i) ==
  [j \in 1 .. Len(wire) - 1 |-> IF j < i THEN wire[j] ELSE wire[j + 1]]

\* UDRecvTransport: the messages that a poll may find. Each is taken once.
Arriving(wire) ==
  {i \in DOMAIN wire : \A j \in 1 .. i - 1 : wire[j].type \in net.overtaken}
-----------------------------------------------------------------------------
Current(c, k) == ~ failed[c] /\ chain[c] # <<>> /\ Head(chain[c]) = k

Leave(c) == chain' = [chain EXCEPT ![c] = Tail(@)]

\* the ids of the five calls
rpc_id == [GET |-> 0, PUT |-> 1, UPDATE |-> 2, DELETE |-> 3, SCAN |-> 4]

\* faulty: remote_update with the id it was copied with
RequestPasted(call) ==
  LET r == Asked[call]
  IN  [type |-> "req", cor |-> call[2], call |-> call,
       id |-> IF r.id = "UPDATE" THEN rpc_id["PUT"] ELSE rpc_id[r.id],
       args |-> CASE r.id \in {"GET", "DELETE"} -> <<r.key>>
                  [] r.id \in {"PUT", "UPDATE", "SCAN"} -> <<r.key, r.val>>]

\* The request that remote_search, remote_put, remote_update, remote_remove and
\* remote_scan send: the arguments behind a header with rpc id and coroutine.
Request(call) ==
  LET r == Asked[call]
  IN  [type |-> "req", cor |-> call[2], call |-> call, id |-> rpc_id[r.id],
       args |-> CASE r.id \in {"GET", "DELETE"} -> <<r.key>>
                  [] r.id \in {"PUT", "UPDATE", "SCAN"} -> <<r.key, r.val>>]

cor_ready(p) == pending[p] = 0

\* An entry that is still pending is left as it is, and nobody is told.
add_pending_reply(p) ==
  IF cor_ready(p)
    THEN /\ pending' = [pending EXCEPT ![p] = 1]
         /\ buf' = [buf EXCEPT ![p] = NoReply]
    ELSE UNCHANGED <<pending, buf>>

\* faulty: R2_YIELD in place of R2_PAUSE_AND_YIELD
CallYielding(c, k) ==
  LET p == <<c, k>>
      call == <<c, k, made[p] + 1>>
  IN  /\ Current(c, k)
      /\ phase[p] = "idle" /\ running /\ made[p] < MaxCalls
      /\ phase' = [phase EXCEPT ![p] = "called"]
      /\ made' = [made EXCEPT ![p] = @ + 1]
      /\ add_pending_reply(p)
      /\ up' = [up EXCEPT ![c] = Append(@, Request(call))]
      /\ seen' = [seen EXCEPT ![p] = {index[Asked[call].key]}]
      /\ chain' = [chain EXCEPT ![c] = Append(Tail(@), k)]
      /\ UNCHANGED <<net, running, stopped, failed, down, worker>>

\* remote_search and its like, up to the pause: the reply entry is added, the
\* request is sent, the coroutine pauses.
Call(c, k) ==
  LET p == <<c, k>>
      call == <<c, k, made[p] + 1>>
  IN  /\ Current(c, k)
      /\ phase[p] = "idle" /\ running /\ made[p] < MaxCalls
      /\ phase' = [phase EXCEPT ![p] = "called"]
      /\ made' = [made EXCEPT ![p] = @ + 1]
      /\ add_pending_reply(p)
      /\ up' = [up EXCEPT ![c] = Append(@, Request(call))]
      /\ seen' = [seen EXCEPT ![p] = {index[Asked[call].key]}]
      /\ Leave(c)
      /\ UNCHANGED <<net, running, stopped, failed, down, worker>>

\* The rest of it: the coroutine is current again. remote_search takes what
\* reply_buf holds, the others do not look at it.
Resume(c, k) ==
  /\ Current(c, k)
  /\ phase[<<c, k>>] = "called"
  /\ phase' = [phase EXCEPT ![<<c, k>>] = "idle"]
  /\ seen' = [seen EXCEPT ![<<c, k>>] = {}]
  /\ UNCHANGED <<net, running, chain, stopped, made, pending, buf, failed, up,
                 down, worker>>

\* faulty: the test for the last coroutine off by one
ExitUnstopped(c, k) ==
  /\ Current(c, k)
  /\ phase[<<c, k>>] = "idle" /\ ~ running
  /\ phase' = [phase EXCEPT ![<<c, k>>] = "exited"]
  /\ stopped' = [stopped EXCEPT ![c] = @ \/ k = Coros + 1]
  /\ Leave(c)
  /\ UNCHANGED <<net, running, made, pending, buf, failed, up, down, worker,
                 seen>>

\* The loop ends; the coroutine with the highest id stops the scheduler.
Exit(c, k) ==
  /\ Current(c, k)
  /\ phase[<<c, k>>] = "idle" /\ ~ running
  /\ phase' = [phase EXCEPT ![<<c, k>>] = "exited"]
  /\ stopped' = [stopped EXCEPT ![c] = @ \/ k = Coros]
  /\ Leave(c)
  /\ UNCHANGED <<net, running, made, pending, buf, failed, up, down, worker,
                 seen>>

\* append_reply: the payload goes to the buffer of an entry that is pending.
append_reply(p, m) ==
  /\ pending' = [pending EXCEPT ![p] = @ - 1]
  /\ buf' = [buf EXCEPT ![p] = [call |-> m.call, value |-> m.value]]

\* faulty: the reply taken and the coroutine not added back
PollQuiet(c) ==
  /\ Current(c, 0) /\ ~ stopped[c]
  /\ \E i \in Arriving(down[c]) :
       LET p == <<c, down[c][i].cor>>
       IN  /\ down' = [down EXCEPT ![c] = Without(@, i)]
           /\ IF cor_ready(p)
                THEN /\ failed' = [failed EXCEPT ![c] = TRUE]
                     /\ UNCHANGED <<chain, pending, buf>>
                ELSE append_reply(p, down[c][i]) /\ UNCHANGED <<chain, failed>>
  /\ UNCHANGED <<net, running, stopped, phase, made, up, worker, seen>>

\* The poll future takes a reply: ASSERT(append_reply(...)), and a coroutine with
\* nothing pending any more is added back.
Poll(c) ==
  /\ Current(c, 0) /\ ~ stopped[c]
  /\ \E i \in Arriving(down[c]) :
       LET k == down[c][i].cor
           p == <<c, k>>
       IN  /\ down' = [down EXCEPT ![c] = Without(@, i)]
           /\ IF cor_ready(p)
                THEN /\ failed' = [failed EXCEPT ![c] = TRUE]
                     /\ UNCHANGED <<chain, pending, buf>>
                ELSE /\ append_reply(p, down[c][i])
                     /\ chain' = [chain EXCEPT ![c] = IF pending[p] = 1
                                                   THEN Append(@, k) ELSE @]
                     /\ UNCHANGED failed
  /\ UNCHANGED <<net, running, stopped, phase, made, up, worker, seen>>

\* R2_YIELD of coroutine 0
Yield(c) ==
  /\ Current(c, 0) /\ ~ stopped[c] /\ Len(chain[c]) > 1
  /\ chain' = [chain EXCEPT ![c] = Append(Tail(@), 0)]
  /\ UNCHANGED <<net, running, stopped, phase, made, pending, buf, failed, up,
                 down, worker, seen>>

\* Coroutine 0 leaves; the thread ends when its chain is empty.
PollerExit(c) ==
  /\ Current(c, 0) /\ stopped[c]
  /\ Leave(c)
  /\ UNCHANGED <<net, running, stopped, phase, made, pending, buf, failed, up,
                 down, worker, seen>>
-----------------------------------------------------------------------------
\* faulty: the session not added
ServeConnectForgotten(c) ==
  /\ server = "serving"
  /\ \E i \in Arriving(up[c]) :
       /\ up[c][i].type = "connect"
       /\ up' = [up EXCEPT ![c] = Without(@, i)]
  /\ UNCHANGED <<net, running, client, down, worker, seen>>

\* add_new_session: insert() leaves a session that is there alone.
ServeConnect(c) ==
  /\ server = "serving"
  /\ \E i \in Arriving(up[c]) :
       /\ up[c][i].type = "connect"
       /\ up' = [up EXCEPT ![c] = Without(@, i)]
       /\ sessions' = [sessions EXCEPT ![Sid[c]] =
                         IF @ = NoClient THEN c ELSE @]
  /\ UNCHANGED <<net, running, client, down, server, index, ran, seen>>

\* The worker's callbacks. reg_callback gives each its place as its id.
callbacks == <<"get", "put", "update", "remove", "scan">>

\* What the callback of a request does: what the key maps to afterwards, and the
\* ReplyValue. Those of put and scan reply with one that was never written: put
\* drops what insert returned (the index may refuse for want of room), scan what
\* range found.
run(m) ==
  LET f == callbacks[m.id + 1]
      key == m.args[1]
      held == index[key]
      there == held # NoVal
  IN  CASE f = "get" -> <<held, [status |-> there, val |-> held]>>
        [] f = "put" -> <<IF there \/ ~ net.room THEN held ELSE m.args[2], Uninit>>
        [] f = "update" -> <<IF there THEN m.args[2] ELSE held,
                             [status |-> there, val |-> m.args[2]]>>
        [] f = "remove" -> <<NoVal, [status |-> there, val |-> NoVal]>>
        [] f = "scan" -> <<held, Uninit>>

\* What a call does to the books: it was run once more, and the other calls under
\* way see what their keys map to now.
Ran(m) ==
  /\ index' = [index EXCEPT ![m.args[1]] = run(m)[1]]
  /\ ran' = [ran EXCEPT ![Caller(m.call)] = @ + 1]
  /\ seen' = [p \in Callers |->
                IF phase[p] = "called" /\ Asked[Append(p, made[p])].key = m.args[1]
                  THEN seen[p] \cup {run(m)[1]} ELSE seen[p]]

Reply(m, cor) ==
  [type |-> "reply", cor |-> cor, call |-> m.call, value |-> run(m)[2]]

\* faulty: every reply for coroutine 1
ServeFixedCor(c) ==
  /\ server = "serving"
  /\ \E i \in Arriving(up[c]) :
       LET m == up[c][i]
       IN  /\ m.type = "req"
           /\ up' = [up EXCEPT ![c] = Without(@, i)]
           /\ Ran(m)
           /\ down' = [down EXCEPT ![sessions[Sid[c]]] = Append(@, Reply(m, 1))]
  /\ UNCHANGED <<net, running, client, sessions, server>>

\* faulty: the receive buffer handed back and met again
ServeKept(c) ==
  /\ server = "serving" /\ \A p \in Callers : ran[p] < 3
  /\ \E i \in Arriving(up[c]) :
       LET m == up[c][i]
       IN  /\ m.type = "req"
           /\ Ran(m)
           /\ down' = [down EXCEPT ![sessions[Sid[c]]] = Append(@, Reply(m, m.cor))]
  /\ UNCHANGED <<net, running, client, up, sessions, server>>

\* recv_event_loop: the callback runs on the index and replies through the channel
\* of the session; without a session it does so through a null pointer.
ServeReq(c) ==
  /\ server = "serving"
  /\ \E i \in Arriving(up[c]) :
       LET m == up[c][i]
           to == sessions[Sid[c]]
       IN  /\ m.type = "req"
           /\ up' = [up EXCEPT ![c] = Without(@, i)]
           /\ Ran(m)
           /\ IF to = NoClient
                THEN server' = "crashed" /\ UNCHANGED down
                ELSE /\ down' = [down EXCEPT ![to] = Append(@, Reply(m, m.cor))]
                     /\ UNCHANGED server
  /\ UNCHANGED <<net, running, client, sessions>>

EndServer ==
  /\ net.ends /\ server = "serving"
  /\ server' = "ended"
  /\ UNCHANGED <<net, running, client, up, down, sessions, index, ran, seen>>

Lose(c) ==
  /\ \/ /\ UNCHANGED down
        /\ \E i \in DOMAIN up[c] :
             up[c][i].type \in net.loses /\ up' = [up EXCEPT ![c] = Without(@, i)]
     \/ /\ UNCHANGED up
        /\ \E i \in DOMAIN down[c] :
             "reply" \in net.loses /\ down' = [down EXCEPT ![c] = Without(@, i)]
  /\ UNCHANGED <<net, running, client, worker, seen>>

\* The time of the benchmark is over.
ClearRunning ==
  /\ running
  /\ running' = FALSE
  /\ UNCHANGED <<net, client, up, down, worker, seen>>
-----------------------------------------------------------------------------
ClientStep(c) ==
  \/ \E k \in Cors : Call(c, k) \/ Resume(c, k) \/ Exit(c, k)
  \/ Yield(c) \/ PollerExit(c)

ServerStep(c) == ServeConnect(c) \/ ServeReq(c)

Next ==
  \/ \E c \in Clients : ClientStep(c) \/ Poll(c) \/ ServerStep(c) \/ Lose(c)
  \/ EndServer
  \/ ClearRunning

Spec == Init /\ [][Next]_vars

\* The threads keep running, a datagram that is not lost arrives, and the time of
\* the benchmark comes to its end. Coroutine 0 both polls and yields: each turn
\* takes all the datagrams that have arrived, which is fairness of Poll alone.
FairSpec ==
  /\ Spec
  /\ \A c \in Clients :
       WF_vars(ClientStep(c)) /\ SF_vars(Poll(c)) /\ WF_vars(ServerStep(c))
  /\ WF_vars(ClearRunning)
-----------------------------------------------------------------------------
InChain(p) == \E i \in DOMAIN chain[p[1]] : chain[p[1]][i] = p[2]

Calls == UNION {{Append(p, n) : n \in 1 .. made[p]} : p \in Callers}

\* The variables have their types, and the scheduler's linked list holds a node once
\* (LinkedList::add would make a cycle of a node that is in).
TypeOK ==
  /\ net \in Nets /\ running \in BOOLEAN
  /\ \A c \in Clients :
       /\ chain[c] \in UNION {[1 .. n -> 0 .. Coros] : n \in 0 .. Coros + 1}
       /\ \A i, j \in DOMAIN chain[c] : chain[c][i] = chain[c][j] => i = j
  /\ stopped \in [Clients -> BOOLEAN] /\ failed \in [Clients -> BOOLEAN]
  /\ phase \in [Callers -> {"idle", "called", "exited"}]
  /\ \A p \in Callers : made[p] \in 0 .. MaxCalls /\ ran[p] \in Nat
  /\ pending \in [Callers -> 0 .. 1]
  /\ \A p \in Callers :
       /\ buf[p].call \in Calls \cup {<<>>}
       /\ buf[p].value \in {Uninit} \cup [status : BOOLEAN, val : Values]
       /\ seen[p] \subseteq Values
  /\ index \in [Keys -> Values]
  /\ sessions \in [Sids -> Clients \cup {NoClient}]
  /\ server \in {"serving", "ended", "crashed"}

\* remote_search reads reply_buf when its coroutine runs again: it is the reply to
\* this very call, whatever was lost, overtaken or answered before.
OwnReply ==
  \A p \in Callers :
    phase[p] = "called" /\ InChain(p) =>
      pending[p] = 0 /\ buf[p].call = Append(p, made[p])

\* What a call asks for has happened between the request and its return, at a moment
\* when nothing else did: remote_search answers with a value that its key had, a
\* put (while there is room) or an update left its key with a value, a remove left
\* it without.
CallsTakeEffect ==
  \A p \in Callers :
    phase[p] = "called" /\ InChain(p) =>
      LET r == Asked[Append(p, made[p])]
          value == buf[p].value
      IN  CASE r.id = "GET" ->
                 value # Uninit /\ (IF value.status THEN value.val ELSE NoVal) \in seen[p]
            [] r.id = "PUT" -> net.room => seen[p] # {NoVal}
            [] r.id = "UPDATE" -> {r.val, NoVal} \cap seen[p] # {}
            [] r.id = "DELETE" -> NoVal \in seen[p]
            [] r.id = "SCAN" -> TRUE

\* LinkedList::leave_one leaves header_p alone, so that coroutine 0, the header, must
\* be the last to leave the chain, in whatever order replies and R2_STOP come.
PollerLast ==
  \A c \in Clients : chain[c] # <<>> => \E i \in DOMAIN chain[c] : chain[c][i] = 0

\* ASSERT(ret) on append_reply (mod.hh:131): no reply comes to a coroutine that
\* expects none, also after the scheduler was stopped with calls on their way.
NoStrayReply == \A c \in Clients : ~ failed[c]

\* The channel a callback replies through is there (mod.hh:77), if the Connect is
\* neither lost nor overtaken.
SessionKnown ==
  "connect" \notin net.loses \cup net.overtaken => server # "crashed"

Reliable == net.loses = {} /\ net.overtaken = {} /\ ~ net.ends

\* Over a network that loses nothing a remote_search and its like return, unless the
\* coroutine with the highest id stops the scheduler first.
CallsReturn ==
  \A p \in Callers :
    Reliable /\ phase[p] = "called" ~> phase[p] # "called" \/ stopped[p[1]]

\* After `running` is cleared ssched.run() returns, so that a worker can be joined,
\* in whatever order the coroutines leave their loops.
ThreadEnds ==
  \A c \in Clients : Reliable /\ ~ running ~> chain[c] = <<>>

\* What the calls are at a distance: run at most once, and returned only when run.
Status(p) ==
  IF phase[p] # "called" THEN "idle"
  ELSE IF ran[p] < made[p] THEN "called" ELSE "run"

Channel == INSTANCE CallChannel WITH status <- [p \in Callers |-> Status(p)]

\* The coroutines, the reply station and the loops implement CallChannel.
ChannelSpec == Channel!Spec
=============================================================================
