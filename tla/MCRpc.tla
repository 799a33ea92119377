-------------------------------- MODULE MCRpc --------------------------------
(***************************************************************************)
(* Rpc with one client thread over three networks, and with thread 0 of    *)
(* two compute nodes over the first of them.                               *)
(***************************************************************************)
EXTENDS Rpc

CONSTANTS v1, v2, k1, k2

\* every kind of call: a put and a remove beside a search of the same key, and an
\* update beside a search of the other one
Draw(id, key, val) == [id |-> id, key |-> key, val |-> val]
MCAsked ==
  [call \in Clients \X Cors \X (1 .. MaxCalls) |->
     CASE call[2] = 1 -> IF call[3] = 1 THEN Draw("PUT", k1, v2)
                                        ELSE Draw("GET", k2, v2)
       [] call[2] = 2 -> IF call[3] = 1 THEN Draw("GET", k1, v1)
                                        ELSE Draw("DELETE", k1, v1)
       [] OTHER -> IF call[3] = 1 THEN Draw("UPDATE", k2, v2)
                                  ELSE Draw("SCAN", k1, v1)]

MCStored == [k \in Keys |-> IF k = k1 THEN NoVal ELSE v1]

MCSid == [c \in Clients |-> 0]

\* a fabric that delivers all in order
InOrder == [loses |-> {}, overtaken |-> {}, ends |-> FALSE, room |-> TRUE]

\* one that loses and reorders what comes after the Connect; the server may end,
\* and its index has no room
Lossy == [loses |-> {"req", "reply"}, overtaken |-> {"req", "reply"}, ends |-> TRUE,
          room |-> FALSE]

\* one where the Connect is a datagram like the others
Bare == [loses |-> {"connect"}, overtaken |-> {"connect"}, ends |-> FALSE, room |-> TRUE]

AllNets == {InOrder, Lossy, Bare}
OneNet == {InOrder}
=============================================================================
